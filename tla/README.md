# plex-mirror in TLA+

plex-mirror is one Go process that browses Plex and Jellyfin servers, downloads
items of a Plex server into a local library, and evicts the oldest downloads
when the library grows past a cap. It is driven by a web portal and by MCP
tools, and it is reconfigured and reconnected live, without a restart. This
directory holds a TLA+ model of the parts of it that run concurrently or must
survive failures, TLC configurations that check the model on small instances,
and proofs, checked by TLAPS, of the safety of every component for every instance.

Paths below are relative to `src/internal` unless they begin otherwise.

## 1. Inventory

| component | state | operations | correct when |
|---|---|---|---|
| download engine `download/engine.go`, `layout.go` | semaphore slots, `.partials` files, library files | Queue, RunOnce, Download (resume, retries, import) | one writer per item; nothing incomplete reaches the library; a queued item settles |
| items table `db/` | rows, unique by (source, source_key), with AUTOINCREMENT ids | upserts, updates by id, one connection | a status tells the truth about the file and about who works on it |
| cancel and evict requests `service/cancel.go`, `service/mirror.go` | none of their own | Cancel: check, delete, unlink; Evict: load, remove, update | they undo nothing they did not mean to, whatever a worker does in between |
| storage manager `storage/manager.go` | reads rows and files | RecordReady, EvictItem, EvictNow, RunSweeper | oldest first, no further than the target, and down to the cap in the end |
| service runtime `service/service.go` | runtime bundle, generation of workers, `s.mu` | Start, Reload | one generation at a time, for the live runtime, built from the saved settings |
| health and reconnect `service/health.go` | registry, `reconnectCh`, `kickCh`, `reconnectMu` | monitor, supervisor, ReconnectSource, recordObservation | heals by itself; an outage shows; nobody waits for ever; a repair never drops Plex |
| Plex discovery `source/plex/discover.go` | none | Discover: resources, ranking, probes | the best connection that answers in time, of the server that was named |
| settings `settings/`, `service/settings.go` | settings rows, some encrypted | ApplySettings, GetAll, Effective, re-encryption | all or nothing; secrets neither lost nor exposed; only valid configurations run |
| bulk operations `service/bulk.go` | none | QueueContainer, EvictContainer, their previews | no leaf is left out; nothing is evicted from under a download; the call does what its dialog said |
| portal `server/`, views `server/views` | what a browser shows, and the ids it will post | pages, fragments, clicks, polls | a stale page harms no other item and no download; no page shows a mirrored item as missing; polls catch up |
| queue drawer `server/views/layout.templ` | open, body, an htmx request | open, close, answer | a closed drawer is quiet, an open one is filled |
| navigation cache `server/portal.go` | `navCache` | navLibraries, clear | libraries of a past configuration are shown for a bounded time only |
| Jellyfin client `source/jellyfin` | the user id, looked up once | ListLibraries | an outage ends when the server is back |
| MCP adapter `mcp/`, Plex client, `config/`, `src/cmd/` | none | adapters, clients, parsing, formatting | unit-test material; `evict-now` and `download` are second processes on the same database |

How they interact. Portal and MCP handlers call Service in their own
goroutines. Service reads the live runtime through an atomic pointer. Each
runtime's generation of workers is the engine's poll loop, the sweeper and the
health monitor, under one context and one wait group; a reload cancels the
generation, waits for it, resets rows left `downloading`, publishes the new
runtime and launches the next generation, all under `s.mu`. The monitor asks the
supervisor, which is in no generation, to reconnect, through a channel of
capacity one; the supervisor and ReconnectSource reload under `reconnectMu`.
Engine, manager and handlers share the items table and the disk, and nothing
else: no row and no file is ever locked. A browser holds ids of rows for as long
as its page is open; htmx sends its clicks and polls, and puts the answers in
place. Portal handlers list the libraries of a source for the sidebar of every
page, through a cache that saves and reconnects clear, and what these calls meet
is entered in the health registry.

What is hard here, then: handlers and workers interleaving between two
statements, or between a statement and a file operation; writes that fail or
whose context is cancelled; a process that dies between the disk and the
database; snapshots (of a status, of a partial's length, of candidates, of
settings, of a runtime) used after they have gone stale; requests that coalesce;
waiting in circles. `PROJECT.json` lists each hazard at its line.

## 2. Modules

| module | models | proofs |
|---|---|---|
| `ItemLifecycle` | what the items table promises: how the row of an item may change | abstract; see `MirrorRefinement` |
| `Mirror` | engine, items, partials and library, handlers, reloads, crashes | `MirrorProofs`; `MirrorRefinement`: it implements `ItemLifecycle`; `MirrorFiles`: partials and library files |
| `Eviction` | eviction passes of several processes over rows and files | `EvictionProofs` |
| `Service` | runtime, generations, health registry, reconnects, settings saved | `ServiceProofs` |
| `Settings` | the settings rows, their encryption, boots and saves of several processes | `SettingsProofs` |
| `Pages` | a browser tab's pages, clicks and polls over the items table | `PagesProofs` |
| `Bulk` | queueing and evicting a show or season, with its dialog | `PortalProofs` |
| `Drawer` | the queue drawer and its one htmx request at a time | `PortalProofs` |
| `Navigation` | the sidebar's cache, a source's health and a client's user id | `PortalProofs` |
| `Discovery` | plex.Discover: selection, ranking, probes within a deadline | `PortalProofs` |
| `Portal` | `Pages` and the four above, one per behaviour | `PortalProofs` |
| `MCMirror`, `MCEviction`, `MCService`, `MCSettings`, `MCPortal` | values for TLC | |

`Pages` and `Bulk` extend `ItemLifecycle`: behind them the table changes in
every way that the abstract specification allows, and since `Mirror` implements
it, in every way that the detailed engine can change it. `Portal` extends
`Pages` and holds an instance of each of `Bulk`, `Drawer`, `Navigation` and
`Discovery`; `MCPortal` gives it values, bounds and fairness.

Definitions that begin with "Mutation:" are plausible wrong versions of the one
that follows them. No specification uses them: they are there to be swapped in,
to see that the properties notice.

### Mirror

One source. A file is a sequence of blocks `<<version, place>>`, so whether a
resumed file is right is a statement about the sequence. A statement or
transaction is one action, a file-system call is one action, a request to
upstream up to its header is one action, and a read and write of one block is
one.

| code | model |
|---|---|
| items rows; AUTOINCREMENT | `rows` by source_key; `nextId` |
| `.partials/...`, library path | `partial[key]`, `final[path]` |
| Layout.Final from fresh metadata, or from the row | a choice in `Destinations[key]` |
| a generation's context: live, cancelled; no engine; no process | `engine` = `live`, `draining`, `absent`, `down` |
| RunOnce's ids not yet dispatched; the semaphore's slots | `batch`; `worker[w]`, whose `pc` is the place in Download |
| Queue | `Queue` |
| RunOnce: scan, dispatch, `wg.Wait`, cancelled dispatch | `ScanQueued`, `Dispatch`, guard of `ScanQueued`, `AbandonBatch` |
| Download up to the header | `Resolve`, `Mark`, `Fetch` (200, 206, 416, other) |
| copy loop, retry loop, context checks | `ReadBlock`, `EndBody`, `Backoff`, `Interrupted` |
| size check and rename; RecordReady | `Import`; `Record` |
| markError and its ignored failure | `Fail`, `Commit` |
| Cancel; EvictItem; a client that goes away | `CancelCheck/Delete/Unlink`; `EvictLoad/Remove/Flip`; `RequestAborts` |
| reloadWith; Start; the process dies | `Reload`, `Relaunch`; `Start`; `Crash` |

Abstracted: `bytes_done` and progress flushes (the code resumes by the length on
disk, never by `bytes_done`), items whose size upstream does not declare (but
not bodies that end early without an error, the event "short"), throughput, scans of the Jellyfin library, and the length of a delay.

### Eviction

| code | model |
|---|---|
| EvictNow: measure, select, loop | `Measure`, `Select`, `Refuse`/`Count`/`Remove`+`Flip`, `Finish` |
| RunSweeper's own check before it calls EvictNow | `SweepTick` |
| `plex-mirror evict-now [--dry-run]`, a process of its own | `EvictCommand` |
| EvictItem, of a row in any state | `EvictItem`: a pass over one candidate with no target; without a path it goes straight to its UPDATE |
| ORDER BY completed_at, id | `Precedes`, `First` |
| evictionTarget: over either cap; soft cap, or nine tenths of the hard one | `OverCap`, `Target` |
| the caps of the settings; those of the environment, by which `evict-now` goes | `policy`, `EnvPolicy`, `PolicyOf` |
| RunOnce and Download of an item, as far as they touch its row and file | `held`; `Hold`, `Mark`, `Import`, `RecordReady`, `Leave` |
| Queue rewrites the size of a ready item | `Requeue` |

A row that is neither `ready` nor `evicted` counts for nothing in a pass, so
`queued` stands for `downloading` and `error` too. The portal's route and the MCP
tool evict any id: a row that is evicted while the engine holds its item is
marked, or made `ready` again, by it, and one that no engine holds stays evicted
for ever (see `requeue_evicted` below). `blind` is history: the rows that
EvictItem read without a path and evicted over what they had become since.

### Service

| code | model |
|---|---|
| runtime bundle: its configuration and the Plex URL it uses | `rt` |
| a generation: context cancelled, running, gone | `worker[place]`; `current` is the one workersCancel stops |
| registry: entry or none, status | `health` |
| reconnectCh, kickCh, s.mu, reconnectMu | `asked`, `kicked`, `mu`, `turn` |
| monitor: wake, probe, record | `Wake`, `Probe`, `Record`, `Sleep`, `Exit` |
| supervisor, ReconnectSource, doReconnect | `Take`, `ReconnectSource`, `LockReconnect`, `Resolve`, `Reprobe`, `RecordReprobe` |
| reloadWith | `BuildRuntime`, `StopWorkers`, `Swap`, `SeedHealth` |
| ApplySettings | `Save`, followed by the steps of reloadWith |
| recordObservation | `Observe`, `CheckTracked`, `EnterObservation` |
| Discover's result | `Discoverable`, `account` |

The monitor stands for its whole generation: reloadWith treats them alike.
Two places for generations are enough, because a third could be launched only
while two others run, which `OneGeneration` excludes. Backoff durations,
failure counts, error texts and the table of candidates are abstracted; a timer
may fire at any time. A server's name that plex.tv does not know is the verdict
`parked`, handled like a refused token.

### Settings

| code | model |
|---|---|
| settings rows: the KDF salt, a secret, the rest | `salt`, `secret[k]`, `plain` |
| a stored secret: plaintext, or ciphertext under a key | `Rows`: what it says, and the key that reads it |
| deriveKey from PLEXMIRROR_SECRET_KEY and the salt | `Keys`: another passphrase or salt is another key |
| loadOrCreateSalt: read, INSERT unless there is one, read again | `ReadSalt`, `InsertSalt`, `RereadSalt` |
| EncryptPlaintextSecrets: read all, then write one by one | `Scan`, `Rewrite` |
| service.New: GetAll and Effective, or the environment; then buildRuntimeWith, or an error | `Boot`, `Load`, `Start`, `Buildable` |
| ApplySettings: validate; SetMany; reload on a context of its own, or ErrReloadAfterSave | `Submit`, `SetMany`, `Reload` |
| a blank secret field, a cleared one, a new token | `Written` |
| the server ends or dies | `Stop` |

The two storage caps stand for everything the form posts and Effective
validates: each alone (a size that does not parse) and the two against each
other. What Effective lets pass and the adapters refuse, a URL without a scheme,
is in `plain.bad`, the sources that have such a URL: a runtime that would need
a client for one of them is not built (`Buildable`), so a save is written and
not in effect, and a boot fails. A secret's text is a token or empty. Left out: `Delete`, which only tests
call, the settings page's own view, a plaintext token that begins with the
cipher prefix, and the fixed salt for a random generator that fails. A process
has one save at a time here; `Service` has concurrent saves and what their
reloads do to each other.

### ItemLifecycle, and how Mirror implements it

A row is an id and a status; `claimed` are the ids that the engine has scanned
and may still write. A request enqueues, deletes or evicts a row (whatever its
status: Cancel checks it in an earlier statement, EvictItem never does). The
engine claims what is queued, when it holds nothing; marks or fails a row that it
holds; delivers one by key (RecordReady's upsert), which may make a new row; and
a restart takes `downloading` back to `queued` when nothing is held. The mapping
is `items <- Table` (Mirror's rows without size, path and time) and
`claimed <- Held` (the batch, and the ids of busy slots).

### Pages

| code | model |
|---|---|
| a page in a browser tab: its rows, and the error notices in place of some | `page` |
| a request of the tab, from click to answer | `req`; its `step` is the place in the handler |
| `hx-trigger="every 2s"` of the queue table | `Polling`, `Poll`, `Refresh` |
| DownloadStatus, ListMirrored: one SELECT each | `DownloadStatus`, `ListMirrored` |
| statusMap, findMirror and the order of their SELECTs, any of which may fail and is then an empty list | `Selects`, `Combine`, `Read`; `lost` |
| GetItem fails: an item's page, or panel, is an error | `Unavailable` |
| detailActions, ActionCell, QueueRows, StoragePanel | `Offers`: the buttons for a status |
| handleQueue and QueueDownload | `Queue`, `Reread` |
| handleCancel and Cancel; handleEvict | `CheckCancel`, `Cancel`; `EvictById` |
| InlineError in place of the swap target | `Notice` |
| the engine, other tabs, MCP tools | `Others` |

A library page and a season's children are both grids of action cells
(`browse`). Search, paging, titles and sizes are left out, and so are lookups
upstream except as a failure of `Queue` or of an item's page. A statement that
fails behind a click ends in a notice; one that fails behind a page or a poll
goes unnoticed.

### Bulk

| code | model |
|---|---|
| gatherLeaves, collectLeaves (depth 3), listAllChildren (pages of 200) | `FetchPage`, `Descend`, `Page`, `Last`, `WalkFails` |
| statusesForSource, readyRowsForSource | `Snapshot`: one SELECT |
| PreviewContainer, PreviewEvict and the confirm dialogs | `Begin(op, TRUE)`, `Counts`, `dialog`, `Dismiss` |
| QueueContainer, EvictContainer, leaf by leaf | `Skip`, `QueueLeaf`, `EvictLeaf`, `LeafFails`, `Finish` |
| an episode that appears upstream between two pages | `Insert` |

The depth-first recursion is a stack (`todo`), with the children met so far
(`batch`). A page of one child stands for one of 200.

### Drawer, Navigation, Discovery

| code | model |
|---|---|
| pmToggleQueue; GET /queue/drawer, and what follows its answer | `OpenDrawer`, `CloseDrawer`; `Ajax`, `Answer` |
| htmx: one request at a time per element, the last other one kept | `waiting`, `SendNext` |
| navCache entry and its 60 s | `nav`, `Fresh`, `Store` |
| shell, navLibraries with 4 s | `Miss`, `InTime` |
| userOnce, lookupUserID | `user`, `LookUp`, `LookedUp`, `LookUpFails` |
| ListLibraries, recordObservation | `List`, `ListFails`, `Failed` |
| handleSettingsSave; handleReconnect | `Save`, `StopMonitor`, `Install`, `Clear`; `Reconnect`, `ClearAfterReconnect` |
| fetchResources, selectServer; rankConnections | `Fail`, `SelectServer`; `RankConnections` |
| the probe loop, ProbeAll, the 4 s of a probe, the caller's 12 or 25 s | `Probe`, `Pick`, `left` |

Navigation has one source with a static URL, Jellyfin: Plex by server name is in
`Service`. Time is a tick that no page's deadline lets pass; an age is counted up
to where nothing distinguishes it. A silent connection costs a probe's timeout,
one that answers or refuses costs nothing, and `left` is how many silent ones the
deadline has room for.

## 3. Runs

The environment's events are a constant (`Events`) in Mirror. In Eviction and
Service a variable, `events`, is set once by Init to one of several sets of
events and never changes: one run then covers several environments without the
product of all of them, and a property can name the environment it is about.
`Portal` does the same with components: `scene` says which of them a behaviour
is about, and the variables of the others do not change.

| run | question | instance |
|---|---|---|
| `mirror_core` | One writer? No row stranded? Does the table change only as `ItemLifecycle` says? | 2 items of one length, 2 slots, 1 handler; cancel, evict, abort, reload, crash; ids up to 3 |
| `mirror_one_item` | Does a ready row without a file always have an eviction under way? Is a file ever cut short when upstream changes between attempts? | 1 item whose content, of length 3 or 1, and path change, 1 slot, 2 handlers, 2 attempts, bodies that end early, failing writes |
| `mirror_intact` | Does a resume ever corrupt a file? Does ready stay ready? Do items settle? | 2 items of different lengths, 1 slot, 2 attempts; evict, abort, reload, crash; fairness |
| `eviction` | Do files go with rows, oldest first, down to the target and to the cap? | 3 items of size 1 or 2, one outside the root; the engine and a sweeper, with failing statements, beside a command with other caps, or beside 2 handlers that evict or re-queue 2 of the items in any state; a soft cap or a hard cap; fairness |
| `service_heals` | Ever two generations? Does it heal, show outages, never hang and never drop Plex? | 2 advertised addresses, Plex by name or Jellyfin, 1 handler that saves, reconnects or observes, supervisor, failing database; fairness |
| `settings` | One salt? Only valid configurations? Is a token ever lost, or left exposed? Is what was saved in effect? | 2 processes, 2 secrets, 2 passphrases, 2 salts, 5 forms; passphrases that change, processes that overlap, failing statements |
| `portal` | Do stale pages harm another item, or a download? Is a mirrored item ever shown as missing? Do polls catch up? Does a bulk call leave out a leaf, or do what its dialog did not say? Are old libraries shown for long? Is the best connection found? | per scene: 1 item and every page, or 2 items and the page of one; a show with one season and up to 2 episodes; a drawer; 1 page, 2 configurations; 2 resources, 3 connections; fairness |

Why the bounds are enough. `MaxId` = 3 with two items lets an item be cancelled
and queued again under a new id while work on the old one goes on, which is the
one thing ids matter for. Two slots and two items give every pair of Downloads.
Lengths 1 and 2 distinguish empty, partial and whole files, and a partial as
long as, or longer than, another version; lengths 1 and 3 leave one between them
that no version has, for a file cut short. Two attempts give a retry. Two clock
values give equal and different completion times (`MaxClock` = 1), three items
an order with a refused candidate in it; beside handlers the third stays out
(`Bound`), because two give what there is to a handler's pass of one candidate:
the same item as another pass, or a different one. A handler beside the
supervisor gives two concurrent reloads, of which one waits for the monitor of
the other; the proof of `OneGeneration` has any number. Two addresses let the
server move. Two processes give the race for the salt and a boot beside a save;
two salts let the loser of that race hold one that is stored nowhere (`Unused`
leaves a process that would need a third waiting, which only happens with
failing statements); two passphrases give one that is changed and comes back;
the forms replace, clear and leave a token, and are refused for either reason,
or post a URL that no client is made of. In `portal`, two ids (`MaxId` = 2) give
an item that is removed and queued again, or two items, while a button holds the
first id; the second item need not be downloaded, since what is asked of it is
that clicks on the first leave it alone. Pages of one child put a page boundary
everywhere. A cache entry of two ticks outlives a call of one, and the horizon
of their sum is what `BoundedStaleness` compares with. Three connections with
room for two silent probes include the case in which the deadline passes before
the last. Symmetry is used in runs without liveness only: slots, handlers,
processes, passphrases, salts, and the two items together with their paths.

Runs that fail, each showing a place where the code does not do what its own
comments say (details under `findings` in `PROJECT.json`):

- `cancel_stray_partial`: a partial that Cancel unlinks under a starting
  Download is not harmless: the tail is appended at the old offset to a new
  file, and the next resume trusts its length.
- `requeue_evicted`: queueing an evicted item leaves it evicted for ever.
- `entry_outlives_config`: a dropped source's registry entry comes back with
  the first probe of the new generation.
- `settings_overtaken`: a reconnect that read the old settings swaps them in
  after a save.
- `jellyfin_recovers`: if the first call of a Jellyfin client fails, because
  the server is away or because the page that made it was closed, the error is
  kept in the client's `sync.Once`: the source stays down although it answers,
  until settings are saved.

Smaller disagreements, met while modelling and stated by no run of their own:

- the comment of navLibraries says that an error "is cached too"
  (`server/portal.go:610`); its body says, and does, the opposite (641-644).
- opening an item that is gone parks its whole source, although
  `service/health.go:57` keeps `parked` for "non-transient config error": the
  repertoire `{"observe", "missing"}` of `service_heals` has it, and `SelfHeals`
  is stated without it.
- a drawer that is reopened before its first answer and closed before the second
  goes on polling, against the comment at `server/views/layout.templ:176`
  (`reopened` in `Drawer`).
- EvictItem, which by its comment "removes its local file" (`storage/manager.go:143`),
  may find an item `downloading`, without a path; if the download ends before the
  UPDATE, the row is evicted and the file it now has stays (`blind` in `Eviction`).
- a Plex URL without a scheme is saved, because Effective does not look at URLs.
  The reload fails, and the settings are said to "take effect on the next restart"
  (`service/settings.go:16`); but the restart fails too (`failed` in `Settings`),
  before the page is served on which "the operator can fix it"
  (`service/service.go:159`).
- findMirror "returns the local row ... if one exists" (`server/portal.go:231`),
  unless a SELECT fails: then the page offers to queue an item that is mirrored
  (`lost` in `Pages`).
- a multi-part item is refused by the engine's own size check (see the hazards).

What the passing runs say about these places: `PartialIsPrefix` and
`ReadyIntact` hold without cancellations and replacements upstream and are
stated so; `ReadyHasFile` holds when no eviction is cut short and no cancelled
row comes back; it and `ReadyIntact` are about items that share no library path
(`PathsDistinct`: nothing in the layout keeps two films of one title and year
apart); `StopsAtTarget` is about a pass that runs alone (`Alone`); `NoStranded`
holds with a reliable database; `SelfHeals` holds when no handler asks for
missing items; `HealthRecovers` holds once the user is known; `PicksBest` holds
while the deadline lasts; `KeysAgree` and `ExposureCloses` hold when the
database answers, and `TokensKept` when no second process boots beside a save;
`SavedIsInEffect` holds when no statement fails, no second process saves, and a
runtime can be built from what is stored; `FileGoesWithRow` holds when no
statement and no removal fails, and for rows that were not evicted blindly;
`NeverShownMissing` is about pages whose SELECTs have not failed, and
`QueuePageConverges` needs that at some time they no longer do. These premises
are in the properties.

## 4. Fairness

`Mirror!FairSpec`: weak fairness of the scan, of the dispatch, of each step of a
Download, of a handler that has begun and of a reload's relaunch. These are
goroutines of one process, timers of the poll loop and requests that carry
deadlines. Nothing of the environment is fair: a restart need not happen, a
server need not answer well (`Fetch` may always fail; RetryAttempts ends it).
`Settles` is conditional on the engine staying live in the end.

`Eviction!FairSpec`: the sweeper's ticker and the steps of a pass that has
begun. No failure, command or handler is fair.

`MCPortal!FairPortal` has the fairness of each component in its own scene. Pages: a
handler that has begun answers, and htmx polls every 2 s as long as the element
is in the document. Drawer: a request ends. Navigation: network calls end, by
their deadlines at the latest, the monitor's timer fires again after each probe,
and the steps of a save follow each other. Bulk and Discovery are checked for
safety only. Users do nothing fairly, nor does the source or the engine.

`Service!FairSpec`: weak fairness of the monitor (its timer is always reset), of
the supervisor and of the steps of a call; strong fairness of taking `s.mu` and
`reconnectMu`, because a Go mutex becomes FIFO for a waiter that has waited a
millisecond. Outages, verdicts of plex.tv and handlers are not fair. CapEnforced,
SelfHeals and OutageShows need nothing else.

CHECK_DEADLOCK is off in `eviction`, where with every item downloaded and no cap
exceeded the system has nothing to do, and in `portal`, where Discover returns.

## 5. Proofs

`MirrorProofs` proves for every set of items, slots, handlers, versions and
paths, any number of attempts, any set of events and any `MaxId`, from the named
assumptions on the constants in `Mirror`:

- `TypeCorrect`: `Spec => []TypeOK`.
- `OneWriter`: `Spec => []SingleWriter`.
- `NothingStranded`: `Spec => []NoStranded`.
- `LibraryComplete`: `Spec => []FinalComplete`.

They follow from one inductive invariant, `SafetyInv`, because none of them is
inductive alone. `SingleWriter` speaks of keys, while RunOnce dispatches ids:
that two slots never hold one key needs that an id identifies one row for ever
(`IdsIdentify`), that a slot's id, if any row has it, is that of the slot's key
(`SlotsIdentify`), and that no key being worked on waits in the batch
(`BatchWaits`), which is what RunOnce's wait buys: a cancelled item that is
queued again has an id the batch does not hold. `NoStranded` needs the same
facts at `Record` and `Fail`, where a row changes by id or by key under another
one's feet, and `CallsIdentify` for handlers, whose id 0 would mean "no row".
`FinalComplete` needs that every size a row or slot compares against is one
upstream declared (`SizesDeclared`). The proof has one lemma per part of the
invariant that a step can disturb, and in it one step per action.

`MirrorRefinement` proves, from the same assumptions and on top of `SafetyInv`:

- `Refinement`: `Spec => ImplementsLifecycle`, that is, Mirror implements
  `ItemLifecycle`.
- `EngineHoldsInFlight`: `Spec => []HeldInFlight`.

The one thing that is not a matter of matching actions is that the engine never
writes over a row that it does not expect: `ItemLifecycle` lets it mark and fail
rows in `InFlight` only. `HeldInFlight` says that every row whose id the engine
holds is in flight: it was `queued` when it was scanned, no second download holds
it (`SingleWriter`), ids are not used again (`IdsIdentify`), Queue leaves a row
that is not in `error` alone, and RecordReady, which goes by key, ends the hold.
`DownHoldsNothing` adds that an engine that is down holds nothing, which is what
lets a restart write over `downloading`. The proof has a lemma per kind of step
(one that changes no row, one that changes the row of one item) and then one case
per action of Mirror, each with the action of `ItemLifecycle` that it is.

`MirrorFiles` proves, on top of both:

- `ReadyIsKept`: `Spec => ReadyUntilEvicted`.
- `ResumeIsSound`: `Spec => []PartialIsPrefix`.
- `LibraryIntact`: `Spec => []ReadyIntact`.
- `RowsHaveFiles`: `Spec => []ReadyHasFile`.

It begins with what a step can do at all: to one row (`RowStep`), to a slot
(`SlotStep`), to a handler (`CallStep`), to a file of the library (`FileStep`),
each a disjunction of a few kinds in place of Mirror's twenty-odd actions.
`ReadyIsKept` follows from the first and from `HeldInFlight`. For the files the
inductive invariant is `FilesInv`. A row's path, and a slot's, is one of its own
item's (`PathsFollowLayout`), so that an import or a removal touches no other
item's file. Without cancellations a slot's and a handler's id is that of the row
of its key (`NothingCancelled`), so the handler that is about to remove a file
removes the one of its own row, which the engine has let go of
(`RemovesItsOwn`), and what was imported is still there when it is recorded
(`ImportedStays`). The part about contents says that a partial begins as the
upstream file does and a slot goes on at its end (`PartialsBegin`,
`SlotsResume`), through every answer to a range request and every retry; what
is imported has the right length, and so is whole (`ImportedIsWhole`).

`ServiceProofs` proves for every set of handlers, addresses, configurations and
verdicts of plex.tv, and every repertoire of events:

- `TypeCorrect`: `Spec => []TypeOK`.
- `GenerationsExclude`: `Spec => []OneGeneration`.
- `PlexNeverDropped`: `Spec => PlexKept`.

`OneGeneration` says that some generation is off; what is inductive is that it
is the one that is not current (`OnlyCurrentRuns`), since `Swap` waits for the
current one and launches in the other place. `PlexKept` is about the swap, but is
decided by what a reconnect carries there from before: `RepairsHavePlex` says
that a call that is to build has a resolved connection or a URL, and one that has
built has Plex. The first part is what the gate in doReconnect gives.

`SettingsProofs` proves for every set of processes, secrets, forms, passphrases,
salts and environments:

- `TypeCorrect`: `Spec => []TypeOK`.
- `NeverInvalid`: `Spec => []ConfigsValid`.
- `OneSalt`: `Spec => []KeysAgree`.
- `NothingExposed`: `Spec => []ExposureCloses`.
- `OnlyTheOperator`: `Spec => TokensKept`.
- `SavesTakeEffect`: `Spec => []SavedIsInEffect`.

The invariant adds what a process carries between its statements: the form it is
about to write is valid (`FormsValid`), a salt it found stays (`SaltStays`), past
the salt a passphrase means a key (`KeysFollow`), and what it scanned is both
what the rows say and all that is in plaintext (`TodoIsPlain`, which needs
`OneAtATime`). `ExposureCloses` rests on the last one, `TokensKept` on the one
before it: that re-encryption writes back what the row says. `ConfigsValid` includes
that a running process is on a configuration it could build, which a boot and a
reload both see to. `SavesTakeEffect` needs no more: a reload that fails leaves rows
from which nothing can be built, and what is saved next is judged by the rows alone. The proof regroups
the invariant by process (`Fits`); a lemma for steps that write no rows
(`LocalStep`) and one for steps that write secrets (`WriteStep`) leave to each
action what it makes of its own process.

`EvictionProofs` proves for every finite set of items, every policy and any
numbers of sweepers, commands and handlers:

- `FilesGoWithRows`: `Spec => []FileGoesWithRow`.
- `OldestGoFirst`: `Spec => OldestFirst`.
- `SweeperStops`: `Spec => StopsAtTarget`.
- `TypeCorrect`: `Spec => []TypeOK`.

It rests on the assumptions on the constants in `Eviction`. `EvictionInv` says
that a row that the engine holds is `queued`, or was evicted blindly
(`RowsInv`), and of each pass what its stale candidates that have a path still
have in common with the table: their rows are `ready` or `evicted`, keep their
age while they are `ready`, and are none that the engine may still bring back
(`CandidatesLast`); an item that the pass may evict is a candidate, or is as
young as all of them (`NothingOlder`), because what becomes `ready` later does
so later on the clock; at its UPDATE the file of its first candidate is gone, if
it has a path (`AtFlip`). That a first candidate exists (`FirstIsFirst`) takes
the least element of a set of ages, then of a set of ids, from the
well-foundedness of the naturals.

`SweeperStops` compares what a pass has counted with what is really in use, a
fold over the rows. `UsedIsTotal` says which function of subsets that fold is,
`SumsExist` that its recursion has a solution, and `TotalSplits` and `TotalSame`
how the sum changes with one row. `ReckonInv` then says that a lone pass's sum
never exceeds the bytes in use, and that its candidates are still `ready` with
the sizes it read: the pass subtracts what it flips, and downloads only add.

`PagesProofs` proves for every set of items, of pages visited and for any bound
on the rows inserted:

- `StaleClicksHitTheirItem`: `Spec => ClicksHitTheirItem`.
- `StaleEvictSparesDownloads`: `Spec => EvictSparesDownloads`.
- `PagesMissNothing`: `Spec => NeverShownMissing`.
- `TypeCorrect`: `Spec => []TypeOK`.

It assumes that `"browse"`, which stands for the library pages, is not the name
of an item (`KeysAssumption`), and that the tab visits pages there are
(`VisitsAssumption`). The first two rest on one fact about every row that the tab
has read, be it on its page, in a request, in an answer that is being built or in
a poll (`Known`): its id is below `nextId`, no other item has it, and if it was `ready`
the engine does not hold it and whoever has the id is `ready` or `evicted`. No
step of the table can undo that: new rows take fresh ids, the engine scans only
`queued` rows, and it lets go of a row that it makes `ready`. So a button that
was rendered for a `ready` row can only meet that row `ready`, already evicted,
or gone, which is why EvictItem needs no check of the status. The table's side
(`TableKeeps`) is a property of `ItemLifecycle`, which `Mirror` is proved to
implement, so it does not depend on how the engine works. For `PagesMissNothing`,
`SeenOrReady` says where an item can be between the two SELECTs of a page: among
the rows read, or `ready` with the ready rows still to be read, unless a SELECT of
this page has failed.

`PortalProofs` proves for the components of `Portal`:

- `BulkLeavesNothingOut`: `PortalSpec => LeavesNothingOut`.
- `BulkDoesWhatItSaid`: `PortalSpec => DialogKeepsItsWord`.
- `StaleForABoundedTime`: `PortalSpec => []BoundedStaleness`.
- `SaveIsShown`: `PortalSpec => []SavedIsShown`.
- `DiscoverPicksBest`: `PortalSpec => []PicksBest`.
- `DrawerIsQuiet`: `PortalSpec => []ClosedDrawerIsQuiet`.
- `PortalTypeCorrect`: `PortalSpec => []PortalTypeOK`.
- `PortalKeepsLifecycle`: `PortalSpec => TableSpec`, so the portal's model, like
  the engine's, implements `ItemLifecycle`.

They hold for every set of items, seasons, trees and pages, every page size, TTL
and timeout, and any number of connections. The assumptions are those of `Pages`;
that upstream holds shows of seasons and episodes, told apart from each other,
and that a page is not empty (`BulkAssumption`); that durations are numbers and
that "monitor" and "reconnect" are not pages (`NavAssumption`); that the
connections are finitely many and budgets are numbers (`DiscoveryAssumption`).

*Bulk.* `Ahead` is what a walk has found and what it will find if upstream stays
as it is: the rest of the page list it is in, and all that the entries of its
stack yield (`Yields`, by depth, since the walk stops at the third level).
Reading a page does not change it (`FetchFinds`), and an episode inserted anywhere
only adds to it (`AheadGrows`): an insertion moves others to later places, so
whatever was unread stays unread. This is what makes paging by offset safe
against insertions, and would fail for removals, which the model does not have. Hence `WalkInv`: what
the call owes is ahead, and as long as nothing has changed what is ahead is
exactly the leaves of the tree, which is what the dialog counted (`DialogInv`).
After the snapshot, `ActInv`: what is owed is still on the list or reported, and
its row has kept the id that was read. The rows read are `Known` in the sense
of `PagesProofs`, which is why an eviction by a stale id meets a row that is
`ready`, already evicted, or gone.

*Navigation.* `NavInv` bounds how long ago the configuration of each call and of
the cache's entry was replaced by the call's and the entry's age; `SavedInv` says
that whoever holds an older configuration was found under way by the last save.

*Discovery.* The ranking is shown to sort by counting, for each rank, how many
connections come before (`RankSorts`), and `DiscoveryInv` says that a prefix of
the ranked list has been probed, that the budget has lost as much as that prefix
has silent connections, and that the first of it to answer in time, if any has,
is chosen.

*Drawer.* `DrawerInv` relates the kept request to the one under way.

Induction over data is done on sets: the library's induction theorems take an
operator as a parameter, which the provers cannot instantiate, but "the set of
the places, or subsets, for which it holds" is a value (`PlaceInduction`,
`SubsetInduction`). What `Only`, the fold behind `UsedBytes` and the ranking
compute is proved in this way.

Only model-checked: everything about liveness (`Settles`, `CapEnforced`,
`CallsEnd`, `SelfHeals`, `OutageShows`, `QueuePageConverges`, `OpenDrawerFills`,
`HealthRecovers`), which the prover does not cover under fairness, and the five
properties that the code breaks, of which `EvictedCanBeQueued` uses ENABLED.
Every other property of a run is a theorem.

## 6. Not modelled

The MCP adapter is one Service call per tool. HTTP clients keep no state but the
Jellyfin user id, and the decoding of their answers, like the parsing of
configuration and sizes, is a matter of unit tests. Of the portal, login and
sessions, search, paging and the view toggle, the settings form's texts and the
storage gauge are left out: they read, or format. The migration runner runs
before anything else. The `download` command, a second engine on the same
partials, is listed as a hazard. Rates (a reload loop against a server that is
down) need durations, which only `Navigation` has, and for a page's deadline.

## 7. Plan

1. Done: `Mirror` and its refinement of `ItemLifecycle`, `Service`, `Settings`,
   with their proofs; `Eviction`; `Pages`, `Bulk`, `Drawer`, `Navigation` and
   `Discovery` in one run.
2. Done: `PagesProofs`, the safety of `Pages` for any number of items.
3. Done: `EvictionProofs`, files with rows and oldest first.
4. Done: `MirrorFiles`, `SavesTakeEffect`, `SweeperStops`, and `PortalProofs`
   for `Bulk`, `Drawer`, `Navigation` and `Discovery`.
5. Eviction's effect on the table as a refinement of `ItemLifecycle`, as Mirror's
   is.
6. A second engine, for the `download` command, in `Mirror`.
