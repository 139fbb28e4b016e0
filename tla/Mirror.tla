------------------------------- MODULE Mirror -------------------------------
(***************************************************************************)
(* The mirror's core: the items table, the download engine's worker        *)
(* goroutines, the files they write, and the portal / MCP requests that    *)
(* queue, cancel and evict items while they run.                           *)
(*                                                                         *)
(* One source is modelled.  A file is a sequence of blocks; a block names  *)
(* the upstream version it was read from and its place in that version, so *)
(* "the right bytes" is a statement about the sequence.  A database        *)
(* statement or a transaction is one step (the store has one connection),  *)
(* a file-system call is one step, and what happens between two of them is *)
(* an interleaving.                                                        *)
(***************************************************************************)
EXTENDS Integers, Sequences, FiniteSets

CONSTANTS
    Keys,          \* upstream items: the source_key of a row
    Workers,       \* slots of RunOnce's semaphore (Options.Concurrency)
    Requests,      \* handler goroutines of the portal and the MCP server
    Versions,      \* what upstream may hold under a key, over time
    SizeOf,        \* length in blocks of each version, as upstream declares it
    Paths,         \* final paths in the library
    Destinations,  \* the paths Layout.Final yields for a key: with fresh
                   \* metadata, and from the row alone when that fetch fails
    RetryAttempts, \* Options.RetryAttempts
    MaxId,         \* bound: no request inserts a row past this id
    Events,        \* which events of the environment may happen
    None           \* SQL NULL, and the content of a file that does not exist

Blocks == Versions \X (Nat \ {0})

ASSUME SizeAssumption == SizeOf \in [Versions -> Nat \ {0}]
ASSUME DestinationAssumption ==
    Destinations \in [Keys -> (SUBSET Paths) \ {{}}]
ASSUME RetryAssumption == RetryAttempts \in Nat \ {0}
ASSUME EventAssumption ==
    Events \subseteq {"cancel", "evict", "abort", "replace", "reload", "crash", "fault", "short"}
ASSUME NoneAssumption ==
    /\ None \notin Keys
    /\ None \notin Versions
    /\ None \notin Paths
    /\ None \notin Seq(Blocks)

VARIABLES
    rows,     \* items, by source_key (UNIQUE(source, source_key))
    nextId,   \* AUTOINCREMENT: an id is never handed out twice
    partial,  \* the .partials file of each key
    final,    \* the library file at each final path
    upstream, \* the version upstream holds now
    engine,   \* "live", "draining" (worker ctx cancelled), "absent", "down"
    batch,    \* ids RunOnce has scanned and not yet dispatched
    worker,   \* the Download call in each semaphore slot
    request   \* the Cancel or Evict call in each handler

vars == <<rows, nextId, partial, final, upstream, engine, batch, worker, request>>

Statuses == {"none", "queued", "downloading", "ready", "evicted", "error"}

\* The absence of a row; AUTOINCREMENT starts at 1.
NoRow == [id |-> 0, status |-> "none", size |-> 0, path |-> None]

\* A free semaphore slot.
Idle == [pc |-> "idle", id |-> 0, key |-> None, size |-> 0, at |-> 0,
         tries |-> 0, ver |-> None, path |-> None]

NoRequest == [pc |-> "idle", id |-> 0, key |-> None, path |-> None]

Busy(w) == worker[w].pc # "idle"

\* The version v from its first block to its last.
Whole(v) == [i \in 1..SizeOf[v] |-> <<v, i>>]

-----------------------------------------------------------------------------
(* The items table.                                                        *)

\* UPDATE items SET status = s WHERE id = i: no other condition, and no effect
\* when the row is gone.
SetStatus(i, s) ==
    [k \in Keys |-> IF rows[k].id = i THEN [rows[k] EXCEPT !.status = s]
                                      ELSE rows[k]]

\* Mutation: the reset is left out.
ResetNothing == rows

\* UPDATE items SET status = 'queued' WHERE status = 'downloading'.
ResetStaleDownloads ==
    [k \in Keys |-> IF rows[k].status = "downloading"
                    THEN [rows[k] EXCEPT !.status = "queued"] ELSE rows[k]]

\* A write by a worker takes effect unless its context is cancelled or the
\* database fails; the worker goes on to the same next step either way.
Reliable == engine = "live" /\ "fault" \notin Events
Commit(new) == \/ engine = "live" /\ rows' = new
               \/ ~Reliable /\ rows' = rows

-----------------------------------------------------------------------------
(* Engine.Queue, called by QueueDownload with fresh metadata.              *)

\* Mutation: the upsert queues a row again whatever its status.
QueueAnyStatus(k) ==
    /\ engine = "live"
    /\ nextId <= MaxId
    /\ rows' = [rows EXCEPT ![k] =
          [id |-> IF @.id = 0 THEN nextId ELSE @.id, status |-> "queued",
           size |-> SizeOf[upstream[k]], path |-> None]]
    /\ nextId' = nextId + 1
    /\ UNCHANGED <<partial, final, upstream, engine, batch, worker, request>>

Queue(k) ==
    /\ engine \in {"live", "draining"}
    /\ IF rows[k].status = "none"
       THEN /\ nextId <= MaxId
            /\ rows' = [rows EXCEPT ![k] =
                  [id |-> nextId, status |-> "queued",
                   size |-> SizeOf[upstream[k]], path |-> None]]
            /\ nextId' = nextId + 1
       ELSE /\ rows' = [rows EXCEPT
                  ![k].size = SizeOf[upstream[k]],
                  ![k].status = IF @ = "error" THEN "queued" ELSE @]
            /\ UNCHANGED nextId
    /\ UNCHANGED <<partial, final, upstream, engine, batch, worker, request>>

-----------------------------------------------------------------------------
(* Engine.RunOnce: scan, dispatch each id into a slot, wait for all.       *)

\* Mutation: RunOnce returns once everything is dispatched, without wg.Wait.
ScanQueuedNoWait ==
    /\ engine = "live"
    /\ batch = {}
    /\ \E k \in Keys : rows[k].status = "queued"
    /\ batch' = {rows[k].id : k \in {q \in Keys : rows[q].status = "queued"}}
    /\ UNCHANGED <<rows, nextId, partial, final, upstream, engine, worker, request>>

ScanQueued ==
    /\ engine = "live"
    /\ batch = {}
    /\ \A w \in Workers : ~Busy(w)
    /\ \E k \in Keys : rows[k].status = "queued"
    /\ batch' = {rows[k].id : k \in {q \in Keys : rows[q].status = "queued"}}
    /\ UNCHANGED <<rows, nextId, partial, final, upstream, engine, worker, request>>

\* A slot takes an id and Download loads its row: a deleted row is an error
\* and a ready one is done, so either frees the slot again.
Dispatch(w) ==
    /\ engine = "live"
    /\ ~Busy(w)
    /\ \E i \in batch :
        /\ batch' = batch \ {i}
        /\ \/ \E k \in Keys :
                /\ rows[k].id = i
                /\ rows[k].status # "ready"
                /\ worker' = [worker EXCEPT ![w] =
                      [Idle EXCEPT !.pc = "resolve", !.id = i, !.key = k,
                                   !.size = rows[k].size]]
           \/ /\ ~\E k \in Keys : rows[k].id = i /\ rows[k].status # "ready"
              /\ UNCHANGED worker
    /\ UNCHANGED <<rows, nextId, partial, final, upstream, engine, request>>

\* The worker context is cancelled: the rest of the batch is never dispatched.
AbandonBatch ==
    /\ engine = "draining"
    /\ batch # {}
    /\ batch' = {}
    /\ UNCHANGED <<rows, nextId, partial, final, upstream, engine, worker, request>>

-----------------------------------------------------------------------------
(* Engine.Download, in slot w.                                             *)

\* Download returns and the slot is free.
Return(w) == worker' = [worker EXCEPT ![w] = Idle]

\* Download gives up: markError, whose own failure is ignored.
Fail(w) == Commit(SetStatus(worker[w].id, "error")) /\ Return(w)

\* Mutation: two items may be given the same final path.
ResolveToSharedPath(w) ==
    /\ worker[w].pc = "resolve"
    /\ engine = "live"
    /\ \E p \in Paths : worker' = [worker EXCEPT ![w].pc = "mark", ![w].path = p]
    /\ UNCHANGED <<rows, nextId, partial, final, upstream, engine, batch, request>>

\* The download URL, then fresh metadata or the row's own fields, then the
\* layout.  A failed mkdir returns without touching the row.
Resolve(w) ==
    /\ worker[w].pc = "resolve"
    /\ \/ /\ engine = "live"
          /\ \E p \in Destinations[worker[w].key] :
                worker' = [worker EXCEPT ![w].pc = "mark", ![w].path = p]
          /\ UNCHANGED rows
       \/ Fail(w)
       \/ /\ "fault" \in Events
          /\ Return(w)
          /\ UNCHANGED rows
    /\ UNCHANGED <<nextId, partial, final, upstream, engine, batch, request>>

\* Stat the partial file (the disk, not bytes_done, says where to resume),
\* then markDownloading, whose failure ends the download.
Mark(w) ==
    /\ worker[w].pc = "mark"
    /\ \/ /\ engine = "live"
          /\ rows' = SetStatus(worker[w].id, "downloading")
          /\ worker' = [worker EXCEPT ![w].pc = "fetch",
                ![w].at = IF partial[worker[w].key] = None THEN 0
                          ELSE Len(partial[worker[w].key])]
       \/ ~Reliable /\ Return(w) /\ UNCHANGED rows
    /\ UNCHANGED <<nextId, partial, final, upstream, engine, batch, request>>

\* Mutation: the partial is kept although the whole file follows.
RespondFullAppends(w) ==
    LET k == worker[w].key IN
    /\ partial' = [partial EXCEPT ![k] = IF @ = None THEN <<>> ELSE @]
    /\ worker' = [worker EXCEPT ![w].pc = "copy", ![w].at = 0, ![w].ver = upstream[k]]
    /\ UNCHANGED rows

\* 200: the whole file follows.  A partial we meant to resume is removed, and
\* the file is opened with O_TRUNC.
RespondFull(w) ==
    LET k == worker[w].key IN
    /\ partial' = [partial EXCEPT ![k] = <<>>]
    /\ worker' = [worker EXCEPT ![w].pc = "copy", ![w].at = 0, ![w].ver = upstream[k]]
    /\ UNCHANGED rows

\* 206: the tail we asked for follows.  A Content-Range total that is not the
\* declared size is permanent; otherwise the file is opened O_APPEND|O_CREATE.
RespondRange(w) ==
    LET k == worker[w].key IN
    /\ worker[w].at \in 1..(SizeOf[upstream[k]] - 1)
    /\ \/ /\ SizeOf[upstream[k]] # worker[w].size
          /\ Fail(w)
          /\ UNCHANGED partial
       \/ /\ SizeOf[upstream[k]] = worker[w].size
          /\ partial' = [partial EXCEPT ![k] = IF @ = None THEN <<>> ELSE @]
          /\ worker' = [worker EXCEPT ![w].pc = "copy", ![w].ver = upstream[k]]
          /\ UNCHANGED rows

\* 416: nothing past our offset.  Success if the partial on disk has the
\* declared size, permanent otherwise.
RespondUnsatisfiable(w) ==
    LET k == worker[w].key
        whole == partial[k] # None /\ Len(partial[k]) = worker[w].size
    IN
    /\ worker[w].at >= SizeOf[upstream[k]]
    /\ \/ ~whole /\ Fail(w)
       \/ /\ whole
          /\ worker' = [worker EXCEPT ![w].pc = "import"]
          /\ UNCHANGED rows
    /\ UNCHANGED partial

\* One attempt of fetchOnce up to the response header: also any other 4xx,
\* which is permanent, and a 5xx or a transport error, which is not.
Fetch(w) ==
    /\ engine = "live"
    /\ worker[w].pc = "fetch"
    /\ \/ RespondFull(w)
       \/ RespondRange(w)
       \/ RespondUnsatisfiable(w)
       \/ Fail(w) /\ UNCHANGED partial
       \/ /\ worker' = [worker EXCEPT ![w].pc = "backoff"]
          /\ UNCHANGED <<rows, partial>>
    /\ UNCHANGED <<nextId, final, upstream, engine, batch, request>>

\* Read a block and append it.  If the partial was unlinked meanwhile the open
\* descriptor still takes the block, and the path stays empty.
ReadBlock(w) ==
    LET k == worker[w].key
        v == worker[w].ver
    IN
    /\ worker[w].pc = "copy"
    /\ worker[w].at < SizeOf[v]
    /\ partial' = [partial EXCEPT ![k] =
          IF @ = None THEN None ELSE Append(@, <<v, worker[w].at + 1>>)]
    /\ worker' = [worker EXCEPT ![w].at = @ + 1]
    /\ UNCHANGED <<rows, nextId, final, upstream, engine, batch, request>>

\* The body ends, or breaks off: for a body sent without its length ("short")
\* that looks the same.
EndBody(w) ==
    /\ worker[w].pc = "copy"
    /\ \/ /\ worker[w].at = SizeOf[worker[w].ver] \/ "short" \in Events
          /\ worker' = [worker EXCEPT ![w].pc = "import", ![w].ver = None]
       \/ worker' = [worker EXCEPT ![w].pc = "backoff", ![w].ver = None]
    /\ UNCHANGED <<rows, nextId, partial, final, upstream, engine, batch, request>>

\* After the delay the partial is statted again, if it is there.
Backoff(w) ==
    LET f == partial[worker[w].key] IN
    /\ engine = "live"
    /\ worker[w].pc = "backoff"
    /\ \/ /\ worker[w].tries + 1 < RetryAttempts
          /\ worker' = [worker EXCEPT ![w].pc = "fetch", ![w].tries = @ + 1,
                                      ![w].at = IF f = None THEN @ ELSE Len(f)]
          /\ UNCHANGED rows
       \/ worker[w].tries + 1 = RetryAttempts /\ Fail(w)
    /\ UNCHANGED <<nextId, partial, final, upstream, engine, batch, request>>

\* The checks of ctx.Err() in the retry loop, the copy loop and the backoff.
Interrupted(w) ==
    /\ engine = "draining"
    /\ worker[w].pc \in {"fetch", "copy", "backoff"}
    /\ Return(w)
    /\ UNCHANGED <<rows, nextId, partial, final, upstream, engine, batch, request>>

\* Mutation: the size is not compared.
ImportAnySize(w) ==
    LET k == worker[w].key IN
    /\ worker[w].pc = "import"
    /\ partial[k] # None
    /\ final' = [final EXCEPT ![worker[w].path] = partial[k]]
    /\ partial' = [partial EXCEPT ![k] = None]
    /\ worker' = [worker EXCEPT ![w].pc = "record"]
    /\ UNCHANGED <<rows, nextId, upstream, engine, batch, request>>

\* Stat, compare with the declared size, rename into the library.  None of the
\* three looks at the context.  A request can at most unlink the partial in
\* between, which fails the rename as it fails the stat.
Import(w) ==
    LET k == worker[w].key
        whole == partial[k] # None /\ Len(partial[k]) = worker[w].size
    IN
    /\ worker[w].pc = "import"
    /\ \/ /\ ~whole \/ "fault" \in Events
          /\ Fail(w)
          /\ UNCHANGED <<partial, final>>
       \/ /\ whole
          /\ final' = [final EXCEPT ![worker[w].path] = partial[k]]
          /\ partial' = [partial EXCEPT ![k] = None]
          /\ worker' = [worker EXCEPT ![w].pc = "record"]
          /\ UNCHANGED rows
    /\ UNCHANGED <<nextId, upstream, engine, batch, request>>

\* Mutation: the path is computed again, from metadata fetched again.
RecordFreshPath(w) ==
    LET k == worker[w].key IN
    /\ worker[w].pc = "record"
    /\ engine = "live"
    /\ Return(w)
    /\ \E p \in Destinations[k] :
          rows' = [rows EXCEPT ![k].status = "ready", ![k].path = p]
    /\ UNCHANGED <<nextId, partial, final, upstream, engine, batch, request>>

\* Manager.RecordReady: an upsert by source and key, not by id.  Its failure
\* is returned, and the row stays as it was.
Record(w) ==
    LET k == worker[w].key
        new == [id |-> IF rows[k].status = "none" THEN nextId ELSE rows[k].id,
                status |-> "ready", size |-> worker[w].size, path |-> worker[w].path]
    IN
    /\ worker[w].pc = "record"
    /\ Return(w)
    /\ \/ /\ engine = "live"
          /\ rows' = [rows EXCEPT ![k] = new]
          /\ nextId' = IF rows[k].status = "none" THEN nextId + 1 ELSE nextId
       \/ ~Reliable /\ UNCHANGED <<rows, nextId>>
    /\ UNCHANGED <<partial, final, upstream, engine, batch, request>>

-----------------------------------------------------------------------------
(* Service.Cancel, in handler r: check, DELETE, unlink the partial.  A     *)
(* failed unlink is logged and ignored, here and in EvictItem.             *)

CancelCheck(r) ==
    /\ "cancel" \in Events
    /\ engine # "down"
    /\ request[r] = NoRequest
    /\ \E k \in Keys :
        /\ rows[k].status \in {"queued", "error"}
        /\ request' = [request EXCEPT ![r] =
              [pc |-> "delete", id |-> rows[k].id, key |-> k, path |-> None]]
    /\ UNCHANGED <<rows, nextId, partial, final, upstream, engine, batch, worker>>

CancelDelete(r) ==
    /\ request[r].pc = "delete"
    /\ rows' = [k \in Keys |-> IF rows[k].id = request[r].id THEN NoRow ELSE rows[k]]
    /\ request' = [request EXCEPT ![r].pc = "unlink"]
    /\ UNCHANGED <<nextId, partial, final, upstream, engine, batch, worker>>

CancelUnlink(r) ==
    /\ request[r].pc = "unlink"
    /\ \/ partial' = [partial EXCEPT ![request[r].key] = None]
       \/ "fault" \in Events /\ UNCHANGED partial
    /\ request' = [request EXCEPT ![r] = NoRequest]
    /\ UNCHANGED <<rows, nextId, final, upstream, engine, batch, worker>>

-----------------------------------------------------------------------------
(* Manager.EvictItem, in handler r: load the row whatever its status,      *)
(* remove its file, flip the row whether or not the file could be removed. *)

\* Mutation: the path is removed without asking whether there is one.
EvictLoadUnchecked(r) ==
    /\ request[r] = NoRequest
    /\ \E k \in Keys :
        /\ rows[k].status # "none"
        /\ request' = [request EXCEPT ![r] =
              [pc |-> "remove", id |-> rows[k].id, key |-> k, path |-> rows[k].path]]
    /\ UNCHANGED <<rows, nextId, partial, final, upstream, engine, batch, worker>>

EvictLoad(r) ==
    /\ "evict" \in Events
    /\ engine # "down"
    /\ request[r] = NoRequest
    /\ \E k \in Keys :
        /\ rows[k].status # "none"
        /\ request' = [request EXCEPT ![r] =
              [pc |-> IF rows[k].path = None THEN "flip" ELSE "remove",
               id |-> rows[k].id, key |-> k, path |-> rows[k].path]]
    /\ UNCHANGED <<rows, nextId, partial, final, upstream, engine, batch, worker>>

EvictRemove(r) ==
    /\ request[r].pc = "remove"
    /\ \/ final' = [final EXCEPT ![request[r].path] = None]
       \/ "fault" \in Events /\ UNCHANGED final
    /\ request' = [request EXCEPT ![r].pc = "flip"]
    /\ UNCHANGED <<rows, nextId, partial, upstream, engine, batch, worker>>

EvictFlip(r) ==
    /\ request[r].pc = "flip"
    /\ rows' = [k \in Keys |-> IF rows[k].id = request[r].id
                               THEN [rows[k] EXCEPT !.status = "evicted", !.path = None]
                               ELSE rows[k]]
    /\ request' = [request EXCEPT ![r] = NoRequest]
    /\ UNCHANGED <<nextId, partial, final, upstream, engine, batch, worker>>

\* The client goes away before the next statement: its context is cancelled
\* and the statement fails.  os.Remove takes no context.
RequestAborts(r) ==
    /\ "abort" \in Events
    /\ request[r].pc \in {"delete", "flip"}
    /\ request' = [request EXCEPT ![r] = NoRequest]
    /\ UNCHANGED <<rows, nextId, partial, final, upstream, engine, batch, worker>>

-----------------------------------------------------------------------------
(* The generation of workers, and the process.                             *)

\* Upstream replaces the item (a better rip, a repack).
Replace(k) ==
    /\ "replace" \in Events
    /\ \E v \in Versions \ {upstream[k]} : upstream' = [upstream EXCEPT ![k] = v]
    /\ UNCHANGED <<rows, nextId, partial, final, engine, batch, worker, request>>

\* Reload under s.mu: stopWorkersLocked cancels the generation's context ...
Reload ==
    /\ "reload" \in Events
    /\ engine \in {"live", "absent"}
    /\ engine' = "draining"
    /\ UNCHANGED <<rows, nextId, partial, final, upstream, batch, worker, request>>

\* ... waits its goroutines out, resets their rows and launches the next
\* generation, which has no engine if the new settings name no Plex server.
Relaunch ==
    /\ engine = "draining"
    /\ batch = {}
    /\ \A w \in Workers : ~Busy(w)
    /\ rows' = ResetStaleDownloads
    /\ engine' \in {"live", "absent"}
    /\ UNCHANGED <<nextId, partial, final, upstream, batch, worker, request>>

\* The process dies; the database and the files stay.
Crash ==
    /\ "crash" \in Events
    /\ engine # "down"
    /\ engine' = "down"
    /\ batch' = {}
    /\ worker' = [w \in Workers |-> Idle]
    /\ request' = [r \in Requests |-> NoRequest]
    /\ UNCHANGED <<rows, nextId, partial, final, upstream>>

\* Service.Start in a new process.
Start ==
    /\ engine = "down"
    /\ rows' = ResetStaleDownloads
    /\ engine' \in {"live", "absent"}
    /\ UNCHANGED <<nextId, partial, final, upstream, batch, worker, request>>

-----------------------------------------------------------------------------
Init ==
    /\ rows = [k \in Keys |-> NoRow]
    /\ nextId = 1
    /\ partial = [k \in Keys |-> None]
    /\ final = [p \in Paths |-> None]
    /\ upstream \in [Keys -> Versions]
    /\ engine = "live"
    /\ batch = {}
    /\ worker = [w \in Workers |-> Idle]
    /\ request = [r \in Requests |-> NoRequest]

\* One step of the Download call in slot w.
DownloadStep(w) ==
    \/ Resolve(w) \/ Mark(w) \/ Fetch(w) \/ ReadBlock(w) \/ EndBody(w)
    \/ Backoff(w) \/ Interrupted(w) \/ Import(w) \/ Record(w)

\* One step of the handler r once it has begun.
RequestStep(r) ==
    \/ CancelDelete(r) \/ CancelUnlink(r) \/ EvictRemove(r) \/ EvictFlip(r)

Next ==
    \/ \E k \in Keys : Queue(k) \/ Replace(k)
    \/ \E w \in Workers : Dispatch(w) \/ DownloadStep(w)
    \/ \E r \in Requests : CancelCheck(r) \/ EvictLoad(r) \/ RequestStep(r) \/ RequestAborts(r)
    \/ ScanQueued \/ AbandonBatch
    \/ Reload \/ Relaunch \/ Crash \/ Start

Spec == Init /\ [][Next]_vars

\* The goroutines of the process run; nothing of the environment has to
\* happen, a restart included.
FairSpec ==
    /\ Spec
    /\ WF_vars(ScanQueued) /\ WF_vars(AbandonBatch) /\ WF_vars(Relaunch)
    /\ WF_vars(\E w \in Workers : Dispatch(w))
    /\ \A w \in Workers : WF_vars(DownloadStep(w))
    /\ \A r \in Requests : WF_vars(RequestStep(r))

-----------------------------------------------------------------------------
(* Properties.                                                             *)

Rows == [id : Nat, status : Statuses, size : Nat, path : Paths \cup {None}]
Files == Seq(Blocks) \cup {None}
Slots ==
    {s \in [pc : {"idle", "resolve", "mark", "fetch", "copy", "backoff", "import", "record"},
            id : Nat, key : Keys \cup {None}, size : Nat, at : Nat, tries : 0..RetryAttempts,
            ver : Versions \cup {None}, path : Paths \cup {None}] :
        /\ s.pc # "idle" => s.key \in Keys
        /\ s.pc \notin {"idle", "resolve"} => s.path \in Paths
        /\ s.pc = "copy" => s.ver \in Versions}
Calls ==
    {c \in [pc : {"idle", "delete", "unlink", "remove", "flip"},
            id : Nat, key : Keys \cup {None}, path : Paths \cup {None}] :
        /\ c.pc # "idle" => c.key \in Keys
        /\ c.pc = "remove" => c.path \in Paths}

\* Types, and what a program counter says of the other fields of its record:
\* a busy slot has a key and, from markDownloading on, a final path; a handler
\* that is to remove a file has its path.
TypeOK ==
    /\ rows \in [Keys -> Rows]
    /\ nextId \in Nat \ {0}
    /\ partial \in [Keys -> Files]
    /\ final \in [Paths -> Files]
    /\ upstream \in [Keys -> Versions]
    /\ engine \in {"live", "draining", "absent", "down"}
    /\ batch \subseteq Nat
    /\ worker \in [Workers -> Slots]
    /\ request \in [Requests -> Calls]

\* At most one Download works on an item, so at most one goroutine writes the
\* item's partial file, whatever is cancelled, queued again, reloaded or
\* restarted meanwhile: nothing in Download locks the row or the file, it is
\* RunOnce's wait and Reload's wait that keep the next Download out.
SingleWriter ==
    \A v, w \in Workers :
        v # w /\ Busy(v) /\ Busy(w) => worker[v].key # worker[w].key

\* While the engine runs, a row says 'downloading' only if a Download of this
\* generation holds it, and no row says so when there is no engine.  Nothing
\* scans for 'downloading', so such a row would stay there until a restart.
\* A failed RecordReady or markError does leave one behind, hence the premise.
NoStranded ==
    "fault" \notin Events =>
        \A k \in Keys : rows[k].status = "downloading" =>
            /\ engine # "absent"
            /\ engine = "live" =>
                \E w \in Workers : Busy(w) /\ worker[w].id = rows[k].id

\* What appears under the library is complete: a file at a final path has the
\* full length of a version upstream has declared, never a part of it, whatever
\* was resumed, cancelled, replaced or killed on the way there.
FinalComplete ==
    \A p \in Paths : final[p] # None =>
        \E v \in Versions : Len(final[p]) = SizeOf[v]

\* Without cancellations and replacements, the partial is a prefix of what
\* upstream holds, so that a resume by its length continues the right file.
PartialIsPrefix ==
    Events \cap {"cancel", "replace"} = {} =>
        \A k \in Keys : partial[k] # None =>
            partial[k] = SubSeq(Whole(upstream[k]), 1, Len(partial[k]))

\* No two items have a library path in common.  Layout does not see to that: two
\* films of one title and year share theirs, and then one download replaces the
\* file of the other and one eviction removes it.
PathsDistinct == \A j, k \in Keys : j # k => Destinations[j] \cap Destinations[k] = {}

\* Without cancellations and replacements, and if no other item has its path,
\* the library file of a 'ready' row is the upstream file, byte for byte, unless
\* a handler that evicts it or an eviction that died half way has removed it.
ReadyIntact ==
    PathsDistinct /\ Events \cap {"cancel", "replace"} = {} =>
        \A k \in Keys : rows[k].status = "ready" =>
            /\ rows[k].size = SizeOf[upstream[k]]
            /\ \/ final[rows[k].path] = Whole(upstream[k])
               \/ final[rows[k].path] = None /\ "evict" \in Events

\* A row that is not evicted keeps its file: a 'ready' row without one is being
\* evicted at this moment.  Evictions that are cut short between the unlink and
\* the UPDATE break this, and so does a handler that still holds the path of a
\* row which was cancelled, queued and downloaded again behind its back.
ReadyHasFile ==
    PathsDistinct /\ Events \cap {"cancel", "crash", "abort"} = {} =>
        \A k \in Keys : rows[k].status = "ready" /\ final[rows[k].path] = None =>
            \E r \in Requests : request[r].pc = "flip" /\ request[r].id = rows[k].id

\* What is ready stays ready, with the same row, until it is evicted: no late
\* step of a worker, no reload, no re-queue and no restart undoes it.  Only a
\* cancellation does that has checked the row before it was ready.
ReadyUntilEvicted ==
    [][\A k \in Keys : rows[k].status = "ready" =>
          \/ rows'[k].status \in {"ready", "evicted"} /\ rows'[k].id = rows[k].id
          \/ \E r \in Requests :
                request[r].pc = "delete" /\ request[r].id = rows[k].id /\ rows'[k] = NoRow]_vars

\* "Non-fatal: the row is already gone; a stray partial is harmless and will be
\* reused/cleaned if the item is re-queued" (cancel.go): whatever a cancellation
\* leaves behind, the file that ends up in the library is the upstream file.
\* The code breaks this: a Download that has statted the partial and is still
\* at 'queued' appends at its old offset to a file Cancel has just unlinked.
StrayPartialHarmless ==
    "replace" \notin Events =>
        \A k \in Keys : rows[k].status = "ready" =>
            final[rows[k].path] \in {Whole(upstream[k]), None}

\* QueueDownload "idempotently enqueues it.  The running download daemon [...]
\* picks it up" (mirror.go), and RecordReady brings a row back "even if it had
\* been marked evicted" (manager.go): an evicted item can be queued again.  The
\* code leaves an evicted row evicted, and no worker ever scans it.
EvictedCanBeQueued ==
    \A k \in Keys : engine = "live" /\ rows[k].status = "evicted" =>
        ENABLED (Queue(k) /\ rows'[k].status = "queued")

\* An item that is queued, or being downloaded, is settled in the end, if the
\* engine is restarted only finitely often: no wait of RunOnce on its batch, of
\* a retry on its delay or of a reload on its workers lasts for ever.
Settles ==
    <>[](engine = "live") =>
        \A k \in Keys :
            rows[k].status \in {"queued", "downloading"} ~>
                rows[k].status \notin {"queued", "downloading"}

-----------------------------------------------------------------------------
(* The abstract specification.                                             *)

\* What a reader of the table sees of it.
Table == [k \in Keys |-> [id |-> rows[k].id, status |-> rows[k].status]]

\* The engine holds the rest of its batch and what its slots work on.
Held == batch \cup {worker[w].id : w \in {v \in Workers : Busy(v)}}

Lifecycle == INSTANCE ItemLifecycle WITH items <- Table, claimed <- Held

\* Seen from the table, all of this is rows that change as ItemLifecycle says:
\* whatever the interleaving, no id is used twice, no 'ready' row goes back to
\* being in flight, no evicted one is queued, and only the download that holds
\* a row, or delivers its item, writes it.
ImplementsLifecycle == Lifecycle!TableSpec

-----------------------------------------------------------------------------
(* What makes the safety properties inductive (MirrorProofs).              *)

\* An id is fresh or belongs to one row for ever; a row that is not there has
\* none.
IdsIdentify ==
    /\ \A k \in Keys : /\ rows[k].id < nextId
                       /\ rows[k].status = "none" <=> rows[k].id = 0
    /\ \A j, k \in Keys : j # k /\ rows[j].id = rows[k].id => rows[j].id = 0
    /\ \A i \in batch : 0 < i /\ i < nextId

\* A busy slot's id is not fresh, and if a row still has it, it is the row of
\* the slot's key.
SlotsIdentify ==
    \A w \in Workers : Busy(w) =>
        /\ 0 < worker[w].id
        /\ worker[w].id < nextId
        /\ \A k \in Keys : rows[k].id = worker[w].id => k = worker[w].key

\* A handler acts on the id of a row it has seen.
CallsIdentify == \A r \in Requests : request[r].pc # "idle" => 0 < request[r].id

\* No item waits in the batch while a slot works on it: a cancelled item that
\* is queued again gets an id the batch does not have.
BatchWaits ==
    \A w \in Workers, k \in Keys :
        Busy(w) /\ rows[k].id \in batch => k # worker[w].key

\* The size a row or a slot expects is one upstream has declared.
SizesDeclared ==
    /\ \A k \in Keys : rows[k].status # "none" =>
          \E v \in Versions : rows[k].size = SizeOf[v]
    /\ \A w \in Workers : Busy(w) => \E v \in Versions : worker[w].size = SizeOf[v]

\* What the engine holds was queued, and has been marked, evicted or deleted
\* since (MirrorRefinement).
HeldInFlight ==
    \A k \in Keys : rows[k].id \in Held => rows[k].status \in Lifecycle!InFlight

\* A process that has died holds nothing.
DownHoldsNothing == engine = "down" => Held = {}

\* A path in the table is where the layout puts the item, and only a 'ready' row
\* has one: so EvictItem finds no path unless the item is in the library.
PathsFollowLayout ==
    /\ \A k \in Keys : IF rows[k].status = "ready" THEN rows[k].path \in Destinations[k]
                                                   ELSE rows[k].path = None
    /\ \A w \in Workers : worker[w].pc \notin {"idle", "resolve"} =>
          worker[w].path \in Destinations[worker[w].key]

\* Without cancellations no row is deleted: the id a slot or a handler has is
\* that of the row of its key.
NothingCancelled ==
    "cancel" \notin Events =>
        /\ \A w \in Workers : Busy(w) => rows[worker[w].key].id = worker[w].id
        /\ \A r \in Requests : request[r].pc # "idle" =>
              /\ request[r].pc \notin {"delete", "unlink"}
              /\ rows[request[r].key].id = request[r].id

\* A handler that is about to remove a file removes the one of its own row, and
\* the engine is done with that row.
RemovesItsOwn ==
    "cancel" \notin Events =>
        \A r \in Requests : request[r].pc = "remove" =>
            /\ "evict" \in Events
            /\ request[r].path \in Destinations[request[r].key]
            /\ rows[request[r].key].status \in {"ready", "evicted"}
            /\ rows[request[r].key].id \notin Held

\* What a Download has imported is still there when it records it.
ImportedStays ==
    PathsDistinct /\ "cancel" \notin Events =>
        \A w \in Workers : worker[w].pc = "record" => final[worker[w].path] # None

Settled == Events \cap {"cancel", "replace"} = {}

\* Without cancellations and replacements, sizes are those of what upstream has,
SizesHold ==
    Settled =>
        /\ \A k \in Keys : rows[k].status # "none" => rows[k].size = SizeOf[upstream[k]]
        /\ \A w \in Workers : Busy(w) => worker[w].size = SizeOf[upstream[worker[w].key]]

\* the partial holds the first blocks of it,
BeginsWith(f, v) == Len(f) <= SizeOf[v] /\ \A i \in 1..Len(f) : f[i] = <<v, i>>

PartialsBegin ==
    Settled => \A k \in Keys : partial[k] # None => BeginsWith(partial[k], upstream[k])

\* a slot goes on at the end of its partial,
Resumes(s) ==
    /\ s.pc = "fetch" => s.at = IF partial[s.key] = None THEN 0 ELSE Len(partial[s.key])
    /\ s.pc = "copy" => /\ partial[s.key] # None
                        /\ s.at = Len(partial[s.key])
                        /\ s.ver = upstream[s.key]
    /\ s.pc = "backoff" /\ partial[s.key] = None => s.at = 0

SlotsResume == Settled => \A w \in Workers : Resumes(worker[w])

\* and what it has imported is whole.
ImportedIsWhole ==
    PathsDistinct /\ Settled =>
        \A w \in Workers : worker[w].pc = "record" =>
            final[worker[w].path] = Whole(upstream[worker[w].key])

\* What PartialIsPrefix, ReadyIntact and ReadyHasFile rest on, beyond SafetyInv
\* and HeldInFlight (MirrorFiles).
FilesInv ==
    /\ PathsFollowLayout
    /\ NothingCancelled
    /\ RemovesItsOwn
    /\ ImportedStays
    /\ ReadyHasFile
    /\ SizesHold
    /\ PartialsBegin
    /\ SlotsResume
    /\ ImportedIsWhole
    /\ ReadyIntact

SafetyInv ==
    /\ TypeOK
    /\ IdsIdentify
    /\ SlotsIdentify
    /\ CallsIdentify
    /\ BatchWaits
    /\ SingleWriter
    /\ NoStranded
    /\ SizesDeclared
    /\ FinalComplete
=============================================================================
