----------------------------- MODULE Navigation -----------------------------
(***************************************************************************)
(* The sidebar of every page for one source with a static URL (Jellyfin):  *)
(* the navigation cache, the health that decides whether a page asks the   *)
(* source at all, the source's client with its user id that is looked up   *)
(* once, and a settings save, which replaces the client and then clears    *)
(* the cache.                                                              *)
(* From: internal/server/portal.go and settings.go, source/jellyfin,       *)
(* service/health.go, service/service.go.                                  *)
(***************************************************************************)
EXTENDS Integers

CONSTANTS
    Pages,          \* requests for pages that may be under way together
    TTL,            \* navCacheTTL, in ticks
    Timeout,        \* the 4 s of a page's ListLibraries, in ticks
    MaxCfg          \* bound: configurations, the first and those that are saved

VARIABLES
    up,             \* the source answers in time, or not at all
    cur,            \* the configuration whose client is live
    user,           \* userOnce of the client of each configuration
    health,         \* the registry: what the last call said of the source
    nav,            \* the cache entry: whose libraries, and for how long
    calls,          \* ListLibraries calls, by caller
    save,           \* handleSettingsSave
    replaced,       \* history: for how long a configuration has been replaced
    late            \* history: configurations with a page's call under way when a save cleared the cache

vars == <<up, cur, user, health, nav, calls, save, replaced, late>>

Configs == 1 .. MaxCfg
Callers == Pages \cup {"monitor", "reconnect"}
Empty == [libs |-> 0, age |-> 0]
NoCall == [step |-> "idle", client |-> 1, age |-> 0]

\* Ages are counted up to where nothing distinguishes them any more.
Horizon == TTL + Timeout
Older(age, limit) == IF age < limit THEN age + 1 ELSE limit

-----------------------------------------------------------------------------
(* A ListLibraries call of the source.                                     *)

\* ListLibraries takes the client that is live when it begins.
Start(c) == calls' = [calls EXCEPT ![c] = [step |-> "call", client |-> cur, age |-> 0]]

\* A page serves what it listed, the button clears the cache, and the monitor
\* is done.
After(c) == IF c = "reconnect" THEN "clear" ELSE "idle"

\* recordObservation and probeAndRecord say the same.  A cancelled page fails
\* like any other: mapError keeps the text of context.Canceled, not the error.
Failed(c) ==
    /\ calls' = [calls EXCEPT ![c].step = After(c)]
    /\ health' = "down"

InTime(c) == c \in Pages => calls[c].age <= Timeout

\* userOnce.Do: the first caller looks the user up, on its own context; the
\* others wait for it, whatever their contexts say.
LookUp(c) ==
    /\ calls[c].step = "call" /\ user[calls[c].client] = "none"
    /\ calls' = [calls EXCEPT ![c].step = "lookup"]
    /\ user' = [user EXCEPT ![calls[c].client] = "busy"]
    /\ UNCHANGED <<up, cur, health, nav, save>>

LookedUp(c) ==
    /\ calls[c].step = "lookup" /\ up
    /\ calls' = [calls EXCEPT ![c].step = "call"]
    /\ user' = [user EXCEPT ![calls[c].client] = "ok"]
    /\ UNCHANGED <<up, cur, health, nav, save>>

\* The network, the deadline, or a browser that has left: the error is kept.
LookUpFails(c) ==
    /\ calls[c].step = "lookup" /\ (~up \/ c \in Pages)
    /\ user' = [user EXCEPT ![calls[c].client] = "failed"]
    /\ Failed(c)
    /\ UNCHANGED <<up, cur, nav, save>>

\* GetUserViews, with the user id.
List(c) ==
    /\ calls[c].step = "call" /\ user[calls[c].client] = "ok"
    /\ up /\ InTime(c)
    /\ calls' = [calls EXCEPT ![c].step = IF c \in Pages THEN "store" ELSE After(c)]
    /\ health' = "ok"
    /\ UNCHANGED <<up, cur, user, nav, save>>

ListFails(c) ==
    /\ calls[c].step = "call"
    /\ \/ user[calls[c].client] = "failed"
       \/ user[calls[c].client] = "ok" /\ (~up \/ c \in Pages)
    /\ Failed(c)
    /\ UNCHANGED <<up, cur, user, nav, save>>

-----------------------------------------------------------------------------
(* navLibraries.  A page of an unhealthy source shows a note and stops here. *)

\* Mutation: an entry is served for as long as it is there.
FreshForever == nav.libs # 0

\* The entry is served as it is.
Fresh == nav.libs # 0 /\ nav.age < TTL

Miss(p) ==
    /\ calls[p].step = "idle" /\ health = "ok" /\ ~Fresh
    /\ Start(p)
    /\ UNCHANGED <<up, cur, user, health, nav, save>>

Store(p) ==
    /\ calls[p].step = "store"
    /\ nav' = [libs |-> calls[p].client, age |-> 0]
    /\ calls' = [calls EXCEPT ![p].step = "idle"]
    /\ UNCHANGED <<up, cur, user, health, save>>

-----------------------------------------------------------------------------
(* The monitor, the Reconnect button and the settings form.                *)

\* Mutation: a source that is down is left alone.
ProbeHealthyOnly ==
    /\ calls["monitor"].step = "idle" /\ save # "reload" /\ health = "ok"
    /\ Start("monitor")
    /\ UNCHANGED <<up, cur, user, health, nav, save>>

\* healthTick, of the generation that is live.
Probe ==
    /\ calls["monitor"].step = "idle" /\ save # "reload"
    /\ Start("monitor")
    /\ UNCHANGED <<up, cur, user, health, nav, save>>

\* doReconnect re-probes, and handleReconnect clears the cache.
Reconnect ==
    /\ calls["reconnect"].step = "idle"
    /\ Start("reconnect")
    /\ UNCHANGED <<up, cur, user, health, nav, save>>

ClearAfterReconnect ==
    /\ calls["reconnect"].step = "clear"
    /\ nav' = Empty
    /\ calls' = [calls EXCEPT !["reconnect"].step = "idle"]
    /\ UNCHANGED <<up, cur, user, health, save>>

\* ApplySettings has persisted the form.  If the runtime cannot be built the save
\* is reported as not live yet, and the cache is cleared all the same
\* (ErrReloadAfterSave); else reloadWith cancels the workers ...
Save ==
    /\ save = "idle" /\ cur < MaxCfg
    /\ save' \in {"clear", "reload"}
    /\ UNCHANGED <<up, cur, user, health, nav, calls>>

\* ... whose probe then says nothing of the source, but leaves its error in
\* userOnce; one that waits for another caller's lookup does so still.
StopMonitor ==
    /\ save = "reload"
    /\ \/ /\ calls["monitor"].step = "lookup"
          /\ user' = [user EXCEPT ![calls["monitor"].client] = "failed"]
       \/ /\ calls["monitor"].step = "call" /\ user[calls["monitor"].client] # "busy"
          /\ UNCHANGED user
    /\ calls' = [calls EXCEPT !["monitor"].step = "idle"]
    /\ UNCHANGED <<up, cur, health, nav, save>>

\* Mutation: the cache is not cleared after the swap.
InstallOnly ==
    /\ save = "reload" /\ calls["monitor"].step = "idle"
    /\ cur' = cur + 1
    /\ health' = "ok"
    /\ save' = "idle"
    /\ UNCHANGED <<up, user, nav, calls>>

\* The new runtime, and seedHealth's optimism.
Install ==
    /\ save = "reload" /\ calls["monitor"].step = "idle"
    /\ cur' = cur + 1
    /\ health' = "ok"
    /\ save' = "clear"
    /\ UNCHANGED <<up, user, nav, calls>>

Clear ==
    /\ save = "clear"
    /\ nav' = Empty
    /\ save' = "idle"
    /\ UNCHANGED <<up, cur, user, health, calls>>

-----------------------------------------------------------------------------
(* Time, and the source.                                                   *)

\* A page's request ends at its deadline, unless it waits for another caller's
\* lookup, and a page stores what it has listed at once.
MayWait(p) ==
    /\ calls[p].step # "store"
    /\ calls[p].step = "lookup" \/ (calls[p].step = "call" /\ user[calls[p].client] # "busy")
       => calls[p].age < Timeout

Tick ==
    /\ \A p \in Pages : MayWait(p)
    /\ nav' = [nav EXCEPT !.age = IF nav = Empty THEN 0 ELSE Older(@, TTL)]
    /\ calls' = [c \in Callers |->
          IF c \in Pages /\ calls[c].step # "idle"
          THEN [calls[c] EXCEPT !.age = Older(@, Timeout + 1)] ELSE calls[c]]
    /\ UNCHANGED <<up, cur, user, health, save>>

Flip ==
    /\ up' = ~up
    /\ UNCHANGED <<cur, user, health, nav, calls, save>>

-----------------------------------------------------------------------------
Init ==
    /\ up \in BOOLEAN
    /\ cur = 1
    /\ user = [v \in Configs |-> "none"]
    /\ health = "ok"
    /\ nav = Empty
    /\ calls = [c \in Callers |-> NoCall]
    /\ save = "idle"
    /\ replaced = [v \in Configs |-> 0]
    /\ late = {}

\* Replaced configurations age; the page calls that a save finds are noted.
History ==
    /\ replaced' = [v \in Configs |-> IF Tick /\ v < cur THEN Older(replaced[v], Horizon) ELSE replaced[v]]
    /\ late' = IF Clear
               THEN {calls[p].client : p \in {q \in Pages : calls[q].step # "idle"}} \ {cur}
               ELSE late

Calling(c) == LookUp(c) \/ LookedUp(c) \/ LookUpFails(c) \/ List(c) \/ ListFails(c)

Serving == \E p \in Pages : Miss(p) \/ Store(p)

Saving == Save \/ StopMonitor \/ Install \/ Clear

Next ==
    /\ \/ \E c \in Callers : Calling(c)
       \/ Serving \/ Saving
       \/ Probe \/ Reconnect \/ ClearAfterReconnect
       \/ Tick \/ Flip
    /\ History

\* Network calls end, by their deadlines at the latest, and the monitor's timer
\* fires again after every probe.
Fairness ==
    /\ \A c \in Callers : WF_vars(Calling(c) /\ History)
    /\ WF_vars(Probe /\ History)
    /\ WF_vars(StopMonitor /\ History) /\ WF_vars(Install /\ History)
    /\ WF_vars(Clear /\ History)

Spec == Init /\ [][Next]_vars
FairSpec == Spec /\ Fairness

-----------------------------------------------------------------------------
(* Properties.                                                             *)

TypeOK ==
    /\ up \in BOOLEAN /\ cur \in Configs
    /\ user \in [Configs -> {"none", "busy", "ok", "failed"}]
    /\ health \in {"ok", "down"}
    /\ nav \in [libs : 0 .. MaxCfg, age : 0 .. TTL]
    /\ calls \in [Callers -> [step : {"idle", "call", "lookup", "store", "clear"},
                              client : Configs, age : 0 .. Timeout + 1]]
    /\ save \in {"idle", "reload", "clear"}
    /\ replaced \in [Configs -> 0 .. Horizon] /\ late \subseteq Configs

\* A page's call that a save overtakes puts the old libraries back after the
\* save has cleared the cache, but no page shows them for longer than the call
\* and the entry may last together.
BoundedStaleness ==
    health = "ok" /\ Fresh /\ nav.libs # cur => replaced[nav.libs] < TTL + Timeout

\* Nothing else brings old libraries back: unless a page was asking the old
\* client when the save cleared the cache, pages show the new ones from then on.
SavedIsShown == save = "idle" /\ nav.libs \notin {0, cur} => nav.libs \in late

\* While the source answers, and once its user is known, whatever went wrong
\* before (an outage, a page that was closed while it loaded) is made good.
HealthRecovers == <>[](up /\ user[cur] = "ok") => []<>(health = "ok")

\* A source that answers again is healthy again.  It is not: the first error or
\* cancellation that lookupUserID meets is kept for as long as the client lives.
AnswersAgain == <>[]up => []<>(health = "ok")
=============================================================================
