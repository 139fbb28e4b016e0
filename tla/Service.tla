------------------------------- MODULE Service ------------------------------
(***************************************************************************)
(* The service's runtime and its health: settings saved and reloaded live, *)
(* the health monitor of each worker generation, the reconnect supervisor, *)
(* and handlers that save settings, ask for a reconnect or report what     *)
(* they saw of a source.                                                   *)
(*                                                                         *)
(* s.mu and s.reconnectMu are modelled as locks; a use of the registry     *)
(* under healthMu, a database statement and a network request are one      *)
(* step each.  Two generations' places are enough to see whether one is    *)
(* still running when the next is launched.                                *)
(***************************************************************************)
EXTENDS Integers, FiniteSets

CONSTANTS
    Addresses,   \* base URLs at which servers may answer
    Advertised,  \* the connections plex.tv advertises for the Plex server
    TopRanked,   \* the first of rankConnections, used when none answers
    JellyfinURL, \* where Jellyfin would answer
    Configs,     \* effective configurations that may be saved
    Verdicts,    \* what plex.tv may say to a request with our token
    Handlers,    \* handler goroutines of the portal and the MCP server
    Repertoires, \* sets of events, one of which the environment is held to
    None         \* no address, no lock holder, no name

Names == {"plex", "jellyfin"}
Procs == Handlers \cup {"supervisor"}
Places == {0, 1}

\* How Plex is configured: by URL, by server name on an account, or not at all.
ASSUME AddressAssumption ==
    /\ Advertised \subseteq Addresses
    /\ TopRanked \in Advertised
    /\ JellyfinURL \in Addresses
    /\ None \notin Addresses \cup Procs \cup Names
ASSUME ConfigAssumption ==
    Configs \subseteq [plex : {"none", "url", "server"}, url : Addresses, jellyfin : BOOLEAN]
ASSUME VerdictAssumption == "ok" \in Verdicts /\ Verdicts \subseteq {"ok", "auth_error", "parked", "down"}
ASSUME HandlerAssumption == "supervisor" \notin Handlers
ASSUME RepertoireAssumption ==
    Repertoires \subseteq SUBSET {"save", "reconnect", "observe", "missing", "outage", "account", "fault"}

VARIABLES
    stored,   \* the settings in the database, overlaid on the environment
    live,     \* addresses that answer now
    account,  \* "ok" if plex.tv answers, or the status its error stands for: a
              \* token refused, no server of that name, no answer
    rt,       \* the live runtime bundle
    current,  \* the place of the generation that workersCancel would stop
    worker,   \* the health monitor of each generation, standing for its waitgroup
    health,   \* the registry: each source's status, "untracked" if it has no entry
    asked,    \* reconnectCh holds a request (capacity 1)
    kicked,   \* kickCh holds a nudge (capacity 1)
    mu,       \* holder of s.mu
    turn,     \* holder of s.reconnectMu
    call,     \* what the supervisor and each handler is doing
    events    \* what the environment may do in this behaviour

vars == <<stored, live, account, rt, current, worker, health, asked, kicked,
          mu, turn, call, events>>
world == <<live, account, events>>

NoCall == [pc |-> "idle", kind |-> "none", name |-> None, pre |-> None,
           next |-> None, result |-> "ok"]
NoWorker == [pc |-> "off", cancelled |-> FALSE, rt |-> None, todo |-> {}, name |-> None, result |-> "ok"]

\* A health monitor that has just been launched over the bundle r.
Monitor(r) == [NoWorker EXCEPT !.pc = "wait", !.rt = r]

Configured(cfg, n) == IF n = "plex" THEN cfg.plex # "none" ELSE cfg.jellyfin
Built(r, n) == IF n = "plex" THEN r.plex # None ELSE r.cfg.jellyfin

-----------------------------------------------------------------------------
(* Talking to the servers.                                                 *)

\* Mutation: there is nothing wrong with a source that was not built.
ProbeUnbuiltOk(r, n) ==
    LET at == IF n = "plex" THEN r.plex ELSE JellyfinURL IN
    IF ~Built(r, n) THEN "ok"
    ELSE IF at \notin live THEN "down"
    ELSE IF n = "plex" /\ account = "auth_error" THEN "auth_error" ELSE "ok"

\* ListLibraries on a source of r, classified: a source that was not built is
\* taken for a network failure, and a token that plex.tv rejects is rejected
\* by the server too.
ProbeResult(r, n) ==
    LET at == IF n = "plex" THEN r.plex ELSE JellyfinURL IN
    IF ~Built(r, n) \/ at \notin live THEN "down"
    ELSE IF n = "plex" /\ account = "auth_error" THEN "auth_error" ELSE "ok"

\* plex.Discover when plex.tv answers: the best-ranked reachable connection,
\* or the top-ranked one when none is reachable.
Discoverable == IF Advertised \cap live # {} THEN Advertised \cap live ELSE {TopRanked}

\* Mutation: the connection a reconnect has resolved is resolved once more.
ConnectionAnew(cfg, pre) ==
    CASE cfg.plex = "none" -> {None}
      [] cfg.plex = "url" -> {cfg.url}
      [] cfg.plex = "server" -> IF account = "ok" THEN Discoverable ELSE {None}

\* buildRuntimeWith: a connection resolved by the caller wins, then the URL,
\* then discovery, whose failure leaves Plex and the engine out.
Connection(cfg, pre) ==
    IF pre # None THEN {pre}
    ELSE CASE cfg.plex = "none" -> {None}
           [] cfg.plex = "url" -> {cfg.url}
           [] cfg.plex = "server" -> IF account = "ok" THEN Discoverable ELSE {None}
Build(cfg, pre) == {[cfg |-> cfg, plex |-> a] : a \in Connection(cfg, pre)}

\* seedHealth: an entry for what is configured, none for what is not.
Seeded(r) ==
    [n \in Names |-> IF ~Configured(r.cfg, n) THEN "untracked"
                     ELSE IF Built(r, n) THEN "ok" ELSE "down"]

-----------------------------------------------------------------------------
(* runHealthMonitor, in place s.                                           *)

\* The timer fires, or a kick arrives; healthTick takes the tracked names.
Wake(s) ==
    /\ worker[s].pc = "wait"
    /\ ~worker[s].cancelled
    /\ kicked' \in {kicked, FALSE}
    /\ worker' = [worker EXCEPT ![s].pc = "tick",
                                ![s].todo = {n \in Names : health[n] # "untracked"}]
    /\ UNCHANGED <<world, stored, rt, current, health, asked, mu, turn, call>>

Probe(s) ==
    /\ worker[s].pc = "tick"
    /\ ~worker[s].cancelled
    /\ \E n \in worker[s].todo :
          worker' = [worker EXCEPT ![s].pc = "probed", ![s].todo = @ \ {n}, ![s].name = n,
                                   ![s].result = ProbeResult(worker[s].rt, n)]
    /\ UNCHANGED <<world, stored, rt, current, health, asked, kicked, mu, turn, call>>

\* Mutation: requestReconnect sends without a default case.
RecordBlocking(s) ==
    LET n == worker[s].name IN
    /\ worker[s].pc = "probed"
    /\ n = "plex" /\ worker[s].result = "down" => ~asked
    /\ health' = [health EXCEPT ![n] = worker[s].result]
    /\ asked' = (asked \/ (n = "plex" /\ worker[s].result = "down"))
    /\ worker' = [worker EXCEPT ![s].pc = "tick", ![s].name = None, ![s].result = "ok"]
    /\ UNCHANGED <<world, stored, rt, current, kicked, mu, turn, call>>

\* The result is entered, unless the context was seen cancelled, and a Plex
\* that is down is put to the supervisor unless a request is waiting already.
Record(s) ==
    LET n == worker[s].name IN
    /\ worker[s].pc = "probed"
    /\ \/ /\ health' = [health EXCEPT ![n] = worker[s].result]
          /\ asked' = (asked \/ (n = "plex" /\ worker[s].result = "down"))
       \/ /\ worker[s].cancelled
          /\ UNCHANGED <<health, asked>>
    /\ worker' = [worker EXCEPT ![s].pc = "tick", ![s].name = None, ![s].result = "ok"]
    /\ UNCHANGED <<world, stored, rt, current, kicked, mu, turn, call>>

Sleep(s) ==
    /\ worker[s].pc = "tick"
    /\ worker[s].todo = {}
    /\ worker' = [worker EXCEPT ![s].pc = "wait"]
    /\ UNCHANGED <<world, stored, rt, current, health, asked, kicked, mu, turn, call>>

\* A cancelled generation leaves its loop; the rest of a tick has no effect.
Exit(s) ==
    /\ worker[s].pc \in {"wait", "tick"}
    /\ worker[s].cancelled
    /\ worker' = [worker EXCEPT ![s] = NoWorker]
    /\ UNCHANGED <<world, stored, rt, current, health, asked, kicked, mu, turn, call>>

-----------------------------------------------------------------------------
(* doReconnect, by the supervisor or by a handler's ReconnectSource.       *)

Done(p) == call' = [call EXCEPT ![p] = NoCall]
Unlock(p) == turn' = IF turn = p THEN None ELSE turn

\* The supervisor takes a request off reconnectCh.
Take ==
    /\ asked
    /\ call["supervisor"] = NoCall
    /\ asked' = FALSE
    /\ call' = [call EXCEPT !["supervisor"] =
                   [NoCall EXCEPT !.pc = "lock", !.kind = "reconnect", !.name = "plex"]]
    /\ UNCHANGED <<world, stored, rt, current, worker, health, kicked, mu, turn>>

\* "Reconnect now", for a source the registry tracks.
ReconnectSource(h) ==
    /\ "reconnect" \in events
    /\ call[h] = NoCall
    /\ \E n \in Names :
        /\ health[n] # "untracked"
        /\ call' = [call EXCEPT ![h] =
              [NoCall EXCEPT !.pc = "lock", !.kind = "reconnect", !.name = n]]
    /\ UNCHANGED <<world, stored, rt, current, worker, health, asked, kicked, mu, turn>>

LockReconnect(p) ==
    /\ call[p].pc = "lock"
    /\ turn = None
    /\ turn' = p
    /\ call' = [call EXCEPT ![p].pc = IF call[p].name = "plex" THEN "resolve" ELSE "probe"]
    /\ UNCHANGED <<world, stored, rt, current, worker, health, asked, kicked, mu>>

\* Jellyfin has one URL: it is probed again and the result entered.
Reprobe(p) ==
    /\ call[p].pc = "probe"
    /\ call' = [call EXCEPT ![p].pc = "record",
                            ![p].result = ProbeResult(rt, call[p].name)]
    /\ UNCHANGED <<world, stored, rt, current, worker, health, asked, kicked, mu, turn>>

\* Nothing is entered if the client has gone away.
RecordReprobe(p) ==
    /\ call[p].pc = "record"
    /\ \/ health' = [health EXCEPT ![call[p].name] = call[p].result]
       \/ "fault" \in events /\ UNCHANGED health
    /\ Unlock(p)
    /\ Done(p)
    /\ UNCHANGED <<world, stored, rt, current, worker, asked, kicked, mu>>

\* Mutation: whatever Discover returns is installed, reachable or not.
ResolveUngated(p) ==
    /\ call[p].pc = "resolve"
    /\ stored.plex = "server"
    /\ account = "ok"
    /\ \E a \in Discoverable : call' = [call EXCEPT ![p].pc = "build", ![p].pre = a]
    /\ UNCHANGED <<world, stored, rt, current, worker, health, asked, kicked, mu, turn>>

\* By URL there is nothing to discover.  By name, a connection must answer now;
\* a failure is entered in the registry and the runtime stays as it is.  If the
\* settings cannot be read nothing happens at all.
Resolve(p) ==
    /\ call[p].pc = "resolve"
    /\ \/ /\ stored.plex = "none"
          /\ Done(p) /\ Unlock(p)
          /\ UNCHANGED health
       \/ /\ stored.plex = "url"
          /\ call' = [call EXCEPT ![p].pc = "build"]
          /\ UNCHANGED <<health, turn>>
       \/ /\ stored.plex = "server"
          /\ account # "ok"
          /\ health' = [health EXCEPT !["plex"] = account]
          /\ Done(p) /\ Unlock(p)
       \/ /\ "fault" \in events
          /\ Done(p) /\ Unlock(p)
          /\ UNCHANGED health
       \/ /\ stored.plex = "server"
          /\ account = "ok"
          /\ Advertised \cap live = {}
          /\ health' = [health EXCEPT !["plex"] = "down"]
          /\ Done(p) /\ Unlock(p)
       \/ /\ stored.plex = "server"
          /\ account = "ok"
          /\ \E a \in Advertised \cap live :
                call' = [call EXCEPT ![p].pc = "build", ![p].pre = a]
          /\ UNCHANGED <<health, turn>>
    /\ UNCHANGED <<world, stored, rt, current, worker, asked, kicked, mu>>

-----------------------------------------------------------------------------
(* ApplySettings and reloadWith.                                           *)

\* SetMany has written all keys; Reload follows.
Save(h) ==
    /\ "save" \in events
    /\ call[h] = NoCall
    /\ stored' \in Configs
    /\ call' = [call EXCEPT ![h] = [NoCall EXCEPT !.pc = "build", !.kind = "save"]]
    /\ UNCHANGED <<world, rt, current, worker, health, asked, kicked, mu, turn>>

\* Mutation: the error of buildRuntimeWith is not looked at.
BuildIgnoringErrors(p) ==
    /\ call[p].pc = "build"
    /\ \E r \in Build(stored, call[p].pre) \cup {None} :
          call' = [call EXCEPT ![p].pc = "stop", ![p].next = r, ![p].pre = None]
    /\ UNCHANGED <<world, stored, rt, current, worker, health, asked, kicked, mu, turn>>

\* The settings are read (again) and a runtime is built from them.  A failure
\* changes nothing but the entry's error text; the entry itself if it is new.
BuildRuntime(p) ==
    /\ call[p].pc = "build"
    /\ \/ /\ \E r \in Build(stored, call[p].pre) :
                call' = [call EXCEPT ![p].pc = "stop", ![p].next = r, ![p].pre = None]
          /\ UNCHANGED <<health, turn>>
       \/ /\ "fault" \in events
          /\ health' = IF call[p].kind = "reconnect" /\ health["plex"] = "untracked"
                       THEN [health EXCEPT !["plex"] = "unknown"] ELSE health
          /\ Done(p) /\ Unlock(p)
    /\ UNCHANGED <<world, stored, rt, current, worker, asked, kicked, mu>>

\* s.mu.Lock, and stopWorkersLocked cancels the generation ...
StopWorkers(p) ==
    /\ call[p].pc = "stop"
    /\ mu = None
    /\ mu' = p
    /\ worker' = [worker EXCEPT ![current].cancelled = TRUE]
    /\ call' = [call EXCEPT ![p].pc = "swap"]
    /\ UNCHANGED <<world, stored, rt, current, health, asked, kicked, turn>>

\* The bundle is published, its workers are launched and s.mu is released.
Launch(p) ==
    /\ rt' = call[p].next
    /\ current' = 1 - current
    /\ worker' = [worker EXCEPT ![1 - current] = Monitor(call[p].next)]
    /\ mu' = None
    /\ call' = [call EXCEPT ![p].pc = "seed"]
    /\ UNCHANGED <<world, stored, health, asked, kicked, turn>>

\* Mutation: the old generation is cancelled and not waited for.
SwapAtOnce(p) == call[p].pc = "swap" /\ Launch(p)

\* ... and waits it out before anything is swapped.
Swap(p) ==
    /\ call[p].pc = "swap"
    /\ worker[current].pc = "off"
    /\ Launch(p)

\* seedHealth, after s.mu has been released.
SeedHealth(p) ==
    /\ call[p].pc = "seed"
    /\ health' = Seeded(call[p].next)
    /\ Unlock(p)
    /\ Done(p)
    /\ UNCHANGED <<world, stored, rt, current, worker, asked, kicked, mu>>

-----------------------------------------------------------------------------
(* recordObservation, after a handler has listed a library or an item.     *)

\* What a request meets: the server answers, or does not, or answers that it has
\* no such item, an error that is classified like one of the whole source.
Met(n) == {ProbeResult(rt, n)} \cup
    (IF "missing" \in events /\ ProbeResult(rt, n) = "ok" THEN {"parked"} ELSE {})

Observe(h) ==
    /\ "observe" \in events
    /\ call[h] = NoCall
    /\ \E n \in Names :
        /\ Built(rt, n)
        /\ \E seen \in Met(n) : call' = [call EXCEPT ![h] =
              [NoCall EXCEPT !.pc = "observed", !.kind = "observe", !.name = n,
                             !.result = seen]]
    /\ UNCHANGED <<world, stored, rt, current, worker, health, asked, kicked, mu, turn>>

\* getHealth: a source that is not tracked is none of ours.
CheckTracked(h) ==
    /\ call[h].pc = "observed"
    /\ call' = [call EXCEPT ![h] =
          IF health[call[h].name] = "untracked" THEN NoCall ELSE [@ EXCEPT !.pc = "enter"]]
    /\ UNCHANGED <<world, stored, rt, current, worker, health, asked, kicked, mu, turn>>

EnterObservation(h) ==
    /\ call[h].pc = "enter"
    /\ health' = [health EXCEPT ![call[h].name] = call[h].result]
    /\ kicked' = (kicked \/ call[h].result = "down")
    /\ Done(h)
    /\ UNCHANGED <<world, stored, rt, current, worker, asked, mu, turn>>

-----------------------------------------------------------------------------
\* Servers come, go and move; plex.tv may be out or refuse the token.
Outage ==
    /\ "outage" \in events
    /\ \E a \in Addresses : live' \in {live \cup {a}, live \ {a}}
    /\ UNCHANGED <<stored, account, rt, current, worker, health, asked, kicked, mu, turn,
                   call, events>>

AccountChange ==
    /\ "account" \in events
    /\ account' \in Verdicts
    /\ UNCHANGED <<stored, live, rt, current, worker, health, asked, kicked, mu, turn,
                   call, events>>

\* New has built and seeded the first runtime and Start has launched it.
Init ==
    /\ stored \in Configs
    /\ live \in SUBSET Addresses
    /\ account \in Verdicts
    /\ rt \in Build(stored, None)
    /\ health = Seeded(rt)
    /\ current = 0
    /\ worker = [s \in Places |-> IF s = 0 THEN Monitor(rt) ELSE NoWorker]
    /\ asked = FALSE
    /\ kicked = FALSE
    /\ mu = None
    /\ turn = None
    /\ call = [p \in Procs |-> NoCall]
    /\ events \in Repertoires

MonitorStep(s) == Wake(s) \/ Probe(s) \/ Record(s) \/ Sleep(s) \/ Exit(s)

\* What a call does on its own once it has begun, apart from taking the locks.
CallStep(p) ==
    \/ Reprobe(p) \/ RecordReprobe(p) \/ Resolve(p) \/ BuildRuntime(p) \/ Swap(p)
    \/ SeedHealth(p) \/ CheckTracked(p) \/ EnterObservation(p)

Next ==
    \/ \E s \in Places : MonitorStep(s)
    \/ Take
    \/ \E p \in Procs : LockReconnect(p) \/ StopWorkers(p) \/ CallStep(p)
    \/ \E h \in Handlers : ReconnectSource(h) \/ Save(h) \/ Observe(h)
    \/ Outage \/ AccountChange

Spec == Init /\ [][Next]_vars

\* Goroutines run, timers fire, and a Go mutex is handed on in the end to
\* whoever waits for it.  Handlers need not start anything.
Fairness ==
    /\ \A s \in Places : WF_vars(MonitorStep(s))
    /\ WF_vars(Take)
    /\ \A p \in Procs : WF_vars(CallStep(p)) /\ SF_vars(LockReconnect(p)) /\ SF_vars(StopWorkers(p))

FairSpec == Spec /\ Fairness

-----------------------------------------------------------------------------
(* Properties.                                                             *)

Statuses == {"untracked", "unknown", "ok", "down", "auth_error", "parked"}
Runtimes == [cfg : Configs, plex : Addresses \cup {None}]
Monitors ==
    {m \in [pc : {"off", "wait", "tick", "probed"}, cancelled : BOOLEAN, rt : Runtimes \cup {None},
            todo : SUBSET Names, name : Names \cup {None}, result : Statuses] :
        m.pc # "off" => m.rt \in Runtimes}
Calls ==
    {c \in [pc : {"idle", "lock", "resolve", "probe", "record", "build", "stop", "swap", "seed",
                  "observed", "enter"},
            kind : {"none", "reconnect", "save", "observe"}, name : Names \cup {None},
            pre : Addresses \cup {None}, next : Runtimes \cup {None}, result : Statuses] :
        c.pc \in {"stop", "swap", "seed"} => c.next \in Runtimes}

\* Types; a call that is past its build, and a running generation, have a runtime.
TypeOK ==
    /\ stored \in Configs
    /\ live \subseteq Addresses
    /\ account \in Verdicts
    /\ rt \in Runtimes
    /\ current \in Places
    /\ worker \in [Places -> Monitors]
    /\ health \in [Names -> Statuses]
    /\ asked \in BOOLEAN
    /\ kicked \in BOOLEAN
    /\ mu \in Procs \cup {None}
    /\ turn \in Procs \cup {None}
    /\ call \in [Procs -> Calls]
    /\ events \in Repertoires

\* Two generations of workers never run side by side, so no two engines write
\* the shared partials, whichever of ApplySettings, ReconnectSource and the
\* supervisor reload at the same time; and a generation that has not been
\* cancelled works for the live runtime and can be stopped.
OneGeneration ==
    \A s, t \in Places :
        /\ s # t => worker[s].pc = "off" \/ worker[t].pc = "off"
        /\ worker[s].pc # "off" /\ ~worker[s].cancelled => s = current /\ worker[s].rt = rt

\* "A transient outage never makes Plex vanish from the source list": as long
\* as the settings are not changed, no reload that a reconnect brings about
\* leaves out a Plex that was built, whatever the network and plex.tv do
\* between the discovery and the swap.
PlexKept ==
    [][("save" \notin events /\ rt.plex # None) =>
           rt'.plex # None]_vars

\* Every call comes to its end: nobody waits for ever on s.mu, on s.reconnectMu,
\* on reconnectCh or on a generation of workers, although the supervisor and
\* handlers wait for the monitor while the monitor makes requests of them.
CallsEnd == \A p \in Procs : call[p].pc # "idle" ~> call[p].pc = "idle"

\* "Plex connections self-heal when the remote server moves": once the set of
\* addresses that answer has settled, contains an advertised connection, and
\* plex.tv accepts the token, the runtime uses a connection that answers and
\* the registry says "ok", from then on and with nobody's help, as long as no
\* handler asks for an item that is gone: recordObservation classifies its error
\* like one of the whole source, which is parked until the next probe.
SelfHeals ==
    \A now \in SUBSET Addresses :
        /\ events \cap {"save", "missing", "fault"} = {} /\ stored.plex = "server"
        /\ now \cap Advertised # {}
        /\ <>[](live = now /\ account = "ok")
        => <>[](rt.plex \in now /\ health["plex"] = "ok")

\* While no advertised connection answers, the registry does not go on saying
\* "ok": neither the optimism of a reload nor an old observation outlives it.
OutageShows ==
    /\ "save" \notin events /\ stored.plex = "server"
    /\ <>[](live \cap Advertised = {})
    => <>[](health["plex"] # "ok")

Quiet == /\ \A p \in Procs : call[p] = NoCall
         /\ \A s \in Places : worker[s].pc \in {"off", "wait"}

\* "An entry exists iff that source's creds are configured" (seedHealth).  The
\* code breaks this: the new generation's first probe starts before seedHealth
\* has dropped an entry and enters its result, and so the entry, afterwards.
EntryIffConfigured ==
    Quiet => \A n \in Names :
        health[n] # "untracked" <=> Configured(rt.cfg, n)

\* "Reload rebuilds the runtime from the current env+DB settings and swaps it
\* in live": when nothing is in progress, the live runtime is that of the saved
\* settings.  The code breaks this: the settings are read before s.mu is taken,
\* so of two reloads the one that read the older settings may swap last.
RuntimeFollowsSettings ==
    Quiet /\ "fault" \notin events => rt.cfg = stored

-----------------------------------------------------------------------------
(* What makes the safety properties inductive (ServiceProofs).             *)

\* Only the generation that can be stopped runs, and for the live runtime.
OnlyCurrentRuns ==
    /\ worker[1 - current].pc = "off"
    /\ worker[current].pc # "off" /\ ~worker[current].cancelled => worker[current].rt = rt

\* Without a save, a call that builds has a connection or a URL to build from,
\* and a call that has built has a runtime with Plex.
RepairsHavePlex ==
    "save" \notin events => \A p \in Procs :
        /\ call[p].pc = "build" => call[p].pre # None \/ stored.plex = "url"
        /\ call[p].pc \in {"stop", "swap"} => call[p].next.plex # None

SafetyInv == TypeOK /\ OnlyCurrentRuns /\ RepairsHavePlex
=============================================================================
