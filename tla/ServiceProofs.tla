---------------------------- MODULE ServiceProofs ---------------------------
(* Service's safety for every set of handlers, addresses, configurations    *)
(* and verdicts, and every repertoire of events.                            *)
EXTENDS Service, TLAPS

\* An idle caller and a generation that is not running have their types.
LEMMA Defaults == NoCall \in Calls /\ NoWorker \in Monitors
  BY DEF NoCall, Calls, NoWorker, Monitors, Statuses

\* Replacing one call, or one generation, by one of the same type.
LEMMA CallType == ASSUME TypeOK, NEW p \in Procs, NEW c \in Calls,
                         call' = [call EXCEPT ![p] = c]
                  PROVE  call' \in [Procs -> Calls]
  BY DEF TypeOK

LEMMA MonitorType == ASSUME TypeOK, NEW s \in Places, NEW m \in Monitors,
                            worker' = [worker EXCEPT ![s] = m]
                     PROVE  worker' \in [Places -> Monitors]
  BY DEF TypeOK

LEMMA DoneType == ASSUME TypeOK, NEW p \in Procs, Done(p)
                  PROVE  call' \in [Procs -> Calls]
  BY Defaults, CallType DEF Done

LEMMA UnlockType == ASSUME TypeOK, NEW p \in Procs, Unlock(p)
                    PROVE  turn' \in Procs \cup {None}
  BY DEF Unlock, TypeOK

LEMMA HandlersAreProcs == Handlers \subseteq Procs /\ "supervisor" \in Procs
  BY DEF Procs

\* Whatever a probe sees is a status.
LEMMA ProbeType == ASSUME NEW r, NEW n PROVE ProbeResult(r, n) \in Statuses
  BY DEF ProbeResult, Statuses

\* The connection a runtime is built with is an address, or none.
LEMMA BuildType == ASSUME NEW cfg \in Configs, NEW pre \in Addresses \cup {None}
                   PROVE  Build(cfg, pre) \subseteq Runtimes
<1>1. cfg.plex \in {"none", "url", "server"} /\ cfg.url \in Addresses
  BY ConfigAssumption
<1>2. Discoverable \subseteq Addresses
  BY AddressAssumption DEF Discoverable
<1>3. Connection(cfg, pre) \subseteq Addresses \cup {None}
  BY <1>1, <1>2 DEF Connection
<1> QED
  BY <1>3 DEF Build, Runtimes

\* A registry that is seeded has the type of the registry.
LEMMA SeededType == ASSUME NEW r PROVE Seeded(r) \in [Names -> Statuses]
  BY DEF Seeded, Statuses

-----------------------------------------------------------------------------
\* Each step of a monitor preserves the type invariant.
LEMMA MonitorStepType == ASSUME TypeOK, NEW s \in Places, MonitorStep(s)
                         PROVE  TypeOK'
<1>1. worker[s] \in Monitors
  BY DEF TypeOK
<1>2. CASE Wake(s)
  <2> DEFINE m == [worker[s] EXCEPT !.pc = "tick", !.todo = {n \in Names : health[n] # "untracked"}]
  <2>1. m \in Monitors
    BY <1>1, <1>2 DEF Wake, Monitors
  <2>2. worker' = [worker EXCEPT ![s] = m]
    BY <1>1, <1>2 DEF Wake, Monitors, TypeOK
  <2>3. worker' \in [Places -> Monitors]
    BY <2>1, <2>2, MonitorType
  <2> QED
    BY <1>2, <2>3 DEF Wake, TypeOK, world
<1>3. CASE Probe(s)
  <2> PICK n \in worker[s].todo :
         worker' = [worker EXCEPT ![s].pc = "probed", ![s].todo = @ \ {n}, ![s].name = n,
                                  ![s].result = ProbeResult(worker[s].rt, n)]
    BY <1>3 DEF Probe
  <2> DEFINE m == [worker[s] EXCEPT !.pc = "probed", !.todo = @ \ {n}, !.name = n,
                                    !.result = ProbeResult(worker[s].rt, n)]
  <2>1. n \in Names
    BY <1>1 DEF Monitors
  <2>2. m \in Monitors
    BY <1>1, <1>3, <2>1, ProbeType DEF Probe, Monitors
  <2>3. worker' = [worker EXCEPT ![s] = m]
    BY <1>1 DEF Monitors, TypeOK
  <2>4. worker' \in [Places -> Monitors]
    BY <2>2, <2>3, MonitorType
  <2> QED
    BY <1>3, <2>4 DEF Probe, TypeOK, world
<1>4. CASE Record(s)
  <2> DEFINE m == [worker[s] EXCEPT !.pc = "tick", !.name = None, !.result = "ok"]
  <2>1. m \in Monitors
    BY <1>1, <1>4 DEF Record, Monitors, Statuses
  <2>2. worker' = [worker EXCEPT ![s] = m]
    BY <1>1, <1>4 DEF Record, Monitors, TypeOK
  <2>3. worker' \in [Places -> Monitors]
    BY <2>1, <2>2, MonitorType
  <2>4. health' \in [Names -> Statuses] /\ asked' \in BOOLEAN
    BY <1>1, <1>4 DEF Record, Monitors, TypeOK
  <2> QED
    BY <1>4, <2>3, <2>4 DEF Record, TypeOK, world
<1>5. CASE Sleep(s)
  <2> DEFINE m == [worker[s] EXCEPT !.pc = "wait"]
  <2>1. m \in Monitors
    BY <1>1, <1>5 DEF Sleep, Monitors
  <2>2. worker' = [worker EXCEPT ![s] = m]
    BY <1>1, <1>5 DEF Sleep, Monitors, TypeOK
  <2>3. worker' \in [Places -> Monitors]
    BY <2>1, <2>2, MonitorType
  <2> QED
    BY <1>5, <2>3 DEF Sleep, TypeOK, world
<1>6. CASE Exit(s)
  <2>1. worker' \in [Places -> Monitors]
    BY <1>6, Defaults, MonitorType DEF Exit
  <2> QED
    BY <1>6, <2>1 DEF Exit, TypeOK, world
<1> QED
  BY <1>2, <1>3, <1>4, <1>5, <1>6 DEF MonitorStep

\* Each step of a call that touches neither locks nor generations nor the
\* runtime preserves the type invariant.
LEMMA ReconnectType == ASSUME TypeOK, NEW p \in Procs,
                              \/ LockReconnect(p) \/ Reprobe(p) \/ RecordReprobe(p)
                       PROVE  TypeOK'
<1>1. call[p] \in Calls
  BY DEF TypeOK
<1>2. CASE LockReconnect(p)
  <2> DEFINE c == [call[p] EXCEPT !.pc = IF call[p].name = "plex" THEN "resolve" ELSE "probe"]
  <2>1. c \in Calls
    BY <1>1, <1>2 DEF LockReconnect, Calls
  <2>2. call' = [call EXCEPT ![p] = c]
    BY <1>1, <1>2 DEF LockReconnect, Calls, TypeOK
  <2>3. call' \in [Procs -> Calls]
    BY <2>1, <2>2, CallType
  <2> QED
    BY <1>2, <2>3 DEF LockReconnect, TypeOK, world
<1>3. CASE Reprobe(p)
  <2> DEFINE c == [call[p] EXCEPT !.pc = "record", !.result = ProbeResult(rt, call[p].name)]
  <2>1. c \in Calls
    BY <1>1, <1>3, ProbeType DEF Reprobe, Calls
  <2>2. call' = [call EXCEPT ![p] = c]
    BY <1>1, <1>3 DEF Reprobe, Calls, TypeOK
  <2>3. call' \in [Procs -> Calls]
    BY <2>1, <2>2, CallType
  <2> QED
    BY <1>3, <2>3 DEF Reprobe, TypeOK, world
<1>4. CASE RecordReprobe(p)
  <2>1. call' \in [Procs -> Calls] /\ turn' \in Procs \cup {None}
    BY <1>4, DoneType, UnlockType DEF RecordReprobe
  <2>2. health' \in [Names -> Statuses]
    BY <1>1, <1>4 DEF RecordReprobe, Calls, TypeOK
  <2> QED
    BY <1>4, <2>1, <2>2 DEF RecordReprobe, TypeOK, world
<1> QED
  BY <1>2, <1>3, <1>4

LEMMA ResolveType == ASSUME TypeOK, NEW p \in Procs, Resolve(p)
                     PROVE  TypeOK'
<1>1. call[p] \in Calls /\ account \in Statuses
  BY VerdictAssumption DEF TypeOK, Statuses
<1>2. health' \in [Names -> Statuses]
  BY <1>1 DEF Resolve, TypeOK, Statuses
<1>3. call' \in [Procs -> Calls] /\ turn' \in Procs \cup {None}
  <2>1. CASE Done(p) /\ Unlock(p)
    BY <2>1, DoneType, UnlockType
  <2>2. CASE call' = [call EXCEPT ![p].pc = "build"] /\ UNCHANGED turn
    <3> DEFINE c == [call[p] EXCEPT !.pc = "build"]
    <3>1. c \in Calls
      BY <1>1 DEF Calls
    <3>2. call' = [call EXCEPT ![p] = c]
      BY <1>1, <2>2 DEF Calls, TypeOK
    <3> QED
      BY <2>2, <3>1, <3>2, CallType DEF TypeOK
  <2>3. ASSUME NEW a \in Advertised,
               call' = [call EXCEPT ![p].pc = "build", ![p].pre = a], UNCHANGED turn
        PROVE  call' \in [Procs -> Calls] /\ turn' \in Procs \cup {None}
    <3> DEFINE c == [call[p] EXCEPT !.pc = "build", !.pre = a]
    <3>1. c \in Calls
      BY <1>1, AddressAssumption DEF Calls
    <3>2. call' = [call EXCEPT ![p] = c]
      BY <1>1, <2>3 DEF Calls, TypeOK
    <3> QED
      BY <2>3, <3>1, <3>2, CallType DEF TypeOK
  <2> QED
    BY <2>1, <2>2, <2>3 DEF Resolve
<1> QED
  BY <1>2, <1>3 DEF Resolve, TypeOK, world

LEMMA ReloadType == ASSUME TypeOK, NEW p \in Procs,
                           BuildRuntime(p) \/ StopWorkers(p) \/ Swap(p) \/ SeedHealth(p)
                    PROVE  TypeOK'
<1>1. call[p] \in Calls
  BY DEF TypeOK
<1>2. CASE BuildRuntime(p)
  <2>1. health' \in [Names -> Statuses]
    BY <1>2 DEF BuildRuntime, TypeOK, Statuses
  <2>2. call' \in [Procs -> Calls] /\ turn' \in Procs \cup {None}
    <3>1. CASE Done(p) /\ Unlock(p)
      BY <3>1, DoneType, UnlockType
    <3>2. ASSUME NEW r \in Build(stored, call[p].pre), UNCHANGED turn,
                 call' = [call EXCEPT ![p].pc = "stop", ![p].next = r, ![p].pre = None]
          PROVE  call' \in [Procs -> Calls] /\ turn' \in Procs \cup {None}
      <4> DEFINE c == [call[p] EXCEPT !.pc = "stop", !.next = r, !.pre = None]
      <4>1. call[p].pre \in Addresses \cup {None} /\ stored \in Configs
        BY <1>1 DEF Calls, TypeOK
      <4>2. r \in Runtimes
        BY <4>1, BuildType
      <4>3. c \in Calls
        BY <1>1, <4>2 DEF Calls
      <4>4. call' = [call EXCEPT ![p] = c]
        BY <1>1, <3>2 DEF Calls, TypeOK
      <4> QED
        BY <3>2, <4>3, <4>4, CallType DEF TypeOK
    <3> QED
      BY <1>2, <3>1, <3>2 DEF BuildRuntime
  <2> QED
    BY <1>2, <2>1, <2>2 DEF BuildRuntime, TypeOK, world
<1>3. CASE StopWorkers(p)
  <2> DEFINE m == [worker[current] EXCEPT !.cancelled = TRUE]
             c == [call[p] EXCEPT !.pc = "swap"]
  <2>1. m \in Monitors /\ worker' = [worker EXCEPT ![current] = m]
    BY <1>3 DEF StopWorkers, Monitors, TypeOK
  <2>2. worker' \in [Places -> Monitors]
    BY <2>1, MonitorType DEF TypeOK
  <2>3. c \in Calls /\ call' = [call EXCEPT ![p] = c]
    BY <1>1, <1>3 DEF StopWorkers, Calls, TypeOK
  <2>4. call' \in [Procs -> Calls]
    BY <2>3, CallType
  <2> QED
    BY <1>3, <2>2, <2>4 DEF StopWorkers, TypeOK, world
<1>4. CASE Swap(p)
  <2> DEFINE m == Monitor(call[p].next)
             c == [call[p] EXCEPT !.pc = "seed"]
  <2>1. call[p].next \in Runtimes
    BY <1>1, <1>4 DEF Swap, Calls
  <2>2. m \in Monitors
    BY <2>1, Defaults DEF Monitor, Monitors
  <2>3. 1 - current \in Places
    BY DEF Places, TypeOK
  <2>4. worker' \in [Places -> Monitors]
    BY <1>4, <2>2, <2>3, MonitorType DEF Swap, Launch
  <2>5. c \in Calls /\ call' = [call EXCEPT ![p] = c]
    BY <1>1, <1>4, <2>1 DEF Swap, Launch, Calls, TypeOK
  <2>6. call' \in [Procs -> Calls]
    BY <2>5, CallType
  <2> QED
    BY <1>4, <2>1, <2>3, <2>4, <2>6 DEF Swap, Launch, TypeOK, world
<1>5. CASE SeedHealth(p)
  <2>1. call' \in [Procs -> Calls] /\ turn' \in Procs \cup {None}
    BY <1>5, DoneType, UnlockType DEF SeedHealth
  <2> QED
    BY <1>5, <2>1, SeededType DEF SeedHealth, TypeOK, world
<1> QED
  BY <1>2, <1>3, <1>4, <1>5

\* The steps that begin a call, and those of recordObservation.
LEMMA HandlerType == ASSUME TypeOK, NEW h \in Procs,
                            \/ ReconnectSource(h) \/ Save(h) \/ Observe(h)
                            \/ CheckTracked(h) \/ EnterObservation(h)
                     PROVE  TypeOK'
<1>1. call[h] \in Calls
  BY DEF TypeOK
<1>2. CASE ReconnectSource(h)
  <2> PICK n \in Names : call' = [call EXCEPT ![h] =
         [NoCall EXCEPT !.pc = "lock", !.kind = "reconnect", !.name = n]]
    BY <1>2 DEF ReconnectSource
  <2>1. [NoCall EXCEPT !.pc = "lock", !.kind = "reconnect", !.name = n] \in Calls
    BY Defaults DEF Calls
  <2>2. call' \in [Procs -> Calls]
    BY <2>1, CallType
  <2> QED
    BY <1>2, <2>2 DEF ReconnectSource, TypeOK, world
<1>3. CASE Save(h)
  <2>1. [NoCall EXCEPT !.pc = "build", !.kind = "save"] \in Calls
    BY Defaults DEF Calls
  <2>2. call' \in [Procs -> Calls]
    BY <1>3, <2>1, CallType DEF Save
  <2> QED
    BY <1>3, <2>2 DEF Save, TypeOK, world
<1>4. CASE Observe(h)
  <2> PICK n \in Names : \E seen \in Met(n) : call' = [call EXCEPT ![h] =
         [NoCall EXCEPT !.pc = "observed", !.kind = "observe", !.name = n, !.result = seen]]
    BY <1>4 DEF Observe
  <2> PICK seen \in Met(n) : call' = [call EXCEPT ![h] =
         [NoCall EXCEPT !.pc = "observed", !.kind = "observe", !.name = n, !.result = seen]]
    OBVIOUS
  <2>0. seen \in Statuses
    BY ProbeType DEF Met, Statuses
  <2>1. [NoCall EXCEPT !.pc = "observed", !.kind = "observe", !.name = n, !.result = seen]
           \in Calls
    BY <2>0, Defaults DEF Calls
  <2>2. call' \in [Procs -> Calls]
    BY <2>1, CallType
  <2> QED
    BY <1>4, <2>2 DEF Observe, TypeOK, world
<1>5. CASE CheckTracked(h)
  <2> DEFINE c == IF health[call[h].name] = "untracked" THEN NoCall
                  ELSE [call[h] EXCEPT !.pc = "enter"]
  <2>1. c \in Calls
    BY <1>1, Defaults DEF Calls
  <2>2. call' \in [Procs -> Calls]
    BY <1>5, <2>1, CallType DEF CheckTracked
  <2> QED
    BY <1>5, <2>2 DEF CheckTracked, TypeOK, world
<1>6. CASE EnterObservation(h)
  <2>1. call' \in [Procs -> Calls]
    BY <1>6, DoneType DEF EnterObservation
  <2>2. health' \in [Names -> Statuses] /\ kicked' \in BOOLEAN
    BY <1>1, <1>6 DEF EnterObservation, Calls, TypeOK
  <2> QED
    BY <1>6, <2>1, <2>2 DEF EnterObservation, TypeOK, world
<1> QED
  BY <1>2, <1>3, <1>4, <1>5, <1>6

LEMMA TypeInduction == TypeOK /\ [Next]_vars => TypeOK'
<1> SUFFICES ASSUME TypeOK, [Next]_vars PROVE TypeOK'
  OBVIOUS
<1>1. CASE UNCHANGED vars
  BY <1>1 DEF vars, TypeOK
<1>2. CASE Take
  <2>1. [NoCall EXCEPT !.pc = "lock", !.kind = "reconnect", !.name = "plex"] \in Calls
    BY Defaults DEF Calls, Names
  <2>2. call' \in [Procs -> Calls]
    BY <1>2, <2>1, CallType, HandlersAreProcs DEF Take
  <2> QED
    BY <1>2, <2>2 DEF Take, TypeOK, world
<1>3. CASE Outage \/ AccountChange
  BY <1>3 DEF Outage, AccountChange, TypeOK
<1>4. ASSUME NEW p \in Procs, CallStep(p) PROVE TypeOK'
  BY <1>4, ReconnectType, ResolveType, ReloadType, HandlerType DEF CallStep
<1> QED
  BY <1>1, <1>2, <1>3, <1>4, MonitorStepType, ReconnectType, ReloadType, HandlerType,
     HandlersAreProcs DEF Next

-----------------------------------------------------------------------------
\* Each step keeps all generations but the current one off, and the current one,
\* unless it is cancelled, on the live runtime.
LEMMA GenerationInduction == TypeOK /\ OnlyCurrentRuns /\ [Next]_vars => OnlyCurrentRuns'
<1> SUFFICES ASSUME TypeOK, OnlyCurrentRuns, [Next]_vars PROVE OnlyCurrentRuns'
  OBVIOUS
<1>0. current \in Places /\ 1 - current \in Places /\ 1 - current # current
  BY DEF Places, TypeOK
<1>1. CASE UNCHANGED <<rt, current, worker>>
  BY <1>1 DEF OnlyCurrentRuns
<1>2. ASSUME NEW s \in Places, MonitorStep(s) PROVE OnlyCurrentRuns'
  <2>1. worker[s] \in Monitors
    BY DEF TypeOK
  <2>2. CASE s # current
    <3>1. s = 1 - current
      BY <2>2 DEF Places, TypeOK
    <3>2. worker[s].pc = "off"
      BY <3>1 DEF OnlyCurrentRuns
    <3> QED
      BY <1>2, <3>2 DEF MonitorStep, Wake, Probe, Record, Sleep, Exit
  <2>3. CASE s = current
    <3>1. \/ worker'[s].rt = worker[s].rt /\ worker'[s].cancelled = worker[s].cancelled
          \/ worker'[s].pc = "off"
      <4>0. CASE Wake(s)
        <5>1. worker' = [worker EXCEPT ![s] = [worker[s] EXCEPT !.pc = "tick",
                            !.todo = {n \in Names : health[n] # "untracked"}]]
          BY <2>1, <4>0 DEF Wake, Monitors, TypeOK
        <5>2. worker'[s] = [worker[s] EXCEPT !.pc = "tick",
                            !.todo = {n \in Names : health[n] # "untracked"}]
          BY <5>1 DEF TypeOK
        <5> QED
          BY <2>1, <5>2 DEF Monitors
      <4>1. CASE Sleep(s)
        <5>1. worker'[s] = [worker[s] EXCEPT !.pc = "wait"]
          BY <2>1, <4>1 DEF Sleep, Monitors, TypeOK
        <5> QED
          BY <2>1, <5>1 DEF Monitors
      <4>2. CASE Probe(s)
        BY <2>1, <4>2 DEF Probe, Monitors, TypeOK
      <4>3. CASE Record(s)
        BY <2>1, <4>3 DEF Record, Monitors, TypeOK
      <4>4. CASE Exit(s)
        BY <4>4 DEF Exit, NoWorker, TypeOK
      <4> QED
        BY <1>2, <4>0, <4>1, <4>2, <4>3, <4>4 DEF MonitorStep
    <3>2. worker[s].pc # "off"
      BY <1>2 DEF MonitorStep, Wake, Probe, Record, Sleep, Exit
    <3>3. worker'[1 - current] = worker[1 - current] /\ UNCHANGED <<rt, current>>
      BY <1>0, <1>2, <2>3 DEF MonitorStep, Wake, Probe, Record, Sleep, Exit, TypeOK
    <3> QED
      BY <2>3, <3>1, <3>2, <3>3 DEF OnlyCurrentRuns
  <2> QED
    BY <2>2, <2>3
<1>3. ASSUME NEW p \in Procs, StopWorkers(p) PROVE OnlyCurrentRuns'
  <2>1. worker' = [worker EXCEPT ![current] = [worker[current] EXCEPT !.cancelled = TRUE]]
    BY <1>3 DEF StopWorkers, Monitors, TypeOK
  <2>2. worker'[1 - current] = worker[1 - current] /\ worker'[current].cancelled
    BY <1>0, <2>1 DEF Monitors, TypeOK
  <2> QED
    BY <1>3, <2>2 DEF StopWorkers, OnlyCurrentRuns
<1>4. ASSUME NEW p \in Procs, Swap(p) PROVE OnlyCurrentRuns'
  <2>1. current' = 1 - current /\ 1 - current' = current /\ rt' = call[p].next
    BY <1>4 DEF Swap, Launch, Places, TypeOK
  <2>2. worker'[current] = worker[current] /\ worker'[1 - current].rt = rt'
    BY <1>0, <1>4, <2>1 DEF Swap, Launch, Monitor, NoWorker, TypeOK
  <2> QED
    BY <1>4, <2>1, <2>2 DEF Swap, OnlyCurrentRuns
<1>5. ASSUME NEW p \in Procs, CallStep(p), ~Swap(p) PROVE UNCHANGED <<rt, current, worker>>
  BY <1>5 DEF CallStep, Reprobe, RecordReprobe, Resolve, BuildRuntime, SeedHealth, CheckTracked,
              EnterObservation
<1>6. ASSUME NEW h \in Handlers, ReconnectSource(h) \/ Save(h) \/ Observe(h)
      PROVE  UNCHANGED <<rt, current, worker>>
  BY <1>6 DEF ReconnectSource, Save, Observe
<1>7. ASSUME NEW p \in Procs, LockReconnect(p) PROVE UNCHANGED <<rt, current, worker>>
  BY <1>7 DEF LockReconnect
<1>8. CASE Take \/ Outage \/ AccountChange
  BY <1>1, <1>8 DEF Take, Outage, AccountChange
<1>9. CASE UNCHANGED vars
  BY <1>1, <1>9 DEF vars
<1> QED
  BY <1>1, <1>2, <1>3, <1>4, <1>5, <1>6, <1>7, <1>8, <1>9 DEF Next

-----------------------------------------------------------------------------
\* A connection that is resolved, or a URL, is an address, so the runtime built
\* from it has Plex.
LEMMA BuildHasPlex == ASSUME NEW cfg \in Configs, NEW pre \in Addresses \cup {None},
                             pre # None \/ cfg.plex = "url", NEW r \in Build(cfg, pre)
                      PROVE  r.plex # None
<1>1. cfg.url \in Addresses /\ None \notin Addresses
  BY AddressAssumption, ConfigAssumption
<1>2. None \notin Connection(cfg, pre)
  BY <1>1 DEF Connection
<1> QED
  BY <1>2 DEF Build

\* When there are no saves, the settings stay as they are and each step of each
\* call that repairs Plex hands the next one what RepairsHavePlex asks for.
LEMMA RepairInduction == TypeOK /\ RepairsHavePlex /\ [Next]_vars => RepairsHavePlex'
<1> SUFFICES ASSUME TypeOK, RepairsHavePlex, [Next]_vars, "save" \notin events
             PROVE  RepairsHavePlex'
  <2>1. CASE Outage \/ AccountChange \/ UNCHANGED vars
    BY <2>1 DEF Outage, AccountChange, vars, RepairsHavePlex
  <2>2. CASE \E s \in Places : MonitorStep(s)
    BY <2>2 DEF MonitorStep, Wake, Probe, Record, Sleep, Exit, world, RepairsHavePlex
  <2>3. CASE Take \/ \E p \in Procs : LockReconnect(p) \/ StopWorkers(p)
    BY <2>3 DEF Take, LockReconnect, StopWorkers, world, RepairsHavePlex
  <2>4. CASE \E p \in Procs : CallStep(p)
    BY <2>4 DEF CallStep, Reprobe, RecordReprobe, Resolve, BuildRuntime, Swap, Launch, SeedHealth,
                CheckTracked, EnterObservation, world, RepairsHavePlex
  <2>5. CASE \E h \in Handlers : ReconnectSource(h) \/ Save(h) \/ Observe(h)
    BY <2>5 DEF ReconnectSource, Save, Observe, world, RepairsHavePlex
  <2> QED
    BY <2>1, <2>2, <2>3, <2>4, <2>5 DEF Next
<1> DEFINE Good(c) == /\ c.pc = "build" => c.pre # None \/ stored.plex = "url"
                      /\ c.pc \in {"stop", "swap"} => c.next.plex # None
<1>0. Good(NoCall) /\ \A p \in Procs : call[p] \in Calls /\ Good(call[p])
  BY DEF NoCall, RepairsHavePlex, TypeOK
<1>a. UNCHANGED <<events, stored>>
  BY DEF Next, vars, world, MonitorStep, Wake, Probe, Record, Sleep, Exit, Take, LockReconnect,
         StopWorkers, CallStep, Reprobe, RecordReprobe, Resolve, BuildRuntime, Swap, Launch,
         SeedHealth, CheckTracked, EnterObservation, ReconnectSource, Save, Observe, Outage,
         AccountChange
<1>b. ASSUME NEW p \in Procs, NEW c, Good(c), call' = [call EXCEPT ![p] = c]
      PROVE  RepairsHavePlex'
  BY <1>0, <1>a, <1>b DEF RepairsHavePlex, TypeOK
<1>c. CASE UNCHANGED call
  BY <1>a, <1>c DEF RepairsHavePlex
<1>d. ASSUME NEW p \in Procs, Done(p) PROVE RepairsHavePlex'
  BY <1>0, <1>b, <1>d DEF Done
<1>1. CASE UNCHANGED vars
  BY <1>c, <1>1 DEF vars
<1>2. ASSUME NEW s \in Places, MonitorStep(s) PROVE RepairsHavePlex'
  BY <1>c, <1>2 DEF MonitorStep, Wake, Probe, Record, Sleep, Exit
<1>3. CASE Take
  <2> DEFINE c == [NoCall EXCEPT !.pc = "lock", !.kind = "reconnect", !.name = "plex"]
  <2>1. Good(c)
    BY DEF NoCall
  <2> QED
    BY <1>b, <1>3, <2>1, HandlersAreProcs DEF Take
<1>4. ASSUME NEW p \in Procs, LockReconnect(p) PROVE RepairsHavePlex'
  <2> DEFINE c == [call[p] EXCEPT !.pc = IF call[p].name = "plex" THEN "resolve" ELSE "probe"]
  <2>1. Good(c) /\ call' = [call EXCEPT ![p] = c]
    BY <1>0, <1>4 DEF LockReconnect, Calls, TypeOK
  <2> QED
    BY <1>b, <2>1
<1>5. ASSUME NEW p \in Procs, StopWorkers(p) PROVE RepairsHavePlex'
  <2> DEFINE c == [call[p] EXCEPT !.pc = "swap"]
  <2>1. Good(c) /\ call' = [call EXCEPT ![p] = c]
    BY <1>0, <1>5 DEF StopWorkers, Calls, TypeOK
  <2> QED
    BY <1>b, <2>1
<1>6. ASSUME NEW p \in Procs, CallStep(p) PROVE RepairsHavePlex'
  <2>0. call[p] \in Calls /\ stored \in Configs
    BY DEF TypeOK
  <2>1. CASE Reprobe(p)
    <3> DEFINE c == [call[p] EXCEPT !.pc = "record", !.result = ProbeResult(rt, call[p].name)]
    <3>1. Good(c) /\ call' = [call EXCEPT ![p] = c]
      BY <2>0, <2>1 DEF Reprobe, Calls, TypeOK
    <3> QED
      BY <1>b, <3>1
  <2>2. CASE Resolve(p)
    <3>1. CASE stored.plex = "url" /\ call' = [call EXCEPT ![p].pc = "build"]
      <4> DEFINE c == [call[p] EXCEPT !.pc = "build"]
      <4>1. Good(c) /\ call' = [call EXCEPT ![p] = c]
        BY <2>0, <3>1 DEF Calls, TypeOK
      <4> QED
        BY <1>b, <4>1
    <3>2. ASSUME NEW a \in Advertised, call' = [call EXCEPT ![p].pc = "build", ![p].pre = a]
          PROVE  RepairsHavePlex'
      <4> DEFINE c == [call[p] EXCEPT !.pc = "build", !.pre = a]
      <4>1. a # None
        BY AddressAssumption
      <4>2. Good(c) /\ call' = [call EXCEPT ![p] = c]
        BY <2>0, <3>2, <4>1 DEF Calls, TypeOK
      <4> QED
        BY <1>b, <4>2
    <3> QED
      BY <1>d, <2>2, <3>1, <3>2 DEF Resolve
  <2>3. CASE BuildRuntime(p)
    <3>1. call[p].pre \in Addresses \cup {None} /\ (call[p].pre # None \/ stored.plex = "url")
      BY <1>0, <2>0, <2>3 DEF BuildRuntime, Calls
    <3>2. ASSUME NEW r \in Build(stored, call[p].pre),
                 call' = [call EXCEPT ![p].pc = "stop", ![p].next = r, ![p].pre = None]
          PROVE  RepairsHavePlex'
      <4> DEFINE c == [call[p] EXCEPT !.pc = "stop", !.next = r, !.pre = None]
      <4>1. r.plex # None
        BY <2>0, <3>1, BuildHasPlex
      <4>2. Good(c) /\ call' = [call EXCEPT ![p] = c]
        BY <2>0, <3>2, <4>1 DEF Calls, TypeOK
      <4> QED
        BY <1>b, <4>2
    <3> QED
      BY <1>d, <2>3, <3>2 DEF BuildRuntime
  <2>4. CASE Swap(p)
    <3> DEFINE c == [call[p] EXCEPT !.pc = "seed"]
    <3>1. Good(c) /\ call' = [call EXCEPT ![p] = c]
      BY <2>0, <2>4 DEF Swap, Launch, Calls, TypeOK
    <3> QED
      BY <1>b, <3>1
  <2>5. CASE CheckTracked(p)
    <3> DEFINE c == IF health[call[p].name] = "untracked" THEN NoCall
                    ELSE [call[p] EXCEPT !.pc = "enter"]
    <3>1. Good(c) /\ call' = [call EXCEPT ![p] = c]
      BY <1>0, <2>0, <2>5 DEF CheckTracked, Calls, TypeOK
    <3> QED
      BY <1>b, <3>1
  <2>6. CASE RecordReprobe(p) \/ SeedHealth(p) \/ EnterObservation(p)
    BY <1>d, <2>6 DEF RecordReprobe, SeedHealth, EnterObservation
  <2> QED
    BY <1>6, <2>1, <2>2, <2>3, <2>4, <2>5, <2>6 DEF CallStep
<1>7. ASSUME NEW h \in Handlers, ReconnectSource(h) \/ Save(h) \/ Observe(h)
      PROVE  RepairsHavePlex'
  <2>1. CASE ReconnectSource(h)
    <3> PICK n \in Names : call' = [call EXCEPT ![h] =
           [NoCall EXCEPT !.pc = "lock", !.kind = "reconnect", !.name = n]]
      BY <2>1 DEF ReconnectSource
    <3> DEFINE c == [NoCall EXCEPT !.pc = "lock", !.kind = "reconnect", !.name = n]
    <3>1. Good(c) /\ call' = [call EXCEPT ![h] = c]
      BY DEF NoCall
    <3> QED
      BY <1>b, <3>1, HandlersAreProcs
  <2>2. CASE Observe(h)
    <3> PICK n \in Names : \E seen \in Met(n) : call' = [call EXCEPT ![h] =
           [NoCall EXCEPT !.pc = "observed", !.kind = "observe", !.name = n, !.result = seen]]
      BY <2>2 DEF Observe
    <3> PICK seen \in Met(n) : call' = [call EXCEPT ![h] =
           [NoCall EXCEPT !.pc = "observed", !.kind = "observe", !.name = n, !.result = seen]]
      OBVIOUS
    <3> DEFINE c == [NoCall EXCEPT !.pc = "observed", !.kind = "observe", !.name = n,
                                   !.result = seen]
    <3>1. Good(c) /\ call' = [call EXCEPT ![h] = c]
      BY DEF NoCall
    <3> QED
      BY <1>b, <3>1, HandlersAreProcs
  <2> QED
    BY <1>7, <2>1, <2>2 DEF Save
<1>8. CASE Outage \/ AccountChange
  BY <1>c, <1>8 DEF Outage, AccountChange
<1> QED
  BY <1>1, <1>2, <1>3, <1>4, <1>5, <1>6, <1>7, <1>8 DEF Next

-----------------------------------------------------------------------------
\* The first runtime, its monitor and its registry satisfy the invariant.
LEMMA SafetyInit == Init => SafetyInv
<1> SUFFICES ASSUME Init PROVE SafetyInv
  OBVIOUS
<1>1. rt \in Runtimes
  BY BuildType DEF Init
<1>2. Monitor(rt) \in Monitors /\ NoWorker \in Monitors
  BY <1>1, Defaults DEF Monitor, Monitors
<1>3. worker \in [Places -> Monitors] /\ call \in [Procs -> Calls]
  BY <1>2, Defaults DEF Init
<1>4. health \in [Names -> Statuses]
  BY SeededType DEF Init
<1>5. TypeOK
  BY <1>1, <1>3, <1>4 DEF Init, TypeOK, Places
<1>6. OnlyCurrentRuns
  <2>1. worker[0] = Monitor(rt) /\ worker[1] = NoWorker /\ current = 0
    BY DEF Init, Places
  <2>2. Monitor(rt).rt = rt /\ NoWorker.pc = "off"
    BY DEF Monitor, NoWorker
  <2> QED
    BY <2>1, <2>2 DEF OnlyCurrentRuns
<1>7. RepairsHavePlex
  BY DEF Init, RepairsHavePlex, NoCall
<1> QED
  BY <1>5, <1>6, <1>7 DEF SafetyInv

\* The invariant of the service holds in every behaviour.
THEOREM Safety == Spec => []SafetyInv
<1>1. SafetyInv /\ [Next]_vars => SafetyInv'
  BY TypeInduction, GenerationInduction, RepairInduction DEF SafetyInv
<1> QED
  BY <1>1, SafetyInit, PTL DEF Spec

\* The state of reloads, monitors and calls is well-formed in every behaviour; in
\* particular no reload publishes, and no monitor probes, a runtime that was never
\* built.
THEOREM TypeCorrect == Spec => []TypeOK
<1>1. SafetyInv => TypeOK
  BY DEF SafetyInv
<1> QED
  BY <1>1, Safety, PTL

\* Two generations of workers never run side by side, and one that is not
\* cancelled runs on the live runtime, however many calls reload at a time.
THEOREM GenerationsExclude == Spec => []OneGeneration
<1>1. SafetyInv => OneGeneration
  BY DEF SafetyInv, TypeOK, OnlyCurrentRuns, OneGeneration, Places
<1> QED
  BY <1>1, Safety, PTL

\* As long as nobody saves settings, a Plex source that was built is never left
\* out of the runtime by a reconnect, whatever goes down in the middle of it.
THEOREM PlexNeverDropped == Spec => PlexKept
<1>1. SafetyInv /\ [Next]_vars
         => [("save" \notin events /\ rt.plex # None) => rt'.plex # None]_vars
  <2> SUFFICES ASSUME SafetyInv, Next, "save" \notin events, rt.plex # None
               PROVE  rt'.plex # None
    OBVIOUS
  <2>1. CASE UNCHANGED rt
    BY <2>1
  <2>2. ASSUME NEW p \in Procs, Swap(p) PROVE rt'.plex # None
    BY <2>2 DEF Swap, Launch, SafetyInv, RepairsHavePlex
  <2>3. (\E p \in Procs : Swap(p)) \/ UNCHANGED rt
    BY DEF Next, MonitorStep, Wake, Probe, Record, Sleep, Exit, Take, LockReconnect, StopWorkers,
           CallStep, Reprobe, RecordReprobe, Resolve, BuildRuntime, SeedHealth, CheckTracked,
           EnterObservation, ReconnectSource, Save, Observe, Outage, AccountChange
  <2> QED
    BY <2>1, <2>2, <2>3
<1> QED
  BY <1>1, Safety, PTL DEF Spec, PlexKept
=============================================================================
