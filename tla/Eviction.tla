------------------------------ MODULE Eviction ------------------------------
(***************************************************************************)
(* The storage manager's eviction passes: EvictNow run by the background   *)
(* sweeper and by the evict-now command, and EvictItem run by a handler,   *)
(* over one items table and one disk, beside the engine.                   *)
(*                                                                         *)
(* A pass measures, selects and then walks its candidates in separate      *)
(* statements, with a file removal before each of its updates, while       *)
(* downloads finish, sizes are rewritten and other passes run.             *)
(***************************************************************************)
EXTENDS Integers, FiniteSets, FiniteSetsExt

CONSTANTS
    Ids,        \* rows that were queued, in the order of their ids
    Sizes,      \* sizes a download, or a later Queue, may record
    Outside,    \* rows whose local_path is not under the media root
    Sweepers,   \* RunSweeper goroutines
    Commands,   \* evict-now processes
    Handlers,   \* handlers that may call EvictItem
    Policies,   \* hard and soft caps the server's manager may be built with
    EnvPolicy,  \* those of the environment, by which a command goes
    Settings,   \* sets of events, one of which the environment is held to
    MaxClock    \* bound: the clock stops here

Passes == Sweepers \cup Commands \cup Handlers

\* Caps are not negative, and config.Load refuses soft > hard when both are set.
ASSUME IdAssumption == Ids \subseteq Nat /\ IsFiniteSet(Ids) /\ Outside \subseteq Ids
ASSUME SizesAssumption == Sizes \subseteq Nat \ {0}
ASSUME PolicyAssumption ==
    \A c \in Policies \cup {EnvPolicy} :
        /\ c.hard \in Nat /\ c.soft \in Nat
        /\ c.hard > 0 => c.soft <= c.hard
ASSUME PassAssumption ==
    /\ Sweepers \cap Commands = {}
    /\ Handlers \cap (Sweepers \cup Commands) = {}
ASSUME SettingAssumption == Settings \subseteq SUBSET {"command", "manual", "resize", "fault"}
ASSUME ClockAssumption == MaxClock \in Nat

VARIABLES
    rows,    \* of each item: status, size_bytes and completed_at
    file,    \* is the item's file on disk?
    held,    \* rows that the engine has scanned and is downloading
    clock,   \* unixepoch()
    policy,  \* Manager.policy of the server
    events,  \* what the environment may do in this behaviour
    pass,    \* the EvictNow or EvictItem call of each process
    blind    \* history: rows evicted by a call that had found no path in them

vars == <<rows, file, held, clock, policy, events, pass, blind>>

NoPass == [pc |-> "idle", dry |-> FALSE, running |-> 0, target |-> 0, todo |-> {}]

\* 'queued' stands for all that a row may be before it is 'ready', downloading
\* and failed included: its local_path is NULL, and nothing reads its size or age.
Queued == [status |-> "queued", size |-> 0, done |-> 0]
Evicted == [status |-> "evicted", size |-> 0, done |-> 0]

-----------------------------------------------------------------------------
Ready == {i \in Ids : rows[i].status = "ready"}

\* SELECT SUM(size_bytes) FROM items WHERE status = 'ready'.
UsedBytes == MapThenSumSet(LAMBDA i : rows[i].size, Ready)

\* evictionTarget: whether to evict, and down to what.
OverCap(caps, used) ==
    \/ caps.hard > 0 /\ used > caps.hard
    \/ caps.soft > 0 /\ used > caps.soft
Target(caps) == IF caps.soft > 0 THEN caps.soft ELSE (caps.hard * 9) \div 10
PolicyOf(p) == IF p \in Commands THEN EnvPolicy ELSE policy

\* A row as it is read: only a 'ready' one has a local_path.
Candidate(i) ==
    [id |-> i, size |-> rows[i].size, done |-> rows[i].done, path |-> rows[i].status = "ready"]

\* Mutation: ORDER BY id.
ByIdOnly(c, d) == c.id <= d.id

\* ORDER BY completed_at ASC, id ASC.
Precedes(c, d) == c.done < d.done \/ (c.done = d.done /\ c.id <= d.id)

First(todo) == CHOOSE c \in todo : \A d \in todo : Precedes(c, d)

-----------------------------------------------------------------------------
(* EvictNow.                                                               *)

\* RunSweeper's tick: it measures for itself before it calls EvictNow.
SweepTick(p) ==
    /\ p \in Sweepers
    /\ pass[p] = NoPass
    /\ OverCap(policy, UsedBytes)
    /\ pass' = [pass EXCEPT ![p].pc = "measure"]
    /\ UNCHANGED <<rows, file, held, clock, policy, events, blind>>

\* plex-mirror evict-now [--dry-run].
EvictCommand(p) ==
    /\ p \in Commands
    /\ "command" \in events
    /\ pass[p] = NoPass
    /\ \E dry \in BOOLEAN : pass' = [pass EXCEPT ![p].pc = "measure", ![p].dry = dry]
    /\ UNCHANGED <<rows, file, held, clock, policy, events, blind>>

Measure(p) ==
    /\ pass[p].pc = "measure"
    /\ pass' = [pass EXCEPT ![p] =
          IF OverCap(PolicyOf(p), UsedBytes)
          THEN [@ EXCEPT !.pc = "select", !.running = UsedBytes, !.target = Target(PolicyOf(p))]
          ELSE NoPass]
    /\ UNCHANGED <<rows, file, held, clock, policy, events, blind>>

Select(p) ==
    /\ pass[p].pc = "select"
    /\ pass' = [pass EXCEPT ![p].pc = "loop", ![p].todo = {Candidate(i) : i \in Ready}]
    /\ UNCHANGED <<rows, file, held, clock, policy, events, blind>>

\* The loop goes on while usage is above target and candidates are left.
More(p) == /\ pass[p].pc = "loop"
           /\ pass[p].running > pass[p].target
           /\ pass[p].todo # {}

\* Mutation: a path outside the root ends the pass.
RefuseAndStop(p) ==
    /\ More(p)
    /\ First(pass[p].todo).id \in Outside
    /\ pass' = [pass EXCEPT ![p] = NoPass]
    /\ UNCHANGED <<rows, file, held, clock, policy, events, blind>>

\* pathIsUnderRoot refuses the path: the candidate is passed over.
Refuse(p) ==
    /\ More(p)
    /\ First(pass[p].todo).id \in Outside
    /\ pass' = [pass EXCEPT ![p].todo = @ \ {First(@)}]
    /\ UNCHANGED <<rows, file, held, clock, policy, events, blind>>

\* A dry run only counts.
Count(p) ==
    /\ More(p)
    /\ pass[p].dry
    /\ First(pass[p].todo).id \notin Outside
    /\ pass' = [pass EXCEPT ![p].running = @ - First(pass[p].todo).size,
                            ![p].todo = @ \ {First(@)}]
    /\ UNCHANGED <<rows, file, held, clock, policy, events, blind>>

\* Mutation: a path outside the root is removed like any other.
RemoveAnywhere(p) ==
    /\ More(p)
    /\ ~pass[p].dry
    /\ file' = [file EXCEPT ![First(pass[p].todo).id] = FALSE]
    /\ pass' = [pass EXCEPT ![p].pc = "flip"]
    /\ UNCHANGED <<rows, held, clock, policy, events, blind>>

\* Mutation: the row is flipped before its file is removed.
FlipBeforeRemove(p) ==
    LET c == First(pass[p].todo) IN
    /\ More(p)
    /\ ~pass[p].dry
    /\ c.id \notin Outside
    /\ rows' = [rows EXCEPT ![c.id] = Evicted]
    /\ pass' = [pass EXCEPT ![p].pc = "flip"]
    /\ UNCHANGED <<file, held, clock, policy, events, blind>>

\* os.Remove, whose failure is logged and ignored.
Remove(p) ==
    /\ More(p)
    /\ ~pass[p].dry
    /\ First(pass[p].todo).id \notin Outside
    /\ \/ file' = [file EXCEPT ![First(pass[p].todo).id] = FALSE]
       \/ "fault" \in events /\ UNCHANGED file
    /\ pass' = [pass EXCEPT ![p].pc = "flip"]
    /\ UNCHANGED <<rows, held, clock, policy, events, blind>>

\* A row is evicted over what it has become since it was read without a path.
Blinded(c) ==
    IF c.path THEN blind \ {c.id}
    ELSE IF rows[c.id].status = "evicted" THEN blind ELSE blind \cup {c.id}

\* Mutation: running is not brought down.
FlipUncounted(p) ==
    LET c == First(pass[p].todo) IN
    /\ pass[p].pc = "flip"
    /\ rows' = [rows EXCEPT ![c.id] = Evicted]
    /\ pass' = [pass EXCEPT ![p].pc = "loop", ![p].todo = @ \ {c}]
    /\ blind' = Blinded(c)
    /\ UNCHANGED <<file, held, clock, policy, events>>

\* UPDATE items SET status = 'evicted' WHERE id = ?.
Flip(p) ==
    LET c == First(pass[p].todo) IN
    /\ pass[p].pc = "flip"
    /\ rows' = [rows EXCEPT ![c.id] = Evicted]
    /\ pass' = [pass EXCEPT ![p].pc = "loop", ![p].todo = @ \ {c},
                            ![p].running = @ - c.size]
    /\ blind' = Blinded(c)
    /\ UNCHANGED <<file, held, clock, policy, events>>

Finish(p) ==
    /\ pass[p].pc = "loop"
    /\ ~More(p)
    /\ pass' = [pass EXCEPT ![p] = NoPass]
    /\ UNCHANGED <<rows, file, held, clock, policy, events, blind>>

\* A statement fails, because the database does or because a reload, a
\* shutdown or a departed client has cancelled its context: the pass returns.
Abort(p) ==
    /\ "fault" \in events
    /\ pass[p].pc \in {"measure", "select", "flip"}
    /\ pass' = [pass EXCEPT ![p] = NoPass]
    /\ UNCHANGED <<rows, file, held, clock, policy, events, blind>>

-----------------------------------------------------------------------------
\* EvictItem by id, whatever the status: a pass over one candidate, with no
\* target.  A path outside the root is refused; without a path there is nothing
\* to remove.
EvictItem(p) ==
    /\ p \in Handlers
    /\ "manual" \in events
    /\ pass[p] = NoPass
    /\ \E i \in Ids :
          /\ i \in Ready => i \notin Outside
          /\ pass' = [pass EXCEPT ![p] = [NoPass EXCEPT
                !.pc = IF i \in Ready THEN "loop" ELSE "flip", !.target = -1, !.todo = {Candidate(i)}]]
    /\ UNCHANGED <<rows, file, held, clock, policy, events, blind>>

-----------------------------------------------------------------------------
(* The engine, and what it writes over an eviction.                        *)

\* RunOnce's scan.
Hold(i) ==
    /\ rows[i].status = "queued" /\ i \notin held
    /\ held' = held \cup {i}
    /\ UNCHANGED <<rows, file, clock, policy, events, pass, blind>>

\* A download marks its row 'downloading', by id, evicted or not ...
Mark(i) ==
    /\ i \in held
    /\ rows' = [rows EXCEPT ![i] = Queued]
    /\ UNCHANGED <<file, held, clock, policy, events, pass, blind>>

\* ... imports its file ...
Import(i) ==
    /\ i \in held
    /\ file' = [file EXCEPT ![i] = TRUE]
    /\ UNCHANGED <<rows, held, clock, policy, events, pass, blind>>

\* ... and makes the row 'ready', evicted or not.
RecordReady(i) ==
    /\ i \in held /\ file[i]
    /\ \E s \in Sizes : rows' = [rows EXCEPT ![i] = [status |-> "ready", size |-> s, done |-> clock]]
    /\ held' = held \ {i}
    /\ UNCHANGED <<file, clock, policy, events, pass, blind>>

\* Or it fails, which it may or may not be able to write, or is stopped: once the
\* file is in place, only by a failure.
Leave(i) ==
    /\ i \in held
    /\ file[i] => "fault" \in events
    /\ rows' \in {rows, [rows EXCEPT ![i] = Queued]}
    /\ held' = held \ {i}
    /\ UNCHANGED <<file, clock, policy, events, pass, blind>>

\* Engine.Queue of an item that is 'ready': its upsert rewrites size_bytes.
Requeue(i) ==
    /\ "resize" \in events
    /\ rows[i].status = "ready"
    /\ \E s \in Sizes : rows' = [rows EXCEPT ![i].size = s]
    /\ UNCHANGED <<file, held, clock, policy, events, pass, blind>>

Tick ==
    /\ clock < MaxClock
    /\ clock' = clock + 1
    /\ UNCHANGED <<rows, file, held, policy, events, pass, blind>>

-----------------------------------------------------------------------------
Init ==
    /\ rows = [i \in Ids |-> Queued]
    /\ file = [i \in Ids |-> FALSE]
    /\ held = {}
    /\ clock = 0
    /\ policy \in Policies
    /\ events \in Settings
    /\ pass = [p \in Passes |-> NoPass]
    /\ blind = {}

\* One step of a pass once it has begun.
PassStep(p) ==
    \/ Measure(p) \/ Select(p) \/ Refuse(p) \/ Count(p) \/ Remove(p) \/ Flip(p) \/ Finish(p)

Next ==
    \/ \E p \in Passes : SweepTick(p) \/ EvictCommand(p) \/ EvictItem(p) \/ PassStep(p) \/ Abort(p)
    \/ \E i \in Ids : Hold(i) \/ Mark(i) \/ Import(i) \/ RecordReady(i) \/ Leave(i) \/ Requeue(i)
    \/ Tick

Spec == Init /\ [][Next]_vars

\* The ticker ticks and a pass that has begun goes on.
FairSpec ==
    /\ Spec
    /\ \A p \in Sweepers : WF_vars(SweepTick(p))
    /\ \A p \in Passes : WF_vars(PassStep(p))

-----------------------------------------------------------------------------
(* Properties.                                                             *)

Candidates == [id : Ids, size : Nat, done : Nat, path : BOOLEAN]
RowsOf == [status : {"queued", "ready", "evicted"}, size : Nat, done : Nat]

\* Types; a pass at its UPDATE has a candidate, whose path, if any, is under the root.
TypeOK ==
    /\ rows \in [Ids -> RowsOf]
    /\ file \in [Ids -> BOOLEAN]
    /\ held \subseteq Ids /\ blind \subseteq Ids
    /\ clock \in Nat
    /\ policy \in Policies
    /\ events \in Settings
    /\ pass \in [Passes -> [pc : {"idle", "measure", "select", "loop", "flip"}, dry : BOOLEAN,
                            running : Int, target : Int, todo : SUBSET Candidates]]
    /\ \A p \in Passes : pass[p].pc = "flip" =>
          /\ pass[p].todo # {}
          /\ First(pass[p].todo).path => First(pass[p].todo).id \notin Outside

\* The file goes with the row: unless a removal or an UPDATE fails, a row that is
\* evicted has no file left on disk, and a 'ready' row has one or is about to be
\* flipped by a pass that has just removed it.  Any number of passes may hold the
\* same candidates, and the engine may be downloading what a handler evicts.  Left out
\* are rows that EvictItem loaded before they had a path: if the download ends before
\* the UPDATE, the row is evicted and the file stays.
FileGoesWithRow ==
    "fault" \notin events => \A i \in Ids :
        /\ rows[i].status = "evicted" /\ i \notin blind => ~file[i]
        /\ rows[i].status = "ready" /\ ~file[i] =>
              \E p \in Passes : pass[p].pc = "flip" /\ First(pass[p].todo).id = i

\* "A background sweeper evicts oldest-first": a pass never evicts an item while
\* an older one that it may evict is 'ready', even if items became 'ready', were
\* evicted by another pass, or lost their file to a pass that died, after the
\* candidates were read.
OldestFirst ==
    [][\A i \in Ids : rows[i].status = "ready" /\ rows'[i].status = "evicted" /\ "manual" \notin events =>
          \A j \in Ready \ Outside : rows[i].done <= rows[j].done]_vars

\* A single pass at a time, the sweeper's, and sizes left alone.
Alone ==
    /\ events \cap {"command", "manual", "resize"} = {}
    /\ \A p, q \in Sweepers : p = q

\* Eviction stops at the target: with a single pass at a time and sizes left
\* alone, nothing is evicted once the bytes really in use are down to it.  The
\* pass goes by a sum it read two statements earlier, so this needs that sum
\* never to exceed the real one.
StopsAtTarget ==
    [][\A i \in Ids :
          Alone /\ rows[i].status = "ready" /\ rows'[i].status = "evicted" => UsedBytes > Target(policy)]_vars

\* "... to stay under cap": usage over a cap is brought back under it, or down
\* to rows whose files may not be removed, if statements and removals succeed.
CapEnforced ==
    "fault" \notin events =>
        OverCap(policy, UsedBytes) ~> (~OverCap(policy, UsedBytes) \/ Ready \subseteq Outside)
=============================================================================
