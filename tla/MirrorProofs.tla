---------------------------- MODULE MirrorProofs ----------------------------
(* Mirror's safety for every set of items, slots, handlers and paths.      *)
EXTENDS Mirror, TLAPS

\* The values rows, slots and handlers start from and go back to.
LEMMA Defaults == NoRow \in Rows /\ Idle \in Slots /\ NoRequest \in Calls
<1>1. NoRow \in Rows
  BY DEF NoRow, Rows, Statuses
<1>2. Idle \in Slots
  BY RetryAssumption DEF Idle, Slots
<1>3. NoRequest \in Calls
  BY DEF NoRequest, Calls
<1> QED
  BY <1>1, <1>2, <1>3

\* A slot that is freed, and a row whose status is set, keep their types.
LEMMA ReturnType == ASSUME TypeOK, NEW w \in Workers, Return(w)
                    PROVE  worker' \in [Workers -> Slots]
  BY Defaults DEF Return, TypeOK

LEMMA SetStatusType == ASSUME TypeOK, NEW i, NEW s \in Statuses
                       PROVE  SetStatus(i, s) \in [Keys -> Rows]
  BY DEF SetStatus, TypeOK, Rows

LEMMA FailType == ASSUME TypeOK, NEW w \in Workers, Fail(w)
                  PROVE  rows' \in [Keys -> Rows] /\ worker' \in [Workers -> Slots]
<1>1. SetStatus(worker[w].id, "error") \in [Keys -> Rows]
  BY SetStatusType DEF Statuses
<1>2. rows' \in [Keys -> Rows]
  BY <1>1 DEF Fail, Commit, TypeOK
<1> QED
  BY <1>2, ReturnType DEF Fail

\* Replacing one slot, or one file, by one of the same type.
LEMMA SlotType == ASSUME TypeOK, NEW w \in Workers, NEW s \in Slots,
                         worker' = [worker EXCEPT ![w] = s]
                  PROVE  worker' \in [Workers -> Slots]
  BY DEF TypeOK

-----------------------------------------------------------------------------
\* Each action preserves the type invariant.
LEMMA TypeInduction == TypeOK /\ [Next]_vars => TypeOK'
<1> SUFFICES ASSUME TypeOK, [Next]_vars PROVE TypeOK'
  OBVIOUS
<1> USE SizeAssumption, DestinationAssumption, RetryAssumption, NoneAssumption
<1>1. CASE UNCHANGED vars
  BY <1>1 DEF vars, TypeOK
<1>2. ASSUME NEW k \in Keys, Queue(k) PROVE TypeOK'
  <2>1. SizeOf[upstream[k]] \in Nat
    BY DEF TypeOK
  <2>2. rows' \in [Keys -> Rows] /\ nextId' \in Nat \ {0}
    <3>1. CASE rows[k].status = "none"
      <4> DEFINE new == [id |-> nextId, status |-> "queued",
                         size |-> SizeOf[upstream[k]], path |-> None]
      <4>1. new \in Rows
        BY <2>1 DEF TypeOK, Rows, Statuses
      <4>2. rows' = [rows EXCEPT ![k] = new] /\ nextId' = nextId + 1
        BY <1>2, <3>1 DEF Queue
      <4> QED
        BY <4>1, <4>2 DEF TypeOK
    <3>2. CASE rows[k].status # "none"
      <4> DEFINE new == [rows[k] EXCEPT !.size = SizeOf[upstream[k]],
                                        !.status = IF @ = "error" THEN "queued" ELSE @]
      <4>1. rows[k] \in Rows
        BY DEF TypeOK
      <4>2. new \in Rows
        BY <2>1, <4>1 DEF Rows, Statuses
      <4>3. rows' = [rows EXCEPT ![k] = new] /\ nextId' = nextId
        BY <1>2, <3>2, <4>1 DEF Queue, Rows, TypeOK
      <4> QED
        BY <4>2, <4>3 DEF TypeOK
    <3> QED
      BY <3>1, <3>2
  <2> QED
    BY <1>2, <2>2 DEF Queue, TypeOK
<1>3. ASSUME NEW k \in Keys, Replace(k) PROVE TypeOK'
  BY <1>3 DEF Replace, TypeOK
<1>4. ASSUME NEW w \in Workers, Dispatch(w) PROVE TypeOK'
  <2>1. worker' \in [Workers -> Slots]
    <3>1. CASE UNCHANGED worker
      BY <3>1 DEF TypeOK
    <3>2. ASSUME NEW i \in batch, NEW k \in Keys,
                 worker' = [worker EXCEPT ![w] =
                    [Idle EXCEPT !.pc = "resolve", !.id = i, !.key = k, !.size = rows[k].size]]
          PROVE  worker' \in [Workers -> Slots]
      <4> DEFINE s == [Idle EXCEPT !.pc = "resolve", !.id = i, !.key = k,
                                   !.size = rows[k].size]
      <4>1. i \in Nat /\ rows[k].size \in Nat
        BY DEF TypeOK, Rows
      <4>2. s \in Slots
        BY <4>1, Defaults DEF Slots
      <4> QED
        BY <3>2, <4>2, SlotType
    <3> QED
      BY <1>4, <3>1, <3>2 DEF Dispatch
  <2> QED
    BY <1>4, <2>1 DEF Dispatch, TypeOK
<1>5. ASSUME NEW w \in Workers, Resolve(w) PROVE TypeOK'
  <2>1. rows' \in [Keys -> Rows] /\ worker' \in [Workers -> Slots]
    <3>1. ASSUME NEW p \in Destinations[worker[w].key],
                 worker' = [worker EXCEPT ![w].pc = "mark", ![w].path = p],
                 UNCHANGED rows
          PROVE  rows' \in [Keys -> Rows] /\ worker' \in [Workers -> Slots]
      <4> DEFINE s == [worker[w] EXCEPT !.pc = "mark", !.path = p]
      <4>1. worker[w] \in Slots /\ worker[w].pc = "resolve"
        BY <1>5 DEF Resolve, TypeOK
      <4>2. p \in Paths
        BY <4>1 DEF Slots
      <4>3. s \in Slots
        BY <4>1, <4>2 DEF Slots
      <4>4. worker' = [worker EXCEPT ![w] = s]
        BY <3>1, <4>1 DEF Slots, TypeOK
      <4> QED
        BY <3>1, <4>3, <4>4, SlotType DEF TypeOK
    <3>2. ASSUME Return(w), UNCHANGED rows
          PROVE  rows' \in [Keys -> Rows] /\ worker' \in [Workers -> Slots]
      BY <3>2, ReturnType DEF TypeOK
    <3> QED
      BY <1>5, <3>1, <3>2, FailType DEF Resolve
  <2> QED
    BY <1>5, <2>1 DEF Resolve, TypeOK
<1>6. ASSUME NEW w \in Workers, Mark(w) PROVE TypeOK'
  <2>1. rows' \in [Keys -> Rows] /\ worker' \in [Workers -> Slots]
    <3> DEFINE n == IF partial[worker[w].key] = None THEN 0 ELSE Len(partial[worker[w].key])
               s == [worker[w] EXCEPT !.pc = "fetch", !.at = n]
    <3>1. worker[w] \in Slots /\ worker[w].pc = "mark"
      BY <1>6 DEF Mark, TypeOK
    <3>2. CASE rows' = SetStatus(worker[w].id, "downloading") /\ worker' = [worker EXCEPT ![w] = s]
      <4>1. partial[worker[w].key] \in Files
        BY <3>1 DEF TypeOK, Slots
      <4>2. n \in Nat
        BY <4>1 DEF Files
      <4>3. s \in Slots
        BY <3>1, <4>2 DEF Slots
      <4> QED
        BY <3>2, <4>3, SlotType, SetStatusType DEF Statuses
    <3>3. CASE Return(w) /\ UNCHANGED rows
      BY <3>3, ReturnType DEF TypeOK
    <3>4. worker' = [worker EXCEPT ![w].pc = "fetch", ![w].at = n]
          => worker' = [worker EXCEPT ![w] = s]
      BY <3>1 DEF Slots, TypeOK
    <3> QED
      BY <1>6, <3>2, <3>3, <3>4 DEF Mark
  <2> QED
    BY <1>6, <2>1 DEF Mark, TypeOK
<1>7. ASSUME NEW w \in Workers, Fetch(w) PROVE TypeOK'
  <2> DEFINE k == worker[w].key
  <2>1. worker[w] \in Slots /\ worker[w].pc = "fetch" /\ k \in Keys
    BY <1>7 DEF Fetch, TypeOK, Slots
  <2>2. /\ rows' \in [Keys -> Rows]
        /\ worker' \in [Workers -> Slots]
        /\ partial' \in [Keys -> Files]
    <3>1. CASE RespondFull(w)
      <4> DEFINE s == [worker[w] EXCEPT !.pc = "copy", !.at = 0, !.ver = upstream[k]]
      <4>1. upstream[k] \in Versions
        BY <2>1 DEF TypeOK
      <4>2. s \in Slots
        BY <2>1, <4>1 DEF Slots
      <4>3. worker' = [worker EXCEPT ![w] = s]
        BY <2>1, <3>1 DEF RespondFull, TypeOK, Slots
      <4> QED
        BY <2>1, <3>1, <4>2, <4>3, SlotType DEF RespondFull, TypeOK, Files
    <3>2. CASE RespondRange(w)
      <4> DEFINE s == [worker[w] EXCEPT !.pc = "copy", !.ver = upstream[k]]
      <4>1. s \in Slots
        BY <2>1 DEF Slots, TypeOK
      <4>2. CASE Fail(w) /\ UNCHANGED partial
        BY <4>2, FailType DEF TypeOK
      <4>3. CASE ~(Fail(w) /\ UNCHANGED partial)
        <5>1. worker' = [worker EXCEPT ![w] = s] /\ UNCHANGED rows
          BY <2>1, <3>2, <4>3 DEF RespondRange, TypeOK, Slots
        <5> DEFINE g == IF partial[k] = None THEN <<>> ELSE partial[k]
        <5>2. g \in Files
          BY <2>1 DEF TypeOK, Files
        <5>3. partial' = [partial EXCEPT ![k] = g]
          BY <3>2, <4>3 DEF RespondRange
        <5>4. partial' \in [Keys -> Files]
          BY <5>2, <5>3 DEF TypeOK
        <5> QED
          BY <4>1, <5>1, <5>4, SlotType DEF TypeOK
      <4> QED
        BY <4>2, <4>3
    <3>3. CASE RespondUnsatisfiable(w)
      <4> DEFINE s == [worker[w] EXCEPT !.pc = "import"]
      <4>1. s \in Slots
        BY <2>1 DEF Slots
      <4> QED
        BY <3>3, <4>1, FailType, SlotType DEF RespondUnsatisfiable, TypeOK
    <3>4. CASE Fail(w) /\ UNCHANGED partial
      BY <3>4, FailType DEF TypeOK
    <3>5. CASE worker' = [worker EXCEPT ![w].pc = "backoff"] /\ UNCHANGED <<rows, partial>>
      <4> DEFINE s == [worker[w] EXCEPT !.pc = "backoff"]
      <4>1. s \in Slots
        BY <2>1 DEF Slots
      <4> QED
        BY <3>5, <4>1, SlotType DEF TypeOK
    <3> QED
      BY <1>7, <3>1, <3>2, <3>3, <3>4, <3>5 DEF Fetch
  <2> QED
    BY <1>7, <2>2 DEF Fetch, TypeOK
<1>8. ASSUME NEW w \in Workers, ReadBlock(w) PROVE TypeOK'
  <2> DEFINE k == worker[w].key
             v == worker[w].ver
             b == <<v, worker[w].at + 1>>
             s == [worker[w] EXCEPT !.at = @ + 1]
  <2>1. worker[w] \in Slots /\ worker[w].pc = "copy"
    BY <1>8 DEF ReadBlock, TypeOK
  <2>2. k \in Keys /\ b \in Blocks /\ s \in Slots
    <3>1. k \in Keys /\ v \in Versions /\ worker[w].at \in Nat
      BY <2>1 DEF Slots
    <3>2. b \in Blocks
      BY <3>1 DEF Blocks
    <3>3. s \in Slots
      BY <2>1, <3>1 DEF Slots
    <3> QED
      BY <3>1, <3>2, <3>3
  <2>3. partial' \in [Keys -> Files]
    <3>1. partial[k] # None => Append(partial[k], b) \in Seq(Blocks)
      BY <2>2 DEF TypeOK, Files
    <3> QED
      BY <1>8, <2>2, <3>1 DEF ReadBlock, TypeOK, Files
  <2>4. worker' = [worker EXCEPT ![w] = s]
    BY <1>8, <2>1 DEF ReadBlock, TypeOK, Slots
  <2>5. worker' \in [Workers -> Slots]
    BY <2>2, <2>4, SlotType
  <2> QED
    BY <1>8, <2>3, <2>5 DEF ReadBlock, TypeOK
<1>9. ASSUME NEW w \in Workers, EndBody(w) PROVE TypeOK'
  <2> DEFINE s(pc) == [worker[w] EXCEPT !.pc = pc, !.ver = None]
  <2>1. worker[w] \in Slots /\ worker[w].pc = "copy"
    BY <1>9 DEF EndBody, TypeOK
  <2>2. s("import") \in Slots /\ s("backoff") \in Slots
    BY <2>1 DEF Slots
  <2>3. worker' = [worker EXCEPT ![w] = s("import")] \/ worker' = [worker EXCEPT ![w] = s("backoff")]
    BY <1>9, <2>1 DEF EndBody, TypeOK, Slots
  <2>4. worker' \in [Workers -> Slots]
    BY <2>2, <2>3, SlotType
  <2> QED
    BY <1>9, <2>4 DEF EndBody, TypeOK
<1>10. ASSUME NEW w \in Workers, Backoff(w) PROVE TypeOK'
  <2> DEFINE f == partial[worker[w].key]
             n == IF f = None THEN worker[w].at ELSE Len(f)
             s == [worker[w] EXCEPT !.pc = "fetch", !.tries = @ + 1, !.at = n]
  <2>1. worker[w] \in Slots /\ worker[w].pc = "backoff"
    BY <1>10 DEF Backoff, TypeOK
  <2>2. f \in Files /\ n \in Nat
    BY <2>1 DEF Slots, TypeOK, Files
  <2>3. CASE Fail(w)
    BY <1>10, <2>3, FailType DEF Backoff, TypeOK
  <2>4. CASE ~Fail(w)
    <3>1. worker[w].tries + 1 < RetryAttempts /\ UNCHANGED rows
      BY <1>10, <2>4 DEF Backoff
    <3>2. s \in Slots
      <4>1. worker[w].tries + 1 \in 0..RetryAttempts
        BY <2>1, <3>1 DEF Slots
      <4>2. worker[w].key \in Keys /\ worker[w].path \in Paths
        BY <2>1 DEF Slots
      <4>3. s.pc = "fetch" /\ s.key = worker[w].key /\ s.path = worker[w].path
        BY <2>1 DEF Slots
      <4> QED
        BY <2>1, <2>2, <4>1, <4>2, <4>3 DEF Slots
    <3>3. worker' = [worker EXCEPT ![w] = s]
      BY <1>10, <2>1, <2>4 DEF Backoff, TypeOK, Slots
    <3>4. worker' \in [Workers -> Slots]
      BY <3>2, <3>3, SlotType
    <3> QED
      BY <1>10, <3>1, <3>4 DEF Backoff, TypeOK
  <2> QED
    BY <2>3, <2>4
<1>11. ASSUME NEW w \in Workers, Interrupted(w) PROVE TypeOK'
  BY <1>11, ReturnType DEF Interrupted, TypeOK
<1>12. ASSUME NEW w \in Workers, Import(w) PROVE TypeOK'
  <2> DEFINE k == worker[w].key
             s == [worker[w] EXCEPT !.pc = "record"]
  <2>1. worker[w] \in Slots /\ worker[w].pc = "import"
    BY <1>12 DEF Import, TypeOK
  <2>2. k \in Keys /\ s \in Slots
    BY <2>1 DEF Slots
  <2>3. CASE Fail(w) /\ UNCHANGED <<partial, final>>
    BY <1>12, <2>3, FailType DEF Import, TypeOK
  <2>4. CASE ~(Fail(w) /\ UNCHANGED <<partial, final>>)
    <3>1. worker' = [worker EXCEPT ![w] = s] /\ UNCHANGED rows
      BY <1>12, <2>1, <2>4 DEF Import, TypeOK, Slots
    <3>2. partial' \in [Keys -> Files] /\ final' \in [Paths -> Files]
      BY <1>12, <2>2, <2>4 DEF Import, TypeOK, Files
    <3>3. worker' \in [Workers -> Slots]
      BY <2>2, <3>1, SlotType
    <3> QED
      BY <1>12, <3>1, <3>2, <3>3 DEF Import, TypeOK
  <2> QED
    BY <2>3, <2>4
<1>13. ASSUME NEW w \in Workers, Record(w) PROVE TypeOK'
  <2> DEFINE k == worker[w].key
             new == [id |-> IF rows[k].status = "none" THEN nextId ELSE rows[k].id,
                     status |-> "ready", size |-> worker[w].size, path |-> worker[w].path]
  <2>1. worker[w] \in Slots /\ worker[w].pc = "record"
    BY <1>13 DEF Record, TypeOK
  <2>2. k \in Keys /\ worker[w].path \in Paths /\ worker[w].size \in Nat
    BY <2>1 DEF Slots
  <2>3. new \in Rows
    BY <2>2 DEF Rows, Statuses, TypeOK
  <2>4. \/ rows' = [rows EXCEPT ![k] = new] /\ nextId' \in {nextId, nextId + 1}
        \/ UNCHANGED <<rows, nextId>>
    BY <1>13 DEF Record
  <2>5. rows' \in [Keys -> Rows] /\ nextId' \in Nat \ {0}
    <3> HIDE DEF new
    <3>1. CASE rows' = [rows EXCEPT ![k] = new] /\ nextId' \in {nextId, nextId + 1}
      <4>1. rows \in [Keys -> Rows] /\ nextId \in Nat \ {0}
        BY DEF TypeOK
      <4>2. nextId' \in Nat \ {0}
        BY <3>1, <4>1
      <4>3. rows' \in [Keys -> Rows]
        BY <2>3, <3>1, <4>1
      <4> QED
        BY <4>2, <4>3
    <3>2. CASE UNCHANGED <<rows, nextId>>
      BY <3>2 DEF TypeOK
    <3> QED
      BY <2>4, <3>1, <3>2
  <2> QED
    BY <1>13, <2>5, ReturnType DEF Record, TypeOK
<1>14. ASSUME NEW r \in Requests, CancelCheck(r) PROVE TypeOK'
  BY <1>14 DEF CancelCheck, TypeOK, Rows, Calls
<1>15. ASSUME NEW r \in Requests, CancelDelete(r) PROVE TypeOK'
  BY <1>15, Defaults DEF CancelDelete, TypeOK, Calls
<1>16. ASSUME NEW r \in Requests, CancelUnlink(r) PROVE TypeOK'
  BY <1>16, Defaults DEF CancelUnlink, TypeOK, Files
<1>17. ASSUME NEW r \in Requests, EvictLoad(r) PROVE TypeOK'
  BY <1>17 DEF EvictLoad, TypeOK, Rows, Calls
<1>18. ASSUME NEW r \in Requests, EvictRemove(r) PROVE TypeOK'
  BY <1>18 DEF EvictRemove, TypeOK, Files, Calls
<1>19. ASSUME NEW r \in Requests, EvictFlip(r) PROVE TypeOK'
  <2>1. \A k \in Keys : [rows[k] EXCEPT !.status = "evicted", !.path = None] \in Rows
    BY DEF TypeOK, Rows, Statuses
  <2>2. rows' \in [Keys -> Rows]
    BY <1>19, <2>1 DEF EvictFlip, TypeOK
  <2> QED
    BY <1>19, <2>2, Defaults DEF EvictFlip, TypeOK
<1>20. ASSUME NEW r \in Requests, RequestAborts(r) PROVE TypeOK'
  BY <1>20, Defaults DEF RequestAborts, TypeOK
<1>21. CASE ScanQueued
  BY <1>21 DEF ScanQueued, TypeOK, Rows
<1>22. CASE AbandonBatch
  BY <1>22 DEF AbandonBatch, TypeOK
<1>23. CASE Reload
  BY <1>23 DEF Reload, TypeOK
<1>24. CASE Relaunch \/ Start
  <2>1. ResetStaleDownloads \in [Keys -> Rows]
    BY DEF ResetStaleDownloads, TypeOK, Rows, Statuses
  <2> QED
    BY <1>24, <2>1 DEF Relaunch, Start, TypeOK
<1>25. CASE Crash
  BY <1>25, Defaults DEF Crash, TypeOK
<1> QED
  BY <1>1, <1>2, <1>3, <1>4, <1>5, <1>6, <1>7, <1>8, <1>9, <1>10, <1>11, <1>12, <1>13, <1>14,
     <1>15, <1>16, <1>17, <1>18, <1>19, <1>20, <1>21, <1>22, <1>23, <1>24, <1>25
     DEF Next, DownloadStep, RequestStep

\* Every reachable state of the mirror has the types TypeOK gives it.
THEOREM TypeCorrect == Spec => []TypeOK
<1>1. Init => TypeOK
  BY Defaults DEF Init, TypeOK, Files
<1> QED
  BY <1>1, TypeInduction, PTL DEF Spec

-----------------------------------------------------------------------------
(* Who holds an item.  SingleWriter is inductive only together with what    *)
(* ids identify: every step but a scan, a dispatch and an INSERT is quiet,  *)
(* in that it takes no new id and moves no id to another key.               *)

HolderInv == IdsIdentify /\ SlotsIdentify /\ BatchWaits /\ SingleWriter /\ SizesDeclared

\* The rows keep their ids and sizes; they may change status.
RowsKept == \A k \in Keys : /\ rows'[k].id = rows[k].id
                            /\ rows'[k].size = rows[k].size
                            /\ rows'[k].status = "none" <=> rows[k].status = "none"

\* A slot that is busy afterwards was busy before, with the same item.
SlotsKept == \A w \in Workers : Busy(w)' => /\ Busy(w)
                                            /\ worker'[w].id = worker[w].id
                                            /\ worker'[w].key = worker[w].key
                                            /\ worker'[w].size = worker[w].size

LEMMA QuietStep == ASSUME HolderInv, RowsKept, SlotsKept,
                          batch' \subseteq batch, nextId' = nextId
                   PROVE  HolderInv'
<1> USE DEF HolderInv, RowsKept, SlotsKept
<1>1. IdsIdentify'
  BY DEF IdsIdentify
<1>2. SlotsIdentify'
  BY DEF SlotsIdentify
<1>3. BatchWaits'
  BY DEF BatchWaits
<1>4. SingleWriter'
  BY DEF SingleWriter
<1>5. SizesDeclared'
  BY DEF SizesDeclared
<1> QED
  BY <1>1, <1>2, <1>3, <1>4, <1>5

LEMMA UnchangedRows == ASSUME rows' = rows PROVE RowsKept
  BY DEF RowsKept

LEMMA SetStatusKeeps == ASSUME TypeOK, NEW i \in Nat, i # 0, NEW s \in Statuses, s # "none",
                               IdsIdentify, rows' = SetStatus(i, s)
                        PROVE  RowsKept
  BY DEF SetStatus, RowsKept, TypeOK, Rows, IdsIdentify

\* Slot w goes on with its item.
Advances(w) == \E s : /\ worker' = [worker EXCEPT ![w] = s]
                      /\ s.pc # "idle"
                      /\ s.id = worker[w].id
                      /\ s.key = worker[w].key
                      /\ s.size = worker[w].size

\* A step of the Download in slot w leaves the other slots alone, and slot w
\* keeps its item or is freed; the rows keep their ids, unless it is Record.
LEMMA ReturnKeeps == ASSUME TypeOK, NEW w \in Workers, Return(w) PROVE SlotsKept
  BY DEF Return, SlotsKept, Busy, Idle, TypeOK

LEMMA AdvanceKeeps == ASSUME TypeOK, NEW w \in Workers, Busy(w), Advances(w) PROVE SlotsKept
  BY DEF Advances, SlotsKept, Busy, TypeOK

LEMMA FailKeeps == ASSUME TypeOK, HolderInv, NEW w \in Workers, Busy(w), Fail(w)
                   PROVE  RowsKept /\ SlotsKept
<1>1. worker[w].id \in Nat /\ worker[w].id # 0
  BY DEF HolderInv, SlotsIdentify, TypeOK, Slots
<1>2. CASE rows' = rows
  BY <1>2, UnchangedRows, ReturnKeeps DEF Fail
<1>3. CASE rows' = SetStatus(worker[w].id, "error")
  BY <1>1, <1>3, SetStatusKeeps, ReturnKeeps DEF Fail, HolderInv, Statuses
<1> QED
  BY <1>2, <1>3 DEF Fail, Commit

\* What a step of Download does to its slot and to the table: it goes on, it
\* marks its row, it fails and says so, it returns because a write or its
\* context failed, or it records the item.
LEMMA DownloadStepOutcome ==
    ASSUME TypeOK, NEW w \in Workers, DownloadStep(w)
    PROVE  /\ Busy(w) /\ batch' = batch /\ engine' = engine
           /\ \/ Record(w)
              \/ /\ nextId' = nextId
                 /\ \/ Advances(w) /\ rows' = rows
                    \/ /\ Advances(w)
                       /\ engine = "live"
                       /\ rows' = SetStatus(worker[w].id, "downloading")
                    \/ Fail(w)
                    \/ Return(w) /\ rows' = rows /\ ~Reliable
<1> DEFINE Outcome == \/ Advances(w) /\ rows' = rows
                      \/ /\ Advances(w)
                         /\ engine = "live"
                         /\ rows' = SetStatus(worker[w].id, "downloading")
                      \/ Fail(w)
                      \/ Return(w) /\ rows' = rows /\ ~Reliable
<1>1. worker[w] \in Slots /\ w \in DOMAIN worker
  BY DEF TypeOK
<1>2. Busy(w) /\ batch' = batch /\ engine' = engine /\ (Record(w) \/ nextId' = nextId)
  BY DEF DownloadStep, Resolve, Mark, Fetch, ReadBlock, EndBody, Backoff, Interrupted, Import,
         Record, Busy
<1> SUFFICES Record(w) \/ Outcome
  BY <1>2
<1>3. CASE Resolve(w)
  <2>1. CASE Return(w) /\ "fault" \in Events /\ UNCHANGED rows
    BY <2>1 DEF Reliable
  <2>2. ASSUME NEW p, worker' = [worker EXCEPT ![w].pc = "mark", ![w].path = p], rows' = rows
        PROVE  Outcome
    <3> DEFINE s == [worker[w] EXCEPT !.pc = "mark", !.path = p]
    <3>1. worker' = [worker EXCEPT ![w] = s]
      BY <1>1, <2>2 DEF Slots, TypeOK
    <3>2. s.pc # "idle" /\ s.id = worker[w].id /\ s.key = worker[w].key
          /\ s.size = worker[w].size
      BY <1>1 DEF Slots
    <3> QED
      BY <2>2, <3>1, <3>2 DEF Advances
  <2> QED
    BY <1>3, <2>1, <2>2 DEF Resolve
<1>4. CASE Mark(w)
  <2> DEFINE n == IF partial[worker[w].key] = None THEN 0 ELSE Len(partial[worker[w].key])
             s == [worker[w] EXCEPT !.pc = "fetch", !.at = n]
  <2>1. CASE worker' = [worker EXCEPT ![w].pc = "fetch", ![w].at = n]
    <3>1. worker' = [worker EXCEPT ![w] = s]
      BY <1>1, <2>1 DEF Slots, TypeOK
    <3>2. s.pc # "idle" /\ s.id = worker[w].id /\ s.key = worker[w].key
          /\ s.size = worker[w].size
      BY <1>1 DEF Slots
    <3> QED
      BY <1>4, <3>1, <3>2 DEF Advances, Mark
  <2> QED
    BY <1>4, <2>1 DEF Mark
<1>5. CASE Fetch(w)
  <2>1. CASE Fail(w)
    BY <2>1
  <2>2. CASE ~Fail(w)
    <3> DEFINE u == upstream[worker[w].key]
               full == [worker[w] EXCEPT !.pc = "copy", !.at = 0, !.ver = u]
               range == [worker[w] EXCEPT !.pc = "copy", !.ver = u]
               to(pc) == [worker[w] EXCEPT !.pc = pc]
    <3>1. rows' = rows
      BY <1>5, <2>2 DEF Fetch, RespondFull, RespondRange, RespondUnsatisfiable
    <3>2. \E s \in {full, range, to("import"), to("backoff")} : worker' = [worker EXCEPT ![w] = s]
      BY <1>1, <1>5, <2>2 DEF Fetch, RespondFull, RespondRange, RespondUnsatisfiable,
                              TypeOK, Slots
    <3>3. \A s \in {full, range, to("import"), to("backoff")} :
             s.pc # "idle" /\ s.id = worker[w].id /\ s.key = worker[w].key
             /\ s.size = worker[w].size
      BY <1>1 DEF Slots
    <3>4. Advances(w)
      BY <3>2, <3>3 DEF Advances
    <3> QED
      BY <3>1, <3>4
  <2> QED
    BY <2>1, <2>2
<1>6. CASE ReadBlock(w) \/ EndBody(w)
  <2> DEFINE read == [worker[w] EXCEPT !.at = @ + 1]
             end(pc) == [worker[w] EXCEPT !.pc = pc, !.ver = None]
  <2>1. rows' = rows /\ worker[w].pc = "copy"
    BY <1>6 DEF ReadBlock, EndBody
  <2>2. \E s \in {read, end("import"), end("backoff")} : worker' = [worker EXCEPT ![w] = s]
    BY <1>1, <1>6 DEF ReadBlock, EndBody, TypeOK, Slots
  <2>3. \A s \in {read, end("import"), end("backoff")} :
           s.pc # "idle" /\ s.id = worker[w].id /\ s.key = worker[w].key
           /\ s.size = worker[w].size
    BY <1>1, <2>1 DEF Slots
  <2>4. Advances(w)
    BY <2>2, <2>3 DEF Advances
  <2> QED
    BY <2>1, <2>4
<1>7. CASE Backoff(w)
  <2>1. CASE Fail(w)
    BY <2>1
  <2>2. CASE ~Fail(w)
    <3> DEFINE f == partial[worker[w].key]
               n == IF f = None THEN worker[w].at ELSE Len(f)
               s == [worker[w] EXCEPT !.pc = "fetch", !.tries = @ + 1, !.at = n]
    <3>1. worker' = [worker EXCEPT ![w] = s] /\ rows' = rows
      BY <1>1, <1>7, <2>2 DEF Backoff, TypeOK, Slots
    <3>2. s.pc # "idle" /\ s.id = worker[w].id /\ s.key = worker[w].key
          /\ s.size = worker[w].size
      BY <1>1 DEF Slots
    <3> QED
      BY <3>1, <3>2 DEF Advances
  <2> QED
    BY <2>1, <2>2
<1>8. CASE Interrupted(w)
  BY <1>8 DEF Interrupted, Reliable
<1>9. CASE Import(w)
  <2>1. CASE Fail(w)
    BY <2>1
  <2>2. CASE ~Fail(w)
    <3> DEFINE s == [worker[w] EXCEPT !.pc = "record"]
    <3>1. worker' = [worker EXCEPT ![w] = s] /\ rows' = rows
      BY <1>1, <1>9, <2>2 DEF Import, TypeOK, Slots
    <3>2. s.pc # "idle" /\ s.id = worker[w].id /\ s.key = worker[w].key
          /\ s.size = worker[w].size
      BY <1>1 DEF Slots
    <3> QED
      BY <3>1, <3>2 DEF Advances
  <2> QED
    BY <2>1, <2>2
<1> QED
  BY <1>3, <1>4, <1>5, <1>6, <1>7, <1>8, <1>9 DEF DownloadStep

LEMMA DownloadStepHolds == ASSUME TypeOK, HolderInv, NEW w \in Workers, DownloadStep(w), ~Record(w)
                           PROVE  HolderInv'
<1>1. Busy(w) /\ batch' = batch /\ nextId' = nextId
  BY DownloadStepOutcome
<1>2. CASE Advances(w) /\ rows' = rows
  BY <1>1, <1>2, AdvanceKeeps, UnchangedRows, QuietStep
<1>3. CASE Advances(w) /\ rows' = SetStatus(worker[w].id, "downloading")
  <2>1. worker[w].id \in Nat /\ worker[w].id # 0
    BY <1>1 DEF HolderInv, SlotsIdentify, TypeOK, Slots
  <2>2. RowsKept
    BY <1>3, <2>1, SetStatusKeeps DEF HolderInv, Statuses
  <2> QED
    BY <1>1, <1>3, <2>2, AdvanceKeeps, QuietStep
<1>4. CASE Fail(w)
  BY <1>1, <1>4, FailKeeps, QuietStep
<1>5. CASE Return(w) /\ rows' = rows
  BY <1>1, <1>5, ReturnKeeps, UnchangedRows, QuietStep
<1> QED
  BY <1>2, <1>3, <1>4, <1>5, DownloadStepOutcome

LEMMA RecordHolds == ASSUME TypeOK, HolderInv, NEW w \in Workers, Record(w) PROVE HolderInv'
<1> DEFINE k == worker[w].key
           new == [id |-> IF rows[k].status = "none" THEN nextId ELSE rows[k].id,
                   status |-> "ready", size |-> worker[w].size, path |-> worker[w].path]
<1>1. worker[w] \in Slots /\ Busy(w) /\ k \in Keys /\ batch' = batch
  BY DEF Record, TypeOK, Slots, Busy
<1>2. SlotsKept
  BY ReturnKeeps DEF Record
<1>3. CASE UNCHANGED <<rows, nextId>>
  BY <1>1, <1>2, <1>3, QuietStep, UnchangedRows
<1>4. CASE /\ rows' = [rows EXCEPT ![k] = new]
           /\ nextId' = IF rows[k].status = "none" THEN nextId + 1 ELSE nextId
  <2> USE DEF HolderInv
  <2>1. /\ rows'[k].id = IF rows[k].status = "none" THEN nextId ELSE rows[k].id
        /\ rows'[k].status = "ready"
        /\ rows'[k].size = worker[w].size
        /\ \A j \in Keys : j # k => rows'[j] = rows[j]
    BY <1>1, <1>4 DEF TypeOK
  <2>2. nextId \in Nat /\ nextId > 0 /\ \A j \in Keys : rows[j].id \in Nat
    BY DEF TypeOK, Rows
  <2>3. \A v \in Workers : worker[v].id \in Nat
    BY DEF TypeOK, Slots
  <2> HIDE DEF k, new
  <2>4. IdsIdentify'
    <3>1. \A j \in Keys : rows'[j].id < nextId' /\ (rows'[j].status = "none" <=> rows'[j].id = 0)
      BY <1>1, <1>4, <2>1, <2>2 DEF IdsIdentify
    <3>2. \A i, j \in Keys : i # j /\ rows'[i].id = rows'[j].id => rows'[i].id = 0
      BY <1>1, <1>4, <2>1, <2>2 DEF IdsIdentify
    <3>3. \A i \in batch' : 0 < i /\ i < nextId'
      BY <1>1, <1>4, <2>2 DEF IdsIdentify, TypeOK
    <3> QED
      BY <3>1, <3>2, <3>3 DEF IdsIdentify
  <2>5. SlotsIdentify'
    BY <1>1, <1>2, <1>4, <2>1, <2>2, <2>3 DEF SlotsIdentify, SlotsKept, IdsIdentify
  <2>6. BatchWaits'
    BY <1>1, <1>2, <2>1, <2>2 DEF BatchWaits, SlotsKept, IdsIdentify
  <2>7. SingleWriter'
    BY <1>2 DEF SingleWriter, SlotsKept
  <2>8. SizesDeclared'
    BY <1>1, <1>2, <2>1 DEF SizesDeclared, SlotsKept
  <2> QED
    BY <2>4, <2>5, <2>6, <2>7, <2>8
<1> QED
  BY <1>3, <1>4 DEF Record

LEMMA QueueHolds == ASSUME TypeOK, HolderInv, NEW k \in Keys, Queue(k) PROVE HolderInv'
<1>1. /\ \A j \in Keys : j # k => rows'[j] = rows[j]
      /\ rows'[k].size = SizeOf[upstream[k]]
      /\ upstream[k] \in Versions
      /\ batch' = batch /\ worker' = worker
  BY DEF Queue, TypeOK, Rows
<1>2. \/ /\ rows[k].status = "none" /\ rows'[k].status = "queued"
         /\ rows'[k].id = nextId /\ nextId' = nextId + 1
      \/ /\ rows[k].status # "none" /\ rows'[k].status # "none"
         /\ rows'[k].id = rows[k].id /\ nextId' = nextId
  <2>1. rows[k] \in Rows
    BY DEF TypeOK
  <2>2. CASE rows[k].status = "none"
    BY <2>1, <2>2 DEF Queue, TypeOK, Rows
  <2>3. CASE rows[k].status # "none"
    BY <2>1, <2>3 DEF Queue, TypeOK, Rows
  <2> QED
    BY <2>2, <2>3
<1>3. nextId \in Nat /\ nextId > 0 /\ \A j \in Keys : rows[j].id \in Nat
  BY DEF TypeOK, Rows
<1>4. \A v \in Workers : worker[v].id \in Nat
  BY DEF TypeOK, Slots
<1> USE DEF HolderInv, Busy
<1>5. IdsIdentify'
  <2>1. \A j \in Keys : rows'[j].id < nextId' /\ (rows'[j].status = "none" <=> rows'[j].id = 0)
    BY <1>1, <1>2, <1>3 DEF IdsIdentify
  <2>2. \A i, j \in Keys : i # j /\ rows'[i].id = rows'[j].id => rows'[i].id = 0
    BY <1>1, <1>2, <1>3 DEF IdsIdentify
  <2>3. \A i \in batch' : 0 < i /\ i < nextId'
    BY <1>1, <1>2, <1>3 DEF IdsIdentify, TypeOK
  <2> QED
    BY <2>1, <2>2, <2>3 DEF IdsIdentify
<1>6. SlotsIdentify'
  BY <1>1, <1>2, <1>3, <1>4 DEF SlotsIdentify, IdsIdentify
<1>7. BatchWaits'
  BY <1>1, <1>2, <1>3 DEF BatchWaits, IdsIdentify
<1>8. SingleWriter'
  BY <1>1 DEF SingleWriter
<1>9. SizesDeclared'
  BY <1>1, <1>2 DEF SizesDeclared
<1> QED
  BY <1>5, <1>6, <1>7, <1>8, <1>9

\* A dispatch takes an id out of the batch: its item was in no other slot
\* (BatchWaits), and no other id of the batch names it (IdsIdentify).
LEMMA DispatchHolds == ASSUME TypeOK, HolderInv, NEW w \in Workers, Dispatch(w)
                       PROVE  HolderInv'
<1>1. rows' = rows /\ nextId' = nextId /\ batch' \subseteq batch
  BY DEF Dispatch
<1>2. CASE worker' = worker
  BY <1>1, <1>2, QuietStep, UnchangedRows DEF SlotsKept, Busy
<1>3. ASSUME NEW i \in batch, NEW k \in Keys,
             batch' = batch \ {i}, rows[k].id = i, rows[k].status # "ready",
             worker' = [worker EXCEPT ![w] =
                [Idle EXCEPT !.pc = "resolve", !.id = i, !.key = k, !.size = rows[k].size]]
      PROVE  HolderInv'
  <2>1. /\ worker'[w].id = i /\ worker'[w].key = k /\ worker'[w].size = rows[k].size
        /\ \A v \in Workers : v # w => worker'[v] = worker[v]
    BY <1>3 DEF TypeOK, Idle
  <2>2. nextId \in Nat /\ nextId > 0 /\ i \in Nat /\ \A j \in Keys : rows[j].id \in Nat
    BY <1>3 DEF TypeOK, Rows
  <2> USE DEF HolderInv, Busy
  <2>3. IdsIdentify'
    BY <1>1 DEF IdsIdentify
  <2>4. SlotsIdentify'
    BY <1>1, <1>3, <2>1, <2>2 DEF SlotsIdentify, IdsIdentify
  <2>5. BatchWaits'
    BY <1>1, <1>3, <2>1, <2>2 DEF BatchWaits, IdsIdentify
  <2>6. SingleWriter'
    BY <1>3, <2>1 DEF SingleWriter, BatchWaits
  <2>7. SizesDeclared'
    BY <1>1, <1>3, <2>1, <2>2 DEF SizesDeclared, IdsIdentify
  <2> QED
    BY <2>3, <2>4, <2>5, <2>6, <2>7
<1> QED
  BY <1>2, <1>3 DEF Dispatch

LEMMA HolderInduction == ASSUME TypeOK, HolderInv, CallsIdentify, [Next]_vars
                         PROVE  HolderInv'
<1>1. CASE UNCHANGED vars
  BY <1>1, QuietStep, UnchangedRows DEF vars, SlotsKept, Busy
<1>2. ASSUME NEW k \in Keys, Replace(k) PROVE HolderInv'
  BY <1>2, QuietStep, UnchangedRows DEF Replace, SlotsKept, Busy
<1>3. ASSUME NEW w \in Workers, DownloadStep(w) PROVE HolderInv'
  BY <1>3, DownloadStepHolds, RecordHolds
<1>4. ASSUME NEW r \in Requests, CancelCheck(r) \/ EvictLoad(r) PROVE HolderInv'
  BY <1>4, QuietStep, UnchangedRows DEF CancelCheck, EvictLoad, SlotsKept, Busy
<1>5. ASSUME NEW r \in Requests, CancelDelete(r) PROVE HolderInv'
  <2>1. \A k \in Keys : rows'[k] \in {rows[k], NoRow}
    BY <1>5 DEF CancelDelete
  <2>2. worker' = worker /\ batch' = batch /\ nextId' = nextId /\ nextId \in Nat /\ nextId > 0
    BY <1>5 DEF CancelDelete, TypeOK
  <2> USE DEF HolderInv, Busy
  <2>3. IdsIdentify'
    BY <2>1, <2>2 DEF IdsIdentify, NoRow
  <2>4. SlotsIdentify'
    BY <2>1, <2>2 DEF SlotsIdentify, NoRow
  <2>5. BatchWaits'
    BY <2>1, <2>2 DEF BatchWaits, IdsIdentify, NoRow
  <2>6. SingleWriter'
    BY <2>2 DEF SingleWriter
  <2>7. SizesDeclared'
    BY <2>1, <2>2 DEF SizesDeclared, NoRow
  <2> QED
    BY <2>3, <2>4, <2>5, <2>6, <2>7
<1>6. ASSUME NEW r \in Requests, EvictFlip(r) PROVE HolderInv'
  <2>1. request[r].id \in Nat /\ 0 < request[r].id
    BY <1>6 DEF EvictFlip, CallsIdentify, TypeOK, Calls
  <2>2. RowsKept
    <3> SUFFICES ASSUME NEW k \in Keys
                 PROVE  /\ rows'[k].id = rows[k].id
                        /\ rows'[k].size = rows[k].size
                        /\ rows'[k].status = "none" <=> rows[k].status = "none"
      BY DEF RowsKept
    <3>1. rows[k] \in Rows
      BY DEF TypeOK
    <3>2. CASE rows[k].id = request[r].id
      <4>1. rows'[k] = [rows[k] EXCEPT !.status = "evicted", !.path = None]
        BY <1>6, <3>2 DEF EvictFlip
      <4>2. rows[k].status # "none"
        BY <2>1, <3>2 DEF HolderInv, IdsIdentify
      <4> QED
        BY <3>1, <4>1, <4>2 DEF Rows
    <3>3. CASE rows[k].id # request[r].id
      BY <1>6, <3>3 DEF EvictFlip
    <3> QED
      BY <3>2, <3>3
  <2> QED
    BY <1>6, <2>2, QuietStep DEF EvictFlip, SlotsKept, Busy
<1>7. ASSUME NEW r \in Requests, CancelUnlink(r) \/ EvictRemove(r) \/ RequestAborts(r)
      PROVE  HolderInv'
  BY <1>7, QuietStep, UnchangedRows DEF CancelUnlink, EvictRemove, RequestAborts, SlotsKept, Busy
<1>8. CASE ScanQueued
  <2>1. \A w \in Workers : ~Busy(w) /\ ~Busy(w)'
    BY <1>8 DEF ScanQueued, Busy
  <2>2. rows' = rows /\ nextId' = nextId
        /\ batch' = {rows[k].id : k \in {q \in Keys : rows[q].status = "queued"}}
    BY <1>8 DEF ScanQueued
  <2>3. \A k \in Keys : rows[k].status = "queued" => 0 < rows[k].id /\ rows[k].id < nextId
    BY DEF HolderInv, IdsIdentify, TypeOK, Rows
  <2>4. IdsIdentify'
    BY <2>2, <2>3 DEF HolderInv, IdsIdentify
  <2> QED
    BY <2>1, <2>2, <2>4 DEF HolderInv, SlotsIdentify, BatchWaits, SingleWriter, SizesDeclared
<1>9. CASE AbandonBatch \/ Reload
  BY <1>9, QuietStep, UnchangedRows DEF AbandonBatch, Reload, SlotsKept, Busy
<1>10. CASE Relaunch \/ Start
  <2>1. RowsKept
    BY <1>10 DEF Relaunch, Start, ResetStaleDownloads, RowsKept, TypeOK, Rows
  <2> QED
    BY <1>10, <2>1, QuietStep DEF Relaunch, Start, SlotsKept, Busy
<1>11. CASE Crash
  BY <1>11, QuietStep, UnchangedRows DEF Crash, SlotsKept, Busy, Idle
<1> QED
  BY <1>1, <1>2, <1>3, <1>4, <1>5, <1>6, <1>7, <1>8, <1>9, <1>10, <1>11, QueueHolds, DispatchHolds
     DEF Next, RequestStep

LEMMA CallsInduction == ASSUME TypeOK, HolderInv, CallsIdentify, [Next]_vars
                        PROVE  CallsIdentify'
<1>1. CASE request' = request
  BY <1>1 DEF CallsIdentify
<1>2. ASSUME NEW r \in Requests, CancelCheck(r) \/ EvictLoad(r) PROVE CallsIdentify'
  <2>1. \A k \in Keys : rows[k].status # "none" => 0 < rows[k].id
    BY DEF HolderInv, IdsIdentify, TypeOK, Rows
  <2> QED
    BY <1>2, <2>1 DEF CancelCheck, EvictLoad, CallsIdentify, TypeOK
<1>3. ASSUME NEW r \in Requests, RequestStep(r) \/ RequestAborts(r) PROVE CallsIdentify'
  <2>1. request[r].pc # "idle"
    BY <1>3 DEF RequestStep, CancelDelete, CancelUnlink, EvictRemove, EvictFlip, RequestAborts
  <2>2. \A q \in Requests : q # r => request'[q] = request[q]
    BY <1>3 DEF RequestStep, CancelDelete, CancelUnlink, EvictRemove, EvictFlip, RequestAborts,
                TypeOK
  <2>3. request'[r].pc # "idle" => request'[r].id = request[r].id
    <3>1. request[r] \in Calls /\ r \in DOMAIN request
      BY DEF TypeOK
    <3>2. \/ request'[r] = NoRequest
          \/ \E pc \in {"unlink", "flip"} : request'[r] = [request[r] EXCEPT !.pc = pc]
      BY <1>3, <3>1 DEF RequestStep, CancelDelete, CancelUnlink, EvictRemove, EvictFlip,
                        RequestAborts
    <3> QED
      BY <3>1, <3>2 DEF NoRequest, Calls
  <2> QED
    BY <2>1, <2>2, <2>3 DEF CallsIdentify
<1>4. CASE Crash
  BY <1>4 DEF Crash, NoRequest, CallsIdentify
<1>5. ASSUME NEW w \in Workers, DownloadStep(w) PROVE request' = request
  BY <1>5 DEF DownloadStep, Resolve, Mark, Fetch, ReadBlock, EndBody, Backoff, Interrupted,
              Import, Record
<1> QED
  BY <1>1, <1>2, <1>3, <1>4, <1>5
     DEF Next, vars, Queue, Replace, Dispatch, ScanQueued, AbandonBatch, Reload, Relaunch, Start

-----------------------------------------------------------------------------
(* Nothing partial reaches the library.                                    *)

\* Only a rename adds to the library, and it moves a file of a declared size.
LEMMA FinalInduction == ASSUME TypeOK, HolderInv, FinalComplete, [Next]_vars
                        PROVE  FinalComplete'
<1>1. CASE final' = final
  BY <1>1 DEF FinalComplete
<1>2. ASSUME NEW w \in Workers, Import(w) PROVE FinalComplete'
  <2>1. worker[w] \in Slots /\ Busy(w) /\ worker[w].path \in Paths
    BY <1>2 DEF Import, TypeOK, Slots, Busy
  <2>2. PICK v \in Versions : worker[w].size = SizeOf[v]
    BY <2>1 DEF HolderInv, SizesDeclared
  <2>3. CASE final' = [final EXCEPT ![worker[w].path] = partial[worker[w].key]]
             /\ Len(partial[worker[w].key]) = worker[w].size
    <3>1. \A p \in Paths : final'[p] = final[p] \/ final'[p] = partial[worker[w].key]
      BY <2>1, <2>3 DEF TypeOK
    <3> QED
      BY <2>2, <2>3, <3>1 DEF FinalComplete
  <2> QED
    BY <1>1, <1>2, <2>3 DEF Import
<1>3. ASSUME NEW r \in Requests, EvictRemove(r) PROVE FinalComplete'
  BY <1>3 DEF EvictRemove, FinalComplete, TypeOK
<1>4. ASSUME NEW w \in Workers, DownloadStep(w), ~Import(w) PROVE final' = final
  BY <1>4 DEF DownloadStep, Resolve, Mark, Fetch, ReadBlock, EndBody, Backoff, Interrupted, Record
<1>5. ASSUME NEW r \in Requests, RequestStep(r), ~EvictRemove(r) PROVE final' = final
  BY <1>5 DEF RequestStep, CancelDelete, CancelUnlink, EvictFlip
<1> QED
  BY <1>1, <1>2, <1>3, <1>4, <1>5
     DEF Next, vars, Queue, Replace, Dispatch, ScanQueued, AbandonBatch, Reload, Relaunch, Start,
         Crash, CancelCheck, EvictLoad, RequestAborts

-----------------------------------------------------------------------------
(* No row is left 'downloading' by a running engine.                       *)

\* Every way out of a Download in a live generation takes its row out of
\* 'downloading' first, unless a write fails.
LEMMA StrandedInduction == ASSUME TypeOK, HolderInv, NoStranded, [Next]_vars
                           PROVE  NoStranded'
<1> SUFFICES ASSUME "fault" \notin Events, NEW k \in Keys, rows'[k].status = "downloading"
             PROVE  /\ engine' # "absent"
                    /\ engine' = "live" =>
                         \E v \in Workers : Busy(v)' /\ worker'[v].id = rows'[k].id
  BY DEF NoStranded
<1> DEFINE Works == \E v \in Workers : Busy(v) /\ worker[v].id = rows[k].id
<1>1. rows[k].status = "downloading" => engine # "absent" /\ (engine = "live" => Works)
  BY DEF NoStranded
<1>2. CASE rows'[k].id = rows[k].id /\ rows[k].status = "downloading" /\ engine' = engine
           /\ worker' = worker
  BY <1>1, <1>2 DEF Busy
<1>3. ASSUME NEW j \in Keys, Queue(j) \/ Replace(j)
      PROVE  rows'[k].id = rows[k].id /\ rows[k].status = "downloading" /\ engine' = engine
             /\ worker' = worker
  <2>1. CASE Queue(j)
    <3>1. rows[k] \in Rows /\ k \in DOMAIN rows
      BY DEF TypeOK
    <3>2. CASE j = k
      BY <2>1, <3>1, <3>2 DEF Queue, TypeOK, Rows
    <3>3. CASE j # k
      BY <2>1, <3>1, <3>3 DEF Queue, TypeOK
    <3> QED
      BY <3>2, <3>3
  <2>2. CASE Replace(j)
    BY <2>2 DEF Replace
  <2> QED
    BY <1>3, <2>1, <2>2
<1>4. ASSUME NEW r \in Requests,
             CancelCheck(r) \/ EvictLoad(r) \/ RequestStep(r) \/ RequestAborts(r)
      PROVE  rows'[k].id = rows[k].id /\ rows[k].status = "downloading" /\ engine' = engine
             /\ worker' = worker
  <2>1. rows[k] \in Rows
    BY DEF TypeOK
  <2>2. rows'[k] = rows[k] \/ rows'[k] = NoRow
        \/ rows'[k] = [rows[k] EXCEPT !.status = "evicted", !.path = None]
    BY <1>4 DEF CancelCheck, EvictLoad, RequestStep, RequestAborts, CancelDelete,
                CancelUnlink, EvictRemove, EvictFlip
  <2>3. NoRow.status = "none"
        /\ [rows[k] EXCEPT !.status = "evicted", !.path = None].status = "evicted"
    BY <2>1 DEF NoRow, Rows
  <2>4. rows'[k] = rows[k]
    BY <2>2, <2>3
  <2> QED
    BY <1>4, <2>4 DEF CancelCheck, EvictLoad, RequestStep, RequestAborts, CancelDelete,
                      CancelUnlink, EvictRemove, EvictFlip
<1>5. CASE ScanQueued \/ AbandonBatch \/ UNCHANGED vars
  BY <1>2, <1>5 DEF ScanQueued, AbandonBatch, vars
<1>6. CASE Reload \/ Crash
  BY <1>6 DEF Reload, Crash
<1>7. CASE Relaunch \/ Start
  BY <1>7 DEF Relaunch, Start, ResetStaleDownloads, TypeOK, Rows
<1>8. ASSUME NEW w \in Workers, Dispatch(w)
      PROVE  /\ engine' # "absent"
             /\ engine' = "live" =>
                  \E v \in Workers : Busy(v)' /\ worker'[v].id = rows'[k].id
  <2>1. rows' = rows /\ engine' = engine /\ engine = "live" /\ ~Busy(w)
        /\ \A v \in Workers : v # w => worker'[v] = worker[v]
    BY <1>8 DEF Dispatch, TypeOK
  <2>2. PICK v \in Workers : Busy(v) /\ worker[v].id = rows[k].id
    BY <1>1, <2>1
  <2> QED
    BY <2>1, <2>2 DEF Busy
<1>9. ASSUME NEW w \in Workers, DownloadStep(w)
      PROVE  /\ engine' # "absent"
             /\ engine' = "live" =>
                  \E v \in Workers : Busy(v)' /\ worker'[v].id = rows'[k].id
  <2>1. Busy(w) /\ engine' = engine /\ rows[k] \in Rows /\ worker[w].id # 0
    BY <1>9, DownloadStepOutcome DEF HolderInv, SlotsIdentify, TypeOK, Rows, Slots
  <2>2. CASE Advances(w) /\ rows' = rows
    <3>1. /\ worker'[w].pc # "idle" /\ worker'[w].id = worker[w].id
          /\ \A v \in Workers : v # w => worker'[v] = worker[v]
      BY <2>2 DEF Advances, TypeOK
    <3> QED
      BY <1>1, <2>1, <2>2, <3>1 DEF Busy
  <2>3. CASE Advances(w) /\ engine = "live" /\ rows' = SetStatus(worker[w].id, "downloading")
    <3>1. /\ worker'[w].pc # "idle" /\ worker'[w].id = worker[w].id
          /\ \A v \in Workers : v # w => worker'[v] = worker[v]
      BY <2>3 DEF Advances, TypeOK
    <3>2. rows'[k].id = rows[k].id
          /\ (rows[k].id = worker[w].id \/ rows[k].status = "downloading")
      BY <2>1, <2>3 DEF SetStatus, Rows
    <3> QED
      BY <1>1, <2>1, <2>3, <3>1, <3>2 DEF Busy
  <2>4. CASE Fail(w)
    <3>1. \A v \in Workers : v # w => worker'[v] = worker[v]
      BY <2>4 DEF Fail, Return, TypeOK
    <3>2. CASE rows' = SetStatus(worker[w].id, "error") /\ engine = "live"
      <4>1. rows'[k] = rows[k] /\ rows[k].id # worker[w].id
        BY <2>1, <3>2 DEF SetStatus, Rows
      <4> QED
        BY <1>1, <2>1, <3>1, <4>1 DEF Busy
    <3>3. CASE rows' = rows /\ ~Reliable
      BY <1>1, <2>1, <3>3 DEF Reliable
    <3> QED
      BY <2>4, <3>2, <3>3 DEF Fail, Commit
  <2>5. CASE Return(w) /\ rows' = rows /\ ~Reliable
    BY <1>1, <2>1, <2>5 DEF Reliable
  <2>6. CASE Record(w)
    <3>1. \A v \in Workers : v # w => worker'[v] = worker[v]
      BY <2>6 DEF Record, Return, TypeOK
    <3>2. worker[w].key \in Keys
      BY <2>1 DEF TypeOK, Slots, Busy
    <3>3. CASE rows' = rows /\ ~Reliable
      BY <1>1, <2>1, <3>3 DEF Reliable
    <3>4. CASE rows' # rows
      <4>1. rows'[k] = rows[k] /\ k # worker[w].key
        BY <2>6, <3>2, <3>4 DEF Record, TypeOK
      <4>2. rows[k].id # worker[w].id
        BY <2>1, <4>1 DEF HolderInv, SlotsIdentify
      <4> QED
        BY <1>1, <2>1, <3>1, <4>1, <4>2 DEF Busy
    <3>5. CASE rows' = rows /\ engine = "live"
      <4>1. rows'[worker[w].key].status = "ready"
        BY <2>6, <3>2, <3>5 DEF Record, Reliable, TypeOK
      <4>2. rows[k].id # worker[w].id
        BY <2>1, <3>5, <4>1 DEF HolderInv, SlotsIdentify
      <4> QED
        BY <1>1, <2>1, <3>1, <3>5, <4>2 DEF Busy
    <3> QED
      BY <2>6, <3>3, <3>4, <3>5 DEF Record
  <2> QED
    BY <1>9, <2>2, <2>3, <2>4, <2>5, <2>6, DownloadStepOutcome
<1> QED
  BY <1>2, <1>3, <1>4, <1>5, <1>6, <1>7, <1>8, <1>9 DEF Next

-----------------------------------------------------------------------------
LEMMA SafetyInit == Init => SafetyInv
<1> SUFFICES ASSUME Init PROVE SafetyInv
  OBVIOUS
<1>1. TypeOK
  BY Defaults DEF Init, TypeOK, Files
<1> QED
  BY <1>1 DEF Init, NoRow, Idle, NoRequest, Busy, SafetyInv, IdsIdentify, SlotsIdentify,
              CallsIdentify, BatchWaits, SingleWriter, NoStranded, SizesDeclared, FinalComplete

LEMMA SafetyInduction == SafetyInv /\ [Next]_vars => SafetyInv'
<1> SUFFICES ASSUME SafetyInv, [Next]_vars PROVE SafetyInv'
  OBVIOUS
<1>1. TypeOK /\ HolderInv /\ CallsIdentify /\ NoStranded /\ FinalComplete
  BY DEF SafetyInv, HolderInv
<1>2. TypeOK'
  BY <1>1, TypeInduction
<1>3. HolderInv' /\ CallsIdentify'
  BY <1>1, HolderInduction, CallsInduction
<1>4. NoStranded' /\ FinalComplete'
  BY <1>1, StrandedInduction, FinalInduction
<1> QED
  BY <1>2, <1>3, <1>4 DEF SafetyInv, HolderInv

\* The inductive invariant holds in every reachable state.
THEOREM Safety == Spec => []SafetyInv
  BY SafetyInit, SafetyInduction, PTL DEF Spec

\* At most one Download, and so one writer of a partial file, per item: for any
\* number of items, slots, handlers, cancellations, reloads and crashes.
THEOREM OneWriter == Spec => []SingleWriter
<1>1. SafetyInv => SingleWriter
  BY DEF SafetyInv
<1> QED
  BY <1>1, Safety, PTL

\* A running engine holds every 'downloading' row, if no write fails: a reload
\* or a restart leaves none behind.
THEOREM NothingStranded == Spec => []NoStranded
<1>1. SafetyInv => NoStranded
  BY DEF SafetyInv
<1> QED
  BY <1>1, Safety, PTL

\* Every file under the library has the full length of a version upstream has
\* declared, whatever else happens, failed writes included.
THEOREM LibraryComplete == Spec => []FinalComplete
<1>1. SafetyInv => FinalComplete
  BY DEF SafetyInv
<1> QED
  BY <1>1, Safety, PTL
=============================================================================
