-------------------------- MODULE MirrorRefinement --------------------------
(* Mirror implements ItemLifecycle, for every set of items, slots,         *)
(* handlers and paths.                                                     *)
EXTENDS MirrorProofs

\* What the refinement rests on: the inductive invariant of MirrorProofs, and
\* that the engine holds nothing that is 'ready' or 'error'.
RefinementInv == SafetyInv /\ HeldInFlight /\ DownHoldsNothing

LEMMA HeldIds == ASSUME RefinementInv, NEW k \in Keys
                 PROVE  /\ rows[k].id \in Nat /\ rows[k].id < nextId /\ nextId \in Nat
                        /\ rows[k].status \in Statuses
                        /\ rows[k].status = "none" <=> rows[k].id = 0
                        /\ 0 \notin Held
                        /\ nextId \notin Held
                        /\ Table[k].id = rows[k].id /\ Table[k].status = rows[k].status
<1>1. TypeOK /\ IdsIdentify /\ SlotsIdentify
  BY DEF RefinementInv, SafetyInv
<1>2. nextId \in Nat /\ rows[k] \in Rows /\ \A w \in Workers : worker[w].id \in Nat
  BY <1>1 DEF TypeOK, Slots
<1>3. batch \subseteq Nat
  BY <1>1 DEF TypeOK
<1> QED
  BY <1>1, <1>2, <1>3 DEF Held, IdsIdentify, SlotsIdentify, Table, Rows

\* A step that changes at most the status of one row, to s, is an EXCEPT of the
\* table; one that changes none leaves it alone.
LEMMA TableSame == ASSUME \A j \in Keys : rows'[j].id = rows[j].id /\ rows'[j].status = rows[j].status
                   PROVE  Table' = Table
  BY DEF Table

LEMMA TableStatus == ASSUME NEW k \in Keys, NEW s,
                            \A j \in Keys : rows'[j].id = rows[j].id,
                            \A j \in Keys : rows'[j].status = IF j = k THEN s ELSE rows[j].status
                     PROVE  Table' = [Table EXCEPT ![k].status = s]
  BY DEF Table

LEMMA TableRow == ASSUME NEW k \in Keys, NEW r,
                         \A j \in Keys : j # k => /\ rows'[j].id = rows[j].id
                                                  /\ rows'[j].status = rows[j].status,
                         r = [id |-> rows'[k].id, status |-> rows'[k].status]
                  PROVE  Table' = [Table EXCEPT ![k] = r]
  BY DEF Table

\* No two rows have an id in common.
LEMMA OneRow == ASSUME RefinementInv, NEW i, i # 0, NEW j \in Keys, NEW k \in Keys,
                       rows[j].id = i, rows[k].id = i
                PROVE  j = k
  BY DEF RefinementInv, SafetyInv, IdsIdentify

-----------------------------------------------------------------------------
\* SetStatus by an id changes one row, or none.
LEMMA SetStatusTable ==
    ASSUME RefinementInv, NEW i, i # 0, NEW s, rows' = SetStatus(i, s)
    PROVE  \/ Table' = Table /\ \A k \in Keys : rows[k].id # i
           \/ \E k \in Keys : rows[k].id = i /\ Table' = [Table EXCEPT ![k].status = s]
<1>1. \A j \in Keys : rows[j] \in Rows
  BY DEF RefinementInv, SafetyInv, TypeOK
<1>2. CASE \A k \in Keys : rows[k].id # i
  <2>1. \A j \in Keys : rows'[j] = rows[j]
    BY <1>2 DEF SetStatus
  <2> QED
    BY <1>2, <2>1, TableSame
<1>3. ASSUME NEW k \in Keys, rows[k].id = i
      PROVE  Table' = [Table EXCEPT ![k].status = s]
  <2>1. \A j \in Keys : j # k => rows'[j] = rows[j]
    BY <1>3, OneRow DEF SetStatus
  <2>2. rows'[k].id = rows[k].id /\ rows'[k].status = s
    BY <1>1, <1>3 DEF SetStatus, Rows
  <2> QED
    BY <2>1, <2>2, TableStatus
<1> QED
  BY <1>2, <1>3

\* What a Download holds it holds alone: once its slot is free, its id is in
\* nobody's hands.
LEMMA FreedHeld ==
    ASSUME RefinementInv, NEW w \in Workers, Busy(w), Return(w), batch' = batch
    PROVE  /\ Held' \subseteq Held
           /\ \A k \in Keys : k = worker[w].key => rows[k].id \notin Held'
<1>1. TypeOK /\ BatchWaits /\ SingleWriter /\ SlotsIdentify
  BY DEF RefinementInv, SafetyInv
<1>2. ~Busy(w)' /\ \A v \in Workers : v # w => worker'[v] = worker[v]
  BY <1>1 DEF Return, TypeOK, Busy, Idle
<1>3. Held' \subseteq Held
  BY <1>2 DEF Held, Busy
<1>4. ASSUME NEW k \in Keys, k = worker[w].key, rows[k].id \in Held'
      PROVE  FALSE
  <2>1. rows[k].id \notin batch
    BY <1>1, <1>4 DEF BatchWaits
  <2>2. PICK v \in Workers : Busy(v)' /\ worker'[v].id = rows[k].id
    BY <1>4, <2>1 DEF Held
  <2>3. v # w /\ Busy(v) /\ worker[v].id = rows[k].id
    BY <1>2, <2>2 DEF Busy
  <2>4. k = worker[v].key
    BY <1>1, <2>3 DEF SlotsIdentify
  <2> QED
    BY <1>1, <1>4, <2>3, <2>4 DEF SingleWriter
<1> QED
  BY <1>3, <1>4
\* A slot that goes on with its item keeps what is held as it was.
LEMMA AdvanceHeld == ASSUME RefinementInv, NEW w \in Workers, Busy(w), Advances(w), batch' = batch
                     PROVE  Held' = Held
<1>1. worker \in [Workers -> Slots]
  BY DEF RefinementInv, SafetyInv, TypeOK
<1>2. \A v \in Workers : (Busy(v)' <=> Busy(v)) /\ worker'[v].id = worker[v].id
  BY <1>1 DEF Advances, Busy
<1> QED
  BY <1>2 DEF Held

\* A step that changes no row keeps HeldInFlight if the engine comes to hold
\* nothing more.
LEMMA HeldShrinks == ASSUME RefinementInv, rows' = rows, Held' \subseteq Held
                     PROVE  HeldInFlight'
  BY DEF RefinementInv, HeldInFlight

\* A row the engine holds is in flight and is there.
LEMMA HeldRow == ASSUME RefinementInv, NEW k \in Keys, rows[k].id \in Held
                 PROVE  rows[k].status \in Lifecycle!InFlight
  BY DEF RefinementInv, HeldInFlight

\* What Download does, except RecordReady, is to work on the row it holds or to
\* let go of it.
LEMMA DownloadRefines ==
    ASSUME RefinementInv, NEW w \in Workers, DownloadStep(w), ~Record(w)
    PROVE  /\ [Lifecycle!TableNext]_(Lifecycle!tableVars)
           /\ HeldInFlight'
<1> DEFINE i == worker[w].id
<1>1. TypeOK /\ HolderInv
  BY DEF RefinementInv, SafetyInv, HolderInv
<1>2. Busy(w) /\ batch' = batch /\ nextId' = nextId
  BY <1>1, DownloadStepOutcome
<1>3. i \in Held /\ i # 0
  BY <1>1, <1>2 DEF Held, HolderInv, SlotsIdentify, TypeOK, Slots
<1>4. CASE Advances(w) /\ rows' = rows
  <2>1. Held' = Held /\ Table' = Table
    BY <1>2, <1>4, AdvanceHeld DEF Table
  <2> QED
    BY <1>2, <1>4, <2>1, HeldShrinks DEF Lifecycle!tableVars
<1>5. CASE Advances(w) /\ rows' = SetStatus(i, "downloading")
  <2>1. Held' = Held
    BY <1>2, <1>5, AdvanceHeld
  <2>2. HeldInFlight'
    <3> SUFFICES ASSUME NEW k \in Keys, rows'[k].id \in Held'
                 PROVE  rows'[k].status \in Lifecycle!InFlight
      BY DEF HeldInFlight
    <3>1. rows[k] \in Rows
      BY <1>1 DEF TypeOK
    <3>2. rows[k].id \in Held
      BY <1>5, <2>1, <3>1 DEF SetStatus, Rows
    <3> QED
      BY <1>5, <3>1, <3>2, HeldRow DEF SetStatus, Rows, Lifecycle!InFlight
  <2>3. ASSUME NEW k \in Keys, rows[k].id = i,
               Table' = [Table EXCEPT ![k].status = "downloading"]
        PROVE  Lifecycle!TableNext
    <3>1. Table[k].id \in Held /\ Table[k].status \in Lifecycle!InFlight
      BY <1>3, <2>3, HeldRow, HeldIds
    <3> QED
      BY <1>2, <2>1, <2>3, <3>1 DEF Lifecycle!TableNext, Lifecycle!Engine, Lifecycle!Mark
  <2>4. \/ Table' = Table
        \/ \E k \in Keys : rows[k].id = i /\ Table' = [Table EXCEPT ![k].status = "downloading"]
    BY <1>3, <1>5, SetStatusTable
  <2> QED
    BY <1>2, <2>1, <2>2, <2>3, <2>4 DEF Lifecycle!tableVars
<1>6. CASE Fail(w) /\ rows' = SetStatus(i, "error")
  <2>1. /\ Held' \subseteq Held
        /\ \A k \in Keys : k = worker[w].key => rows[k].id \notin Held'
    BY <1>2, <1>6, FreedHeld DEF Fail
  <2>2. HeldInFlight'
    <3> SUFFICES ASSUME NEW k \in Keys, rows'[k].id \in Held'
                 PROVE  rows'[k].status \in Lifecycle!InFlight
      BY DEF HeldInFlight
    <3>1. rows[k] \in Rows
      BY <1>1 DEF TypeOK
    <3>2. rows[k].id \in Held' /\ rows[k].id \in Held
      BY <1>6, <2>1, <3>1 DEF SetStatus, Rows
    <3>3. rows[k].id # i
      BY <1>1, <1>2, <2>1, <3>2 DEF HolderInv, SlotsIdentify
    <3>4. rows'[k] = rows[k]
      BY <1>6, <3>3 DEF SetStatus
    <3> QED
      BY <3>2, <3>4, HeldRow
  <2>3. ASSUME NEW k \in Keys, rows[k].id = i,
               Table' = [Table EXCEPT ![k].status = "error"]
        PROVE  Lifecycle!TableNext
    <3>1. Table[k].id \in Held /\ Table[k].status \in Lifecycle!InFlight
      BY <1>3, <2>3, HeldRow, HeldIds
    <3>2. Held' \subseteq Held \ {Table[k].id}
      <4>1. k = worker[w].key /\ Table[k].id = rows[k].id
        BY <1>1, <1>2, <2>3, HeldIds DEF HolderInv, SlotsIdentify
      <4> QED
        BY <2>1, <4>1
    <3> QED
      BY <1>2, <2>3, <3>1, <3>2 DEF Lifecycle!TableNext, Lifecycle!Engine, Lifecycle!Fail
  <2>4. CASE Table' = Table
    BY <1>2, <2>1, <2>2, <2>4 DEF Lifecycle!TableNext, Lifecycle!Engine, Lifecycle!Release
  <2>5. \/ Table' = Table
        \/ \E k \in Keys : rows[k].id = i /\ Table' = [Table EXCEPT ![k].status = "error"]
    BY <1>3, <1>6, SetStatusTable
  <2> QED
    BY <2>2, <2>3, <2>4, <2>5
<1>7. CASE Return(w) /\ rows' = rows
  <2>1. Held' \subseteq Held /\ Table' = Table
    BY <1>2, <1>7, FreedHeld DEF Table
  <2> QED
    BY <1>2, <1>7, <2>1, HeldShrinks DEF Lifecycle!TableNext, Lifecycle!Engine, Lifecycle!Release
<1>8. Fail(w) => \/ Fail(w) /\ rows' = SetStatus(i, "error")
                 \/ Return(w) /\ rows' = rows
  BY DEF Fail, Commit
<1> QED
  BY <1>1, <1>4, <1>5, <1>6, <1>7, <1>8, DownloadStepOutcome

\* RecordReady delivers the item, under the row it finds at the item's key.
LEMMA RecordRefines ==
    ASSUME RefinementInv, NEW w \in Workers, Record(w)
    PROVE  /\ [Lifecycle!TableNext]_(Lifecycle!tableVars)
           /\ HeldInFlight'
<1> DEFINE k == worker[w].key
           new == [id |-> IF rows[k].status = "none" THEN nextId ELSE rows[k].id,
                   status |-> "ready", size |-> worker[w].size, path |-> worker[w].path]
<1>1. TypeOK /\ IdsIdentify
  BY DEF RefinementInv, SafetyInv
<1>2. Busy(w) /\ k \in Keys /\ batch' = batch /\ Return(w)
  BY <1>1 DEF Record, TypeOK, Slots, Busy
<1>3. Held' \subseteq Held /\ rows[k].id \notin Held' /\ Held # {}
      /\ Held' \subseteq Held \ {Table[k].id}
  BY <1>2, FreedHeld, HeldIds DEF Held
<1>4. CASE UNCHANGED <<rows, nextId>>
  <2>1. Table' = Table
    BY <1>4 DEF Table
  <2> QED
    BY <1>3, <1>4, <2>1, HeldShrinks DEF Lifecycle!TableNext, Lifecycle!Engine, Lifecycle!Release
<1>5. CASE /\ rows' = [rows EXCEPT ![k] = new]
           /\ nextId' = IF rows[k].status = "none" THEN nextId + 1 ELSE nextId
  <2>1. /\ rows'[k].id = IF rows[k].status = "none" THEN nextId ELSE rows[k].id
        /\ rows'[k].status = "ready"
        /\ \A j \in Keys : j # k => rows'[j] = rows[j]
    BY <1>1, <1>2, <1>5 DEF TypeOK
  <2> HIDE DEF k, new
  <2>2. HeldInFlight'
    <3> SUFFICES ASSUME NEW j \in Keys, rows'[j].id \in Held'
                 PROVE  rows'[j].status \in Lifecycle!InFlight
      BY DEF HeldInFlight
    <3>1. j # k
      BY <1>2, <1>3, <2>1, HeldIds
    <3> QED
      BY <1>3, <2>1, <3>1, HeldRow
  <2>3. Lifecycle!Deliver(k)
    <3>1. CASE rows[k].status = "none"
      <4>1. Table[k] = Lifecycle!Absent
        BY <1>2, <3>1, HeldIds DEF Table, Lifecycle!Absent
      <4>2. Table' = [Table EXCEPT ![k] = [id |-> nextId, status |-> "ready"]]
        BY <1>2, <2>1, <3>1, TableRow
      <4> QED
        BY <1>3, <1>5, <3>1, <4>1, <4>2 DEF Lifecycle!Deliver
    <3>2. CASE rows[k].status # "none"
      <4>1. Table[k] # Lifecycle!Absent
        BY <1>2, <3>2, HeldIds DEF Lifecycle!Absent
      <4>2. Table' = [Table EXCEPT ![k].status = "ready"]
        <5>1. rows'[k].id = rows[k].id
          BY <2>1, <3>2
        <5> QED
          BY <1>2, <2>1, <5>1, TableStatus
      <4> QED
        BY <1>3, <1>5, <3>2, <4>1, <4>2 DEF Lifecycle!Deliver
    <3> QED
      BY <3>1, <3>2
  <2> QED
    BY <1>2, <2>2, <2>3 DEF Lifecycle!TableNext, Lifecycle!Engine
<1> QED
  BY <1>4, <1>5 DEF Record

\* Engine.Queue inserts a row under a fresh id, or tries an 'error' row again.
LEMMA QueueRefines ==
    ASSUME RefinementInv, NEW k \in Keys, Queue(k)
    PROVE  /\ [Lifecycle!TableNext]_(Lifecycle!tableVars)
           /\ HeldInFlight'
<1>1. rows[k] \in Rows /\ rows \in [Keys -> Rows]
  BY DEF RefinementInv, SafetyInv, TypeOK
<1>2. Held' = Held /\ \A j \in Keys : j # k => rows'[j] = rows[j]
  BY <1>1 DEF Queue, Held, Busy
<1>3. CASE rows[k].status = "none"
  <2>1. rows'[k].id = nextId /\ rows'[k].status = "queued" /\ nextId' = nextId + 1
    BY <1>1, <1>3 DEF Queue
  <2>2. Table[k] = Lifecycle!Absent
    BY <1>3, HeldIds DEF Table, Lifecycle!Absent
  <2>3. Table' = [Table EXCEPT ![k] = [id |-> nextId, status |-> "queued"]]
    <3> DEFINE r == [id |-> nextId, status |-> "queued"]
    <3>1. r = [id |-> rows'[k].id, status |-> rows'[k].status]
      BY <2>1
    <3> HIDE DEF r
    <3>2. Table' = [Table EXCEPT ![k] = r]
      BY <1>2, <3>1, TableRow
    <3> QED
      BY <3>2 DEF r
  <2>4. HeldInFlight'
    BY <1>2, <2>1, HeldIds, HeldRow DEF HeldInFlight
  <2> QED
    BY <1>2, <2>1, <2>2, <2>3, <2>4
       DEF Lifecycle!TableNext, Lifecycle!Request, Lifecycle!Enqueue
<1>4. CASE rows[k].status = "error"
  <2>1. rows'[k].id = rows[k].id /\ rows'[k].status = "queued" /\ nextId' = nextId
    BY <1>1, <1>4 DEF Queue, Rows
  <2>2. Table' = [Table EXCEPT ![k].status = "queued"] /\ Table[k].status = "error"
    BY <1>2, <1>4, <2>1, TableStatus, HeldIds
  <2>3. HeldInFlight'
    BY <1>2, <1>4, <2>1, HeldRow DEF HeldInFlight, Lifecycle!InFlight
  <2> QED
    BY <1>2, <2>1, <2>2, <2>3 DEF Lifecycle!TableNext, Lifecycle!Request, Lifecycle!Enqueue
<1>5. CASE rows[k].status \notin {"none", "error"}
  <2>1. rows'[k].id = rows[k].id /\ rows'[k].status = rows[k].status /\ nextId' = nextId
    BY <1>1, <1>5 DEF Queue, Rows
  <2>2. Table' = Table
    BY <1>2, <2>1, TableSame
  <2>3. HeldInFlight'
    BY <1>2, <2>1, HeldRow DEF HeldInFlight
  <2> QED
    BY <1>2, <2>1, <2>2, <2>3 DEF Lifecycle!tableVars
<1> QED
  BY <1>3, <1>4, <1>5

\* The last statement of a cancellation or an eviction changes one row, or none.
LEMMA RequestRefines ==
    ASSUME RefinementInv, NEW r \in Requests, CancelDelete(r) \/ EvictFlip(r)
    PROVE  /\ [Lifecycle!TableNext]_(Lifecycle!tableVars)
           /\ HeldInFlight'
<1> DEFINE i == request[r].id
<1>1. TypeOK /\ 0 < i /\ i # 0
  <2>1. TypeOK /\ request[r].pc # "idle"
    BY DEF RefinementInv, SafetyInv, CancelDelete, EvictFlip
  <2>2. 0 < i
    BY <2>1 DEF RefinementInv, SafetyInv, CallsIdentify
  <2>3. i \in Nat
    BY <2>1 DEF TypeOK, Calls
  <2> QED
    BY <2>1, <2>2, <2>3
<1>2. Held' = Held /\ nextId' = nextId
  <2>1. worker' = worker /\ batch' = batch /\ nextId' = nextId
    BY DEF CancelDelete, EvictFlip
  <2> QED
    BY <2>1 DEF Held, Busy
<1>3. CASE \A k \in Keys : rows[k].id # i
  <2>1. \A k \in Keys : rows'[k] = rows[k]
    BY <1>3 DEF CancelDelete, EvictFlip
  <2> QED
    BY <1>2, <2>1, TableSame, HeldRow DEF HeldInFlight, Lifecycle!tableVars
<1>4. ASSUME NEW k \in Keys, rows[k].id = i
      PROVE  /\ [Lifecycle!TableNext]_(Lifecycle!tableVars)
             /\ HeldInFlight'
  <2>1. \A j \in Keys : j # k => rows'[j] = rows[j]
    BY <1>1, <1>4, OneRow DEF CancelDelete, EvictFlip
  <2>2. Table[k] # Lifecycle!Absent
    BY <1>1, <1>4, HeldIds DEF Lifecycle!Absent
  <2>3. CASE rows'[k] = NoRow
    <3>1. Table' = [Table EXCEPT ![k] = Lifecycle!Absent]
      <4>1. Lifecycle!Absent = [id |-> rows'[k].id, status |-> rows'[k].status]
        BY <2>3 DEF NoRow, Lifecycle!Absent
      <4> QED
        BY <2>1, <4>1, TableRow
    <3>2. HeldInFlight'
      BY <1>2, <2>1, <2>3, HeldIds, HeldRow DEF HeldInFlight, NoRow
    <3> QED
      BY <1>2, <2>2, <3>1, <3>2 DEF Lifecycle!TableNext, Lifecycle!Request, Lifecycle!Delete
  <2>4. CASE rows'[k].id = rows[k].id /\ rows'[k].status = "evicted"
    <3>1. Table' = [Table EXCEPT ![k].status = "evicted"]
      BY <2>1, <2>4, TableStatus
    <3>2. HeldInFlight'
      BY <1>2, <2>1, <2>4, HeldRow DEF HeldInFlight, Lifecycle!InFlight
    <3> QED
      BY <1>2, <2>2, <3>1, <3>2 DEF Lifecycle!TableNext, Lifecycle!Request, Lifecycle!Evict
  <2>5. rows[k] \in Rows
    BY <1>1 DEF TypeOK
  <2>6. CASE CancelDelete(r)
    BY <1>4, <2>3, <2>6 DEF CancelDelete
  <2>7. CASE EvictFlip(r)
    <3>1. rows'[k] = [rows[k] EXCEPT !.status = "evicted", !.path = None]
      BY <1>4, <2>7 DEF EvictFlip
    <3> QED
      BY <2>4, <2>5, <3>1 DEF Rows
  <2> QED
    BY <2>6, <2>7
<1> QED
  BY <1>3, <1>4

\* RunOnce holds nothing when it scans, and holds what it has scanned.
LEMMA ScanRefines ==
    ASSUME RefinementInv, ScanQueued
    PROVE  /\ [Lifecycle!TableNext]_(Lifecycle!tableVars)
           /\ HeldInFlight'
<1>1. \A w \in Workers : ~Busy(w) /\ ~Busy(w)'
  BY DEF ScanQueued, Busy
<1>2. Held = {} /\ Held' = {rows[k].id : k \in {q \in Keys : rows[q].status = "queued"}}
  BY <1>1 DEF ScanQueued, Held
<1>3. {rows[k].id : k \in {q \in Keys : rows[q].status = "queued"}}
        = {Table[k].id : k \in {q \in Keys : Table[q].status = "queued"}}
  BY HeldIds
<1>4. HeldInFlight'
  <2> SUFFICES ASSUME NEW k \in Keys, rows[k].id \in Held'
               PROVE  rows[k].status \in Lifecycle!InFlight
    BY DEF HeldInFlight, ScanQueued
  <2>1. PICK q \in Keys : rows[q].status = "queued" /\ rows[q].id = rows[k].id
    BY <1>2
  <2>2. rows[q].id # 0
    BY <2>1, HeldIds
  <2>3. q = k
    BY <2>1, <2>2, OneRow
  <2> QED
    BY <2>1, <2>3 DEF Lifecycle!InFlight
<1> QED
  BY <1>2, <1>3, <1>4 DEF ScanQueued, Table, Lifecycle!TableNext, Lifecycle!Engine, Lifecycle!Claim

\* A new generation finds nothing held and queues what was 'downloading' again.
LEMMA RestartRefines ==
    ASSUME RefinementInv, rows' = ResetStaleDownloads, nextId' = nextId, Held = {}, Held' = {}
    PROVE  /\ [Lifecycle!TableNext]_(Lifecycle!tableVars)
           /\ HeldInFlight'
<1>1. \A k \in Keys : rows[k] \in Rows
  BY DEF RefinementInv, SafetyInv, TypeOK
<1>2. \A k \in Keys : /\ rows'[k].id = rows[k].id
                      /\ rows'[k].status = IF rows[k].status = "downloading" THEN "queued"
                                           ELSE rows[k].status
  BY <1>1 DEF ResetStaleDownloads, Rows
<1>3. Table' = [k \in Keys |->
          [Table[k] EXCEPT !.status = IF @ = "downloading" THEN "queued" ELSE @]]
  BY <1>2 DEF Table
<1> QED
  BY <1>3 DEF HeldInFlight, Lifecycle!TableNext, Lifecycle!Engine, Lifecycle!Restart

-----------------------------------------------------------------------------
LEMMA RefinementInit == Init => RefinementInv /\ Lifecycle!TableInit
<1> SUFFICES ASSUME Init PROVE RefinementInv /\ Lifecycle!TableInit
  OBVIOUS
<1>1. Held = {}
  BY DEF Init, Held, Busy, Idle
<1>2. Table = [k \in Keys |-> Lifecycle!Absent]
  BY DEF Init, Table, NoRow, Lifecycle!Absent
<1> QED
  BY <1>1, <1>2, SafetyInit DEF Init, RefinementInv, HeldInFlight, DownHoldsNothing,
                                Lifecycle!TableInit

LEMMA StepRefines ==
    ASSUME RefinementInv, [Next]_vars
    PROVE  /\ [Lifecycle!TableNext]_(Lifecycle!tableVars)
           /\ HeldInFlight'
<1> DEFINE Goal == [Lifecycle!TableNext]_(Lifecycle!tableVars) /\ HeldInFlight'
<1>1. ASSUME rows' = rows, nextId' = nextId, Held' \subseteq Held PROVE Goal
  <2>1. Table' = Table
    BY <1>1 DEF Table
  <2> QED
    BY <1>1, <2>1, HeldShrinks DEF Lifecycle!TableNext, Lifecycle!Engine, Lifecycle!Release
<1>2. CASE UNCHANGED vars
  BY <1>1, <1>2 DEF vars, Held, Busy
<1>3. ASSUME NEW k \in Keys, Replace(k) PROVE Goal
  BY <1>1, <1>3 DEF Replace, Held, Busy
<1>4. ASSUME NEW w \in Workers, Dispatch(w) PROVE Goal
  <2>1. rows' = rows /\ nextId' = nextId
    BY <1>4 DEF Dispatch
  <2>2. Held' \subseteq Held
    <3>1. worker \in [Workers -> Slots]
      BY DEF RefinementInv, SafetyInv, TypeOK
    <3>2. \A v \in Workers : Busy(v)' => worker'[v].id \in Held
      <4>1. CASE worker' = worker
        BY <4>1 DEF Held, Busy
      <4>2. ASSUME NEW i \in batch, NEW k \in Keys,
                   worker' = [worker EXCEPT ![w] =
                      [Idle EXCEPT !.pc = "resolve", !.id = i, !.key = k, !.size = rows[k].size]]
            PROVE  \A v \in Workers : Busy(v)' => worker'[v].id \in Held
        <5>1. worker'[w].id = i /\ \A v \in Workers : v # w => worker'[v] = worker[v]
          BY <3>1, <4>2 DEF Idle
        <5> QED
          BY <5>1 DEF Held, Busy
      <4> QED
        BY <1>4, <4>1, <4>2 DEF Dispatch
    <3>3. batch' \subseteq Held
      BY <1>4 DEF Dispatch, Held
    <3> QED
      BY <3>2, <3>3 DEF Held
  <2> QED
    BY <1>1, <2>1, <2>2
<1>5. ASSUME NEW w \in Workers, DownloadStep(w) PROVE Goal
  BY <1>5, DownloadRefines, RecordRefines
<1>6. ASSUME NEW r \in Requests,
             CancelCheck(r) \/ EvictLoad(r) \/ CancelUnlink(r) \/ EvictRemove(r) \/ RequestAborts(r)
      PROVE  Goal
  BY <1>1, <1>6 DEF CancelCheck, EvictLoad, CancelUnlink, EvictRemove, RequestAborts, Held, Busy
<1>7. CASE AbandonBatch \/ Reload
  BY <1>1, <1>7 DEF AbandonBatch, Reload, Held, Busy
<1>8. CASE Crash
  BY <1>1, <1>8 DEF Crash, Held, Busy, Idle
<1>9. CASE Relaunch
  <2>1. Held = {} /\ Held' = {}
    BY <1>9 DEF Relaunch, Held, Busy
  <2> QED
    BY <1>9, <2>1, RestartRefines DEF Relaunch
<1>10. CASE Start
  <2>1. Held = {} /\ Held' = {}
    BY <1>10 DEF Start, Held, Busy, RefinementInv, DownHoldsNothing
  <2> QED
    BY <1>10, <2>1, RestartRefines DEF Start
<1> QED
  BY <1>2, <1>3, <1>4, <1>5, <1>6, <1>7, <1>8, <1>9, <1>10, QueueRefines, RequestRefines, ScanRefines
     DEF Next, RequestStep

LEMMA DownInduction == ASSUME RefinementInv, [Next]_vars PROVE DownHoldsNothing'
<1>1. TypeOK /\ (engine = "down" => Held = {})
  BY DEF RefinementInv, SafetyInv, DownHoldsNothing
<1>2. CASE engine' = engine /\ Held' \subseteq Held
  BY <1>1, <1>2 DEF DownHoldsNothing
<1>3. CASE engine' # "down"
  BY <1>3 DEF DownHoldsNothing
<1>4. CASE UNCHANGED vars
  BY <1>2, <1>4 DEF vars, Held, Busy
<1>5. ASSUME NEW k \in Keys, Queue(k) \/ Replace(k) PROVE DownHoldsNothing'
  BY <1>2, <1>5 DEF Queue, Replace, Held, Busy
<1>6. ASSUME NEW w \in Workers, Dispatch(w) PROVE DownHoldsNothing'
  BY <1>3, <1>6 DEF Dispatch
<1>7. ASSUME NEW w \in Workers, DownloadStep(w) PROVE DownHoldsNothing'
  <2>1. Busy(w) /\ engine' = engine
    BY <1>1, <1>7, DownloadStepOutcome
  <2>2. Held # {}
    BY <2>1 DEF Held
  <2> QED
    BY <1>1, <1>3, <2>1, <2>2
<1>8. ASSUME NEW r \in Requests,
             CancelCheck(r) \/ EvictLoad(r) \/ RequestStep(r) \/ RequestAborts(r)
      PROVE  DownHoldsNothing'
  BY <1>2, <1>8 DEF CancelCheck, EvictLoad, RequestStep, CancelDelete, CancelUnlink, EvictRemove,
                    EvictFlip, RequestAborts, Held, Busy
<1>9. CASE ScanQueued \/ AbandonBatch \/ Reload \/ Relaunch \/ Start
  BY <1>3, <1>9 DEF ScanQueued, AbandonBatch, Reload, Relaunch, Start
<1>10. CASE Crash
  BY <1>10 DEF Crash, DownHoldsNothing, Held, Busy, Idle
<1> QED
  BY <1>4, <1>5, <1>6, <1>7, <1>8, <1>9, <1>10 DEF Next

LEMMA RefinementInduction ==
    RefinementInv /\ [Next]_vars =>
        RefinementInv' /\ [Lifecycle!TableNext]_(Lifecycle!tableVars)
  BY StepRefines, DownInduction, SafetyInduction DEF RefinementInv

\* Whatever the engine, the handlers, reloads and crashes do, a reader of the
\* items table sees no more than what ItemLifecycle says: every step of Mirror
\* is one of its steps, or leaves what it shows alone.
THEOREM Refinement == Spec => ImplementsLifecycle
<1>1. RefinementInv /\ [Next]_vars => RefinementInv' /\ [Lifecycle!TableNext]_(Lifecycle!tableVars)
  BY RefinementInduction
<1> QED
  BY <1>1, RefinementInit, PTL DEF Spec, ImplementsLifecycle, Lifecycle!TableSpec

\* The engine never holds a row that is 'ready' or has failed, so no late write
\* of a download takes such a row back.
THEOREM EngineHoldsInFlight == Spec => []HeldInFlight
<1>1. RefinementInv => HeldInFlight
  BY DEF RefinementInv
<1> QED
  BY <1>1, RefinementInduction, RefinementInit, PTL DEF Spec
=============================================================================
