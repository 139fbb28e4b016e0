----------------------------- MODULE MirrorFiles -----------------------------
(* The files of Mirror: what a 'ready' row finds on the disk, and what a    *)
(* resume appends to, for every set of items, slots, handlers and paths.    *)
EXTENDS MirrorRefinement, SequenceTheorems

-----------------------------------------------------------------------------
(* What a step can do to one row.                                          *)

\* The row keeps its id and path; its status changes only if the engine may
\* write it, and then neither from nor to 'ready'.
Written(k) ==
    /\ rows'[k].id = rows[k].id
    /\ rows'[k].path = rows[k].path
    /\ rows'[k].size \in {rows[k].size, SizeOf[upstream[k]]}
    /\ \/ rows'[k].status = rows[k].status
       \/ /\ rows[k].status \in {"queued", "downloading", "error"} \/ rows[k].id \in Held
          /\ rows[k].status \notin {"none", "ready"}
          /\ rows'[k].status \in {"queued", "downloading", "error"}

Inserted(k) ==
    /\ rows[k].status = "none"
    /\ rows'[k].status = "queued"
    /\ rows'[k].size = SizeOf[upstream[k]]
    /\ rows'[k].path = None

Delivered(k) ==
    \E w \in Workers :
        /\ Record(w)
        /\ worker[w].key = k
        /\ rows'[k].id = (IF rows[k].status = "none" THEN nextId ELSE rows[k].id)
        /\ rows'[k].status = "ready"
        /\ rows'[k].size = worker[w].size
        /\ rows'[k].path = worker[w].path

Deleted(k) ==
    /\ rows'[k] = NoRow
    /\ \E r \in Requests : request[r].pc = "delete" /\ request[r].id = rows[k].id

Flipped(k) ==
    /\ \E r \in Requests : EvictFlip(r) /\ request[r].id = rows[k].id
    /\ rows'[k].id = rows[k].id
    /\ rows'[k].status = "evicted"
    /\ rows'[k].size = rows[k].size
    /\ rows'[k].path = None

LEMMA SameRow == ASSUME NEW k \in Keys, rows'[k] = rows[k] PROVE Written(k)
  BY DEF Written

\* A row that the engine sets by id is one that it holds.
LEMMA SetStatusRow ==
    ASSUME RefinementInv, NEW i \in Held, NEW s \in {"downloading", "error"},
           rows' = SetStatus(i, s), NEW k \in Keys
    PROVE  Written(k)
<1>1. rows[k] \in Rows
  BY DEF RefinementInv, SafetyInv, TypeOK
<1>2. CASE rows[k].id = i
  <2>1. rows'[k] = [rows[k] EXCEPT !.status = s]
    BY <1>2 DEF SetStatus
  <2>2. rows[k].status \in Lifecycle!InFlight
    BY <1>2, HeldRow
  <2> QED
    BY <1>1, <1>2, <2>1, <2>2 DEF Rows, Written, Lifecycle!InFlight
<1>3. CASE rows[k].id # i
  BY <1>3, SameRow DEF SetStatus
<1> QED
  BY <1>2, <1>3

LEMMA DownloadRow ==
    ASSUME RefinementInv, NEW w \in Workers, DownloadStep(w), NEW k \in Keys
    PROVE  Written(k) \/ Delivered(k)
<1>1. TypeOK /\ Busy(w) /\ worker[w] \in Slots /\ rows \in [Keys -> Rows]
  BY DownloadStepOutcome DEF RefinementInv, SafetyInv, TypeOK
<1>2. worker[w].id \in Held
  BY <1>1 DEF Held
<1>3. CASE rows' = rows
  BY <1>3, SameRow
<1>4. CASE \E s \in {"downloading", "error"} : rows' = SetStatus(worker[w].id, s)
  BY <1>2, <1>4, SetStatusRow
<1>5. CASE Record(w) /\ rows' # rows
  <2> DEFINE j == worker[w].key
             new == [id |-> IF rows[j].status = "none" THEN nextId ELSE rows[j].id,
                     status |-> "ready", size |-> worker[w].size, path |-> worker[w].path]
  <2>1. rows' = [rows EXCEPT ![j] = new]
    BY <1>5 DEF Record
  <2>2. CASE k = j
    <3>1. rows'[k] = new
      BY <1>1, <2>1, <2>2
    <3> QED
      BY <1>5, <2>2, <3>1 DEF Delivered
  <2>3. CASE k # j
    <3>1. rows'[k] = rows[k]
      BY <1>1, <2>1, <2>3
    <3> QED
      BY <3>1, SameRow
  <2> QED
    BY <2>2, <2>3
<1> QED
  BY <1>1, <1>3, <1>4, <1>5, DownloadStepOutcome DEF Fail, Commit

LEMMA RowStep ==
    ASSUME RefinementInv, [Next]_vars, NEW k \in Keys
    PROVE  Written(k) \/ Inserted(k) \/ Delivered(k) \/ Deleted(k) \/ Flipped(k)
<1> DEFINE Goal == Written(k) \/ Inserted(k) \/ Delivered(k) \/ Deleted(k) \/ Flipped(k)
<1>1. TypeOK /\ rows[k] \in Rows /\ rows \in [Keys -> Rows]
  BY DEF RefinementInv, SafetyInv, TypeOK
<1>2. CASE rows' = rows
  BY <1>2, SameRow
<1>3. ASSUME NEW j \in Keys, Queue(j) PROVE Goal
  <2>1. CASE j # k
    <3>1. rows'[k] = rows[k]
      BY <1>1, <1>3, <2>1 DEF Queue
    <3> QED
      BY <3>1, SameRow
  <2>2. CASE j = k /\ rows[k].status = "none"
    BY <1>1, <1>3, <2>2 DEF Queue, Inserted
  <2>3. CASE j = k /\ rows[k].status # "none"
    BY <1>1, <1>3, <2>3 DEF Queue, Written, Rows
  <2> QED
    BY <2>1, <2>2, <2>3
<1>4. ASSUME NEW w \in Workers, DownloadStep(w) PROVE Goal
  BY <1>4, DownloadRow
<1>5. ASSUME NEW r \in Requests, CancelDelete(r) PROVE Goal
  <2>1. CASE rows[k].id = request[r].id
    BY <1>5, <2>1 DEF CancelDelete, Deleted
  <2>2. CASE rows[k].id # request[r].id
    BY <1>5, <2>2, SameRow DEF CancelDelete
  <2> QED
    BY <2>1, <2>2
<1>6. ASSUME NEW r \in Requests, EvictFlip(r) PROVE Goal
  <2>1. CASE rows[k].id = request[r].id
    <3>1. rows'[k] = [rows[k] EXCEPT !.status = "evicted", !.path = None]
      BY <1>6, <2>1 DEF EvictFlip
    <3> QED
      BY <1>1, <1>6, <2>1, <3>1 DEF Flipped, Rows
  <2>2. CASE rows[k].id # request[r].id
    BY <1>6, <2>2, SameRow DEF EvictFlip
  <2> QED
    BY <2>1, <2>2
<1>7. CASE rows' = ResetStaleDownloads
  BY <1>1, <1>7 DEF ResetStaleDownloads, Written, Rows
<1> QED
  BY <1>2, <1>3, <1>4, <1>5, <1>6, <1>7
     DEF Next, vars, RequestStep, Replace, Dispatch, CancelCheck, EvictLoad, CancelUnlink,
         EvictRemove, RequestAborts, ScanQueued, AbandonBatch, Reload, Relaunch, Crash, Start

LEMMA ReadyStays == ASSUME RefinementInv, [Next]_vars, NEW k \in Keys, rows[k].status = "ready"
                    PROVE  \/ rows'[k].status \in {"ready", "evicted"} /\ rows'[k].id = rows[k].id
                           \/ Deleted(k)
  BY RowStep DEF Written, Inserted, Delivered, Flipped

\* A 'ready' row is what readers of the library rely on.  It stays, under its
\* id, until it is evicted, or deleted by a cancellation that has checked it
\* earlier: by no late step of a download, reload, restart, crash or re-queue.
THEOREM ReadyIsKept == Spec => ReadyUntilEvicted
<1>1. RefinementInv /\ [Next]_vars =>
          [\A k \in Keys : rows[k].status = "ready" =>
             \/ rows'[k].status \in {"ready", "evicted"} /\ rows'[k].id = rows[k].id
             \/ \E r \in Requests :
                   request[r].pc = "delete" /\ request[r].id = rows[k].id /\ rows'[k] = NoRow]_vars
  BY ReadyStays DEF Deleted
<1> QED
  BY <1>1, RefinementInit, RefinementInduction, PTL DEF Spec, ReadyUntilEvicted

-----------------------------------------------------------------------------
(* What a step can do to one slot, one handler and one file.               *)

\* The slot takes an id of the batch, and the row that has it.
Dispatched(w) ==
    /\ Dispatch(w)
    /\ \E k \in Keys :
        /\ rows[k].id \in batch
        /\ worker'[w] = [Idle EXCEPT !.pc = "resolve", !.id = rows[k].id, !.key = k,
                                     !.size = rows[k].size]

\* The Download in the slot goes on with its item.
GoesOn(w) ==
    /\ DownloadStep(w)
    /\ Busy(w)
    /\ worker'[w].pc \notin {"idle", "resolve"}
    /\ worker'[w].id = worker[w].id
    /\ worker'[w].key = worker[w].key
    /\ worker'[w].size = worker[w].size
    /\ worker'[w].path = worker[w].path \/ worker'[w].path \in Destinations[worker[w].key]
    /\ worker[w].pc = "resolve" => worker'[w].path \in Destinations[worker[w].key]
    /\ worker'[w].pc = "record" => Import(w) /\ worker'[w].path = worker[w].path

LEMMA DownloadSlot == ASSUME TypeOK, NEW w \in Workers, DownloadStep(w)
                      PROVE  worker'[w] = Idle \/ GoesOn(w)
<1>1. Busy(w) /\ worker[w] \in Slots /\ worker \in [Workers -> Slots]
  BY DownloadStepOutcome DEF TypeOK
<1>2. CASE Return(w)
  BY <1>1, <1>2 DEF Return
<1>3. CASE ~Return(w)
  <2>1. CASE Resolve(w)
    BY <1>1, <1>3, <2>1 DEF Resolve, Fail, GoesOn, Slots
  <2>2. CASE Mark(w)
    BY <1>1, <1>3, <2>2 DEF Mark, GoesOn, Slots
  <2>3. CASE Fetch(w)
    BY <1>1, <1>3, <2>3 DEF Fetch, RespondFull, RespondRange, RespondUnsatisfiable, Fail, GoesOn, Slots
  <2>4. CASE ReadBlock(w)
    BY <1>1, <2>4 DEF ReadBlock, GoesOn, Slots
  <2>5. CASE EndBody(w)
    BY <1>1, <2>5 DEF EndBody, GoesOn, Slots
  <2>6. CASE Backoff(w)
    BY <1>1, <1>3, <2>6 DEF Backoff, Fail, GoesOn, Slots
  <2>7. CASE Import(w)
    BY <1>1, <1>3, <2>7 DEF Import, Fail, GoesOn, Slots
  <2> QED
    BY <1>3, <2>1, <2>2, <2>3, <2>4, <2>5, <2>6, <2>7 DEF DownloadStep, GoesOn, Interrupted, Record
<1> QED
  BY <1>2, <1>3

\* The slots of others, and what no Download touches.
LEMMA DownloadFrame ==
    ASSUME TypeOK, NEW w \in Workers, DownloadStep(w)
    PROVE  /\ \A v \in Workers : v # w => worker'[v] = worker[v]
           /\ \A k \in Keys : k # worker[w].key => partial'[k] = partial[k]
           /\ request' = request /\ upstream' = upstream
           /\ final' = final \/ Import(w)
<1>1. worker \in [Workers -> Slots] /\ partial \in [Keys -> Files] /\ worker[w].key \in Keys
  BY DownloadStepOutcome DEF TypeOK, Busy, Slots
<1>2. \A v \in Workers : v # w => worker'[v] = worker[v]
  BY <1>1 DEF DownloadStep, Resolve, Mark, Fetch, ReadBlock, EndBody, Backoff, Interrupted, Import,
              Record, Fail, Return, RespondFull, RespondRange, RespondUnsatisfiable
<1>3. \A k \in Keys : k # worker[w].key => partial'[k] = partial[k]
  BY <1>1 DEF DownloadStep, Resolve, Mark, Fetch, ReadBlock, EndBody, Backoff, Interrupted, Import,
              Record, RespondFull, RespondRange, RespondUnsatisfiable
<1>4. request' = request /\ upstream' = upstream /\ (final' = final \/ Import(w))
  BY DEF DownloadStep, Resolve, Mark, Fetch, ReadBlock, EndBody, Backoff, Interrupted, Import,
         Record
<1> QED
  BY <1>2, <1>3, <1>4

LEMMA SlotStep ==
    ASSUME RefinementInv, [Next]_vars, NEW w \in Workers
    PROVE  worker'[w] = worker[w] \/ worker'[w] = Idle \/ Dispatched(w) \/ GoesOn(w)
<1>1. TypeOK /\ worker \in [Workers -> Slots]
  BY DEF RefinementInv, SafetyInv, TypeOK
<1>2. CASE worker' = worker
  BY <1>2
<1>3. ASSUME NEW v \in Workers, Dispatch(v)
      PROVE  worker'[w] = worker[w] \/ Dispatched(w)
  <2>1. CASE v = w
    BY <1>1, <1>3, <2>1 DEF Dispatch, Dispatched
  <2>2. CASE v # w
    BY <1>1, <1>3, <2>2 DEF Dispatch
  <2> QED
    BY <2>1, <2>2
<1>4. ASSUME NEW v \in Workers, DownloadStep(v)
      PROVE  worker'[w] = worker[w] \/ worker'[w] = Idle \/ GoesOn(w)
  BY <1>1, <1>4, DownloadSlot, DownloadFrame
<1>5. CASE Crash
  BY <1>5 DEF Crash
<1> QED
  BY <1>2, <1>3, <1>4, <1>5
     DEF Next, vars, RequestStep, Queue, Replace, CancelCheck, CancelDelete, EvictLoad, EvictFlip,
         CancelUnlink, EvictRemove, RequestAborts, ScanQueued, AbandonBatch, Reload, Relaunch, Start

LEMMA DispatchedSlot ==
    ASSUME NEW w \in Workers, Dispatched(w)
    PROVE  \E k \in Keys : /\ rows[k].id \in batch
                          /\ worker'[w].pc = "resolve"
                          /\ worker'[w].id = rows[k].id
                          /\ worker'[w].key = k
                          /\ worker'[w].size = rows[k].size
<1>1. PICK k \in Keys :
         /\ rows[k].id \in batch
         /\ worker'[w] = [Idle EXCEPT !.pc = "resolve", !.id = rows[k].id, !.key = k,
                                      !.size = rows[k].size]
  BY DEF Dispatched
<1>2. /\ worker'[w].pc = "resolve" /\ worker'[w].id = rows[k].id /\ worker'[w].key = k
      /\ worker'[w].size = rows[k].size
  BY <1>1 DEF Idle
<1> QED
  BY <1>1, <1>2

\* A handler that loads a row for an eviction changes nothing else.
Loaded(r) ==
    /\ EvictLoad(r)
    /\ \E k \in Keys :
        /\ rows[k].status # "none"
        /\ request'[r].pc = (IF rows[k].path = None THEN "flip" ELSE "remove")
        /\ request'[r].id = rows[k].id
        /\ request'[r].key = k
        /\ request'[r].path = rows[k].path

\* A handler that goes on keeps the id and the key.
Proceeds(r) ==
    /\ \/ EvictRemove(r) /\ request'[r].pc = "flip"
       \/ request[r].pc = "delete" /\ request'[r].pc = "unlink"
    /\ request'[r].id = request[r].id
    /\ request'[r].key = request[r].key

Ends(r) ==
    /\ request'[r] = NoRequest
    /\ \/ request[r].pc = "unlink" \/ EvictFlip(r)
       \/ "abort" \in Events \/ "crash" \in Events

Checked(r) ==
    "cancel" \in Events /\ request'[r].pc = "delete"

LEMMA CallStep ==
    ASSUME RefinementInv, [Next]_vars, NEW r \in Requests
    PROVE  \/ request'[r] = request[r]
           \/ Loaded(r) \/ Proceeds(r) \/ Ends(r) \/ Checked(r)
<1> DEFINE Goal == \/ request'[r] = request[r]
                   \/ Loaded(r) \/ Proceeds(r) \/ Ends(r) \/ Checked(r)
<1>1. TypeOK /\ request \in [Requests -> Calls]
  BY DEF RefinementInv, SafetyInv, TypeOK
<1>2. CASE request' = request
  BY <1>2
<1>3. ASSUME NEW q \in Requests, CancelCheck(q) PROVE Goal
  BY <1>1, <1>3 DEF CancelCheck, Checked
<1>4. ASSUME NEW q \in Requests, EvictLoad(q) PROVE Goal
  <2>1. PICK k \in Keys :
           /\ rows[k].status # "none"
           /\ request' = [request EXCEPT ![q] =
                 [pc |-> IF rows[k].path = None THEN "flip" ELSE "remove",
                  id |-> rows[k].id, key |-> k, path |-> rows[k].path]]
    BY <1>4 DEF EvictLoad
  <2>2. CASE q = r
    BY <1>1, <1>4, <2>1, <2>2 DEF Loaded
  <2>3. CASE q # r
    BY <1>1, <2>1, <2>3
  <2> QED
    BY <2>2, <2>3
<1>5. ASSUME NEW q \in Requests, CancelDelete(q) \/ EvictRemove(q) PROVE Goal
  <2>1. request[q] \in Calls /\ \A p \in Requests : p # q => request'[p] = request[p]
    BY <1>1, <1>5 DEF CancelDelete, EvictRemove
  <2>2. CASE CancelDelete(q)
    <3>1. request'[q] = [request[q] EXCEPT !.pc = "unlink"]
      BY <1>1, <2>2 DEF CancelDelete
    <3> QED
      BY <2>1, <2>2, <3>1 DEF CancelDelete, Proceeds, Calls
  <2>3. CASE EvictRemove(q)
    <3>1. request'[q] = [request[q] EXCEPT !.pc = "flip"]
      BY <1>1, <2>3 DEF EvictRemove
    <3> QED
      BY <2>1, <2>3, <3>1 DEF Proceeds, Calls
  <2> QED
    BY <1>5, <2>2, <2>3
<1>6. ASSUME NEW q \in Requests, CancelUnlink(q) \/ EvictFlip(q) \/ RequestAborts(q) PROVE Goal
  <2>1. \A p \in Requests : request'[p] = IF p = q THEN NoRequest ELSE request[p]
    BY <1>1, <1>6 DEF CancelUnlink, EvictFlip, RequestAborts
  <2> QED
    BY <1>6, <2>1 DEF CancelUnlink, RequestAborts, Ends
<1>7. CASE Crash
  BY <1>7 DEF Crash, Ends
<1>8. ASSUME NEW w \in Workers, DownloadStep(w) PROVE Goal
  BY <1>1, <1>8, DownloadFrame
<1> QED
  BY <1>2, <1>3, <1>4, <1>5, <1>6, <1>7, <1>8
     DEF Next, vars, RequestStep, Queue, Replace, Dispatch, ScanQueued, AbandonBatch, Reload,
         Relaunch, Start

\* A library file is replaced by an import and removed by an eviction.
Imported(p) ==
    \E w \in Workers :
        /\ Import(w)
        /\ worker[w].path = p
        /\ worker'[w].pc = "record"
        /\ partial[worker[w].key] # None
        /\ Len(partial[worker[w].key]) = worker[w].size
        /\ final'[p] = partial[worker[w].key]

Removed(p) ==
    /\ \E r \in Requests : EvictRemove(r) /\ request[r].path = p
    /\ final'[p] = None

LEMMA FileStep == ASSUME RefinementInv, [Next]_vars, NEW p \in Paths
                  PROVE  final'[p] = final[p] \/ Imported(p) \/ Removed(p)
<1>1. TypeOK /\ final \in [Paths -> Files] /\ worker \in [Workers -> Slots]
  BY DEF RefinementInv, SafetyInv, TypeOK
<1>2. CASE final' = final
  BY <1>2
<1>3. ASSUME NEW w \in Workers, Import(w) PROVE final'[p] = final[p] \/ Imported(p)
  BY <1>1, <1>3 DEF Import, Imported, Slots
<1>4. ASSUME NEW r \in Requests, EvictRemove(r) PROVE final'[p] = final[p] \/ Removed(p)
  BY <1>1, <1>4 DEF EvictRemove, Removed
<1>5. ASSUME NEW w \in Workers, DownloadStep(w) PROVE final' = final \/ Import(w)
  BY <1>1, <1>5, DownloadFrame
<1> QED
  BY <1>2, <1>3, <1>4, <1>5
     DEF Next, vars, RequestStep, Queue, Replace, Dispatch, ScanQueued, AbandonBatch, Reload,
         Relaunch, Start, Crash, CancelCheck, CancelDelete, EvictLoad, EvictFlip, CancelUnlink,
         RequestAborts

\* The engine comes to hold only ids of queued rows.
LEMMA HeldStep == ASSUME RefinementInv, [Next]_vars, NEW i \in Held'
                  PROVE  i \in Held \/ \E k \in Keys : rows[k].status = "queued" /\ rows[k].id = i
<1>1. TypeOK
  BY DEF RefinementInv, SafetyInv
<1>2. batch' \subseteq batch
      \/ batch' = {rows[k].id : k \in {q \in Keys : rows[q].status = "queued"}}
  <2>1. ASSUME NEW w \in Workers, DownloadStep(w) PROVE batch' = batch
    BY <1>1, <2>1, DownloadStepOutcome
  <2> QED
    BY <2>1 DEF Next, vars, RequestStep, Queue, Replace, Dispatch, ScanQueued, AbandonBatch, Reload,
         Relaunch, Start, Crash, CancelCheck, CancelDelete, EvictLoad, EvictFlip, CancelUnlink,
         RequestAborts, EvictRemove
<1>3. ASSUME NEW w \in Workers, Busy(w)' PROVE worker'[w].id \in Held
  <2>1. CASE Dispatched(w)
    BY <2>1, DispatchedSlot DEF Held
  <2>2. CASE GoesOn(w) \/ worker'[w] = worker[w]
    BY <1>3, <2>2 DEF GoesOn, Held, Busy
  <2>3. worker'[w] # Idle
    BY <1>3 DEF Busy, Idle
  <2> QED
    BY <2>1, <2>2, <2>3, SlotStep
<1>4. CASE i \in batch'
  BY <1>2, <1>4 DEF Held
<1>5. CASE i \notin batch'
  BY <1>3, <1>5 DEF Held
<1> QED
  BY <1>4, <1>5

-----------------------------------------------------------------------------
(* Paths: who has one, and whose it is.                                    *)

LEMMA PathsInduction == ASSUME RefinementInv, PathsFollowLayout, [Next]_vars
                        PROVE  PathsFollowLayout'
<1>1. \A k \in Keys : IF rows'[k].status = "ready" THEN rows'[k].path \in Destinations[k]
                                                   ELSE rows'[k].path = None
  <2> SUFFICES ASSUME NEW k \in Keys
               PROVE  IF rows'[k].status = "ready" THEN rows'[k].path \in Destinations[k]
                                                   ELSE rows'[k].path = None
    OBVIOUS
  <2>1. CASE Written(k)
    BY <2>1 DEF Written, PathsFollowLayout
  <2>2. CASE Inserted(k) \/ Deleted(k) \/ Flipped(k)
    BY <2>2 DEF Inserted, Deleted, Flipped, NoRow
  <2>3. CASE Delivered(k)
    BY <2>3 DEF Delivered, Record, PathsFollowLayout
  <2> QED
    BY <2>1, <2>2, <2>3, RowStep
<1>2. \A w \in Workers : worker'[w].pc \notin {"idle", "resolve"} =>
          worker'[w].path \in Destinations[worker'[w].key]
  <2> SUFFICES ASSUME NEW w \in Workers, worker'[w].pc \notin {"idle", "resolve"}
               PROVE  worker'[w].path \in Destinations[worker'[w].key]
    OBVIOUS
  <2>1. CASE worker'[w] = worker[w]
    BY <2>1 DEF PathsFollowLayout
  <2>2. CASE GoesOn(w)
    BY <2>2 DEF GoesOn, Busy, PathsFollowLayout
  <2>3. ~Dispatched(w) /\ worker'[w] # Idle
    BY DispatchedSlot DEF Idle
  <2> QED
    BY <2>1, <2>2, <2>3, SlotStep
<1> QED
  BY <1>1, <1>2 DEF PathsFollowLayout

\* Without cancellations a row, once it is there, keeps its id.
LEMMA IdStays == ASSUME RefinementInv, NothingCancelled, [Next]_vars, "cancel" \notin Events,
                        NEW k \in Keys, rows[k].id # 0
                 PROVE  rows'[k].id = rows[k].id
<1>1. rows[k].status # "none"
  BY HeldIds
<1>2. ~Deleted(k)
  BY DEF Deleted, NothingCancelled
<1> QED
  BY <1>1, <1>2, RowStep DEF Written, Inserted, Delivered, Flipped

LEMMA CancelledInduction == ASSUME RefinementInv, NothingCancelled, [Next]_vars
                            PROVE  NothingCancelled'
<1> SUFFICES ASSUME "cancel" \notin Events
             PROVE  /\ \A w \in Workers : Busy(w)' => rows'[worker'[w].key].id = worker'[w].id
                    /\ \A r \in Requests : request'[r].pc # "idle" =>
                          /\ request'[r].pc \notin {"delete", "unlink"}
                          /\ rows'[request'[r].key].id = request'[r].id
  BY DEF NothingCancelled
<1>1. TypeOK /\ SlotsIdentify /\ CallsIdentify /\ IdsIdentify
  BY DEF RefinementInv, SafetyInv
<1>2. \A w \in Workers : Busy(w) => worker[w].key \in Keys /\ worker[w].id # 0
  BY <1>1 DEF TypeOK, Slots, Busy, SlotsIdentify
<1>3. \A r \in Requests : request[r].pc # "idle" => request[r].key \in Keys /\ request[r].id # 0
  BY <1>1 DEF TypeOK, Calls, CallsIdentify
<1>4. ASSUME NEW w \in Workers, Busy(w)'
      PROVE  rows'[worker'[w].key].id = worker'[w].id
  <2>1. worker'[w] # Idle
    BY <1>4 DEF Busy, Idle
  <2>2. CASE worker'[w] = worker[w] \/ GoesOn(w)
    <3>1. Busy(w) /\ worker'[w].id = worker[w].id /\ worker'[w].key = worker[w].key
      BY <1>4, <2>2 DEF Busy, GoesOn
    <3>2. rows[worker[w].key].id = worker[w].id
      BY <3>1 DEF NothingCancelled
    <3> QED
      BY <1>2, <3>1, <3>2, IdStays
  <2>3. CASE Dispatched(w)
    BY <2>3, DispatchedSlot DEF Dispatched, Dispatch
  <2> QED
    BY <2>1, <2>2, <2>3, SlotStep
<1>5. ASSUME NEW r \in Requests, request'[r].pc # "idle"
      PROVE  /\ request'[r].pc \notin {"delete", "unlink"}
             /\ rows'[request'[r].key].id = request'[r].id
  <2>1. ~Ends(r) /\ ~Checked(r)
    BY <1>5 DEF Ends, Checked, NoRequest
  <2>2. CASE request'[r] = request[r] \/ Proceeds(r)
    <3>1. request[r].pc # "idle" /\ request'[r].id = request[r].id /\ request'[r].key = request[r].key
      BY <1>5, <2>2 DEF Proceeds, EvictRemove
    <3>2. /\ request[r].pc \notin {"delete", "unlink"}
          /\ rows[request[r].key].id = request[r].id
      BY <3>1 DEF NothingCancelled
    <3>3. request'[r].pc \notin {"delete", "unlink"}
      BY <2>2, <3>2 DEF Proceeds
    <3> QED
      BY <1>3, <3>1, <3>2, <3>3, IdStays
  <2>3. CASE Loaded(r)
    <3>1. PICK k \in Keys :
            /\ request'[r].pc = (IF rows[k].path = None THEN "flip" ELSE "remove")
            /\ request'[r].id = rows[k].id
            /\ request'[r].key = k
      BY <2>3 DEF Loaded
    <3>2. rows' = rows
      BY <2>3 DEF Loaded, EvictLoad
    <3> QED
      BY <3>1, <3>2
  <2> QED
    BY <2>1, <2>2, <2>3, CallStep
<1> QED
  BY <1>4, <1>5

\* Without cancellations, a slot that records an item holds the row of its key.
LEMMA RecordsHeld == ASSUME RefinementInv, NothingCancelled, "cancel" \notin Events,
                            NEW w \in Workers, Busy(w)
                     PROVE  /\ worker[w].key \in Keys
                            /\ rows[worker[w].key].id = worker[w].id
                            /\ rows[worker[w].key].id \in Held
                            /\ rows[worker[w].key].status \in {"queued", "downloading", "evicted"}
<1>1. worker[w].key \in Keys
  BY DEF RefinementInv, SafetyInv, TypeOK, Slots, Busy
<1>2. rows[worker[w].key].id = worker[w].id /\ worker[w].id \in Held
  BY DEF NothingCancelled, Held
<1> QED
  BY <1>1, <1>2, HeldRow DEF Lifecycle!InFlight

LEMMA RemovesInduction ==
    ASSUME RefinementInv, PathsFollowLayout, NothingCancelled, RemovesItsOwn, [Next]_vars
    PROVE  RemovesItsOwn'
<1> SUFFICES ASSUME "cancel" \notin Events, NEW r \in Requests, request'[r].pc = "remove"
             PROVE  /\ "evict" \in Events
                    /\ request'[r].path \in Destinations[request'[r].key]
                    /\ rows'[request'[r].key].status \in {"ready", "evicted"}
                    /\ rows'[request'[r].key].id \notin Held'
  BY DEF RemovesItsOwn
<1>1. TypeOK
  BY DEF RefinementInv, SafetyInv
<1>2. CASE request'[r] = request[r]
  <2> DEFINE k == request[r].key
  <2>1. /\ "evict" \in Events
        /\ request[r].path \in Destinations[k]
        /\ rows[k].status \in {"ready", "evicted"}
        /\ rows[k].id \notin Held
        /\ k \in Keys
    BY <1>1, <1>2 DEF RemovesItsOwn, TypeOK, Calls
  <2>2. rows[k].id # 0 /\ ~Deleted(k)
    BY <2>1, HeldIds DEF Deleted, NothingCancelled
  <2>3. rows'[k].id = rows[k].id
    BY <2>1, <2>2, IdStays
  <2>4. ~Delivered(k)
    BY <2>1, RecordsHeld DEF Delivered, Record, Busy
  <2>5. rows'[k].status \in {"ready", "evicted"}
    BY <2>1, <2>2, <2>4, RowStep DEF Written, Inserted, Flipped
  <2>6. rows'[k].id \notin Held'
    <3> SUFFICES ASSUME rows[k].id \in Held' PROVE FALSE
      BY <2>3
    <3>1. PICK j \in Keys : rows[j].status = "queued" /\ rows[j].id = rows[k].id
      BY <2>1, HeldStep
    <3> QED
      BY <2>1, <2>2, <3>1, OneRow
  <2> QED
    BY <1>2, <2>1, <2>5, <2>6
<1>3. CASE Loaded(r)
  <2>1. PICK k \in Keys :
          /\ request'[r].pc = (IF rows[k].path = None THEN "flip" ELSE "remove")
          /\ request'[r].key = k
          /\ request'[r].path = rows[k].path
    BY <1>3 DEF Loaded
  <2>2. rows[k].status = "ready" /\ rows[k].path \in Destinations[k]
    BY <2>1 DEF PathsFollowLayout
  <2>3. rows[k].id \notin Held
    BY <2>2, HeldRow DEF Lifecycle!InFlight
  <2>4. rows' = rows /\ Held' = Held /\ "evict" \in Events
    BY <1>3 DEF Loaded, EvictLoad, Held, Busy
  <2> QED
    BY <2>1, <2>2, <2>3, <2>4
<1>4. ~Proceeds(r) /\ ~Ends(r) /\ ~Checked(r)
  BY DEF Proceeds, Ends, Checked, NoRequest
<1> QED
  BY <1>2, <1>3, <1>4, CallStep

\* Whose file an eviction removes: with distinct paths, of no item but its own.
LEMMA RemovedOwn ==
    ASSUME RefinementInv, PathsDistinct, RemovesItsOwn, "cancel" \notin Events,
           NEW k \in Keys, NEW p \in Destinations[k],
           NEW r \in Requests, EvictRemove(r), request[r].path = p
    PROVE  /\ "evict" \in Events
           /\ request[r].key = k
           /\ rows[k].status \in {"ready", "evicted"}
           /\ rows[k].id \notin Held
<1>1. request[r].key \in Keys /\ request[r].pc = "remove"
  BY DEF EvictRemove, RefinementInv, SafetyInv, TypeOK, Calls
<1>2. p \in Destinations[request[r].key]
  BY <1>1 DEF RemovesItsOwn
<1>3. request[r].key = k
  BY <1>1, <1>2 DEF PathsDistinct
<1> QED
  BY <1>1, <1>3 DEF RemovesItsOwn

LEMMA ImportedInduction ==
    ASSUME RefinementInv, PathsFollowLayout, NothingCancelled, RemovesItsOwn, ImportedStays,
           [Next]_vars
    PROVE  ImportedStays'
<1> SUFFICES ASSUME PathsDistinct, "cancel" \notin Events,
                    NEW w \in Workers, worker'[w].pc = "record"
             PROVE  final'[worker'[w].path] # None
  BY DEF ImportedStays, PathsDistinct
<1>1. TypeOK
  BY DEF RefinementInv, SafetyInv
<1>2. CASE worker'[w] = worker[w]
  <2> DEFINE p == worker[w].path
  <2>1. Busy(w) /\ p \in Paths /\ p \in Destinations[worker[w].key] /\ final[p] # None
    BY <1>1, <1>2 DEF TypeOK, Slots, Busy, PathsFollowLayout, ImportedStays
  <2>2. ~Removed(p)
    BY <2>1, RecordsHeld, RemovedOwn DEF Removed
  <2>3. final'[p] # None
    BY <2>1, <2>2, FileStep DEF Imported
  <2> QED
    BY <1>2, <2>3
<1>3. CASE GoesOn(w)
  <2>1. Import(w) /\ worker'[w].path = worker[w].path /\ worker[w] \in Slots
    BY <1>1, <1>3 DEF GoesOn, TypeOK
  <2>2. ~Return(w)
    BY <1>1 DEF Return, Idle, TypeOK
  <2>3. worker[w].path \in Paths /\ final' = [final EXCEPT ![worker[w].path] = partial[worker[w].key]]
        /\ partial[worker[w].key] # None
    BY <2>1, <2>2 DEF Import, Fail, Slots
  <2> QED
    BY <1>1, <2>1, <2>3 DEF TypeOK
<1>4. ~Dispatched(w) /\ worker'[w] # Idle
  BY DispatchedSlot DEF Idle
<1> QED
  BY <1>2, <1>3, <1>4, SlotStep

\* A 'ready' row whose file is gone is about to be flipped.
LEMMA HasFileInduction ==
    ASSUME RefinementInv, PathsFollowLayout, NothingCancelled, RemovesItsOwn, ImportedStays,
           ReadyHasFile, [Next]_vars
    PROVE  ReadyHasFile'
<1> SUFFICES ASSUME PathsDistinct, Events \cap {"cancel", "crash", "abort"} = {},
                    NEW k \in Keys, rows'[k].status = "ready", final'[rows'[k].path] = None
             PROVE  \E r \in Requests : request'[r].pc = "flip" /\ request'[r].id = rows'[k].id
  BY DEF ReadyHasFile, PathsDistinct
<1>1. TypeOK /\ "cancel" \notin Events
  BY DEF RefinementInv, SafetyInv
<1>2. CASE Delivered(k)
  <2>1. PICK w \in Workers : Record(w) /\ worker[w].key = k /\ rows'[k].path = worker[w].path
    BY <1>2 DEF Delivered
  <2>2. final[worker[w].path] # None /\ final' = final
    BY <1>1, <2>1 DEF Record, ImportedStays
  <2> QED
    BY <2>1, <2>2
<1>3. CASE Written(k)
  <2> DEFINE p == rows[k].path
  <2>1. rows[k].status = "ready" /\ rows'[k].id = rows[k].id /\ rows'[k].path = p
    BY <1>3 DEF Written
  <2>2. p \in Destinations[k] /\ p \in Paths
    BY <1>1, <2>1, DestinationAssumption DEF PathsFollowLayout
  <2>3. CASE final[p] = None
    <3>1. PICK r \in Requests : request[r].pc = "flip" /\ request[r].id = rows[k].id
      BY <2>1, <2>3 DEF ReadyHasFile
    <3>2. ~EvictFlip(r)
      <4>1. ASSUME EvictFlip(r) PROVE rows'[k].status = "evicted"
        <5>1. rows'[k] = [rows[k] EXCEPT !.status = "evicted", !.path = None]
          BY <3>1, <4>1 DEF EvictFlip
        <5> QED
          BY <1>1, <5>1 DEF TypeOK, Rows
      <4> QED
        BY <4>1
    <3>3. request'[r] = request[r]
      BY <3>1, <3>2, CallStep DEF Loaded, EvictLoad, NoRequest, Proceeds, EvictRemove, Ends, Checked
    <3> QED
      BY <2>1, <3>1, <3>3
  <2>4. CASE final[p] # None
    <3>1. Removed(p)
      BY <2>1, <2>2, <2>4, FileStep DEF Imported
    <3>2. PICK r \in Requests : EvictRemove(r) /\ request[r].path = p
      BY <3>1 DEF Removed
    <3>3. request[r].key = k
      BY <1>1, <2>2, <3>2, RemovedOwn
    <3>4. request[r].id = rows[k].id
      BY <1>1, <3>2, <3>3 DEF EvictRemove, NothingCancelled
    <3>5. request'[r].pc = "flip" /\ request'[r].id = request[r].id
      BY <1>1, <3>2 DEF EvictRemove, TypeOK, Calls
    <3> QED
      BY <2>1, <3>4, <3>5
  <2> QED
    BY <2>3, <2>4
<1>4. ~Inserted(k) /\ ~Deleted(k) /\ ~Flipped(k)
  BY DEF Inserted, Deleted, Flipped, NoRow
<1> QED
  BY <1>2, <1>3, <1>4, RowStep

-----------------------------------------------------------------------------
(* Sizes, and the bytes of a partial.                                      *)

LEMMA UpstreamStays == ASSUME RefinementInv, [Next]_vars, Settled PROVE upstream' = upstream
<1>1. ASSUME NEW w \in Workers, DownloadStep(w) PROVE upstream' = upstream
  BY <1>1, DownloadFrame DEF RefinementInv, SafetyInv
<1>2. \A k \in Keys : ~Replace(k)
  BY DEF Replace, Settled
<1> QED
  BY <1>1, <1>2
     DEF Next, vars, RequestStep, Queue, Dispatch, ScanQueued, AbandonBatch, Reload, Relaunch, Start,
         Crash, CancelCheck, CancelDelete, EvictLoad, EvictFlip, CancelUnlink, RequestAborts,
         EvictRemove

LEMMA SizesInduction == ASSUME RefinementInv, SizesHold, [Next]_vars PROVE SizesHold'
<1> SUFFICES ASSUME Settled
             PROVE  /\ \A k \in Keys : rows'[k].status # "none" =>
                          rows'[k].size = SizeOf[upstream'[k]]
                    /\ \A w \in Workers : Busy(w)' =>
                          worker'[w].size = SizeOf[upstream'[worker'[w].key]]
  BY DEF SizesHold, Settled
<1>1. upstream' = upstream
  BY UpstreamStays
<1>2. /\ \A k \in Keys : rows[k].status # "none" => rows[k].size = SizeOf[upstream[k]]
      /\ \A w \in Workers : Busy(w) => worker[w].size = SizeOf[upstream[worker[w].key]]
  BY DEF SizesHold
<1>3. ASSUME NEW k \in Keys, rows'[k].status # "none"
      PROVE  rows'[k].size = SizeOf[upstream[k]]
  <2>1. CASE Written(k)
    BY <1>2, <1>3, <2>1 DEF Written
  <2>2. CASE Inserted(k)
    BY <2>2 DEF Inserted
  <2>3. CASE Delivered(k)
    BY <1>2, <2>3 DEF Delivered, Record, Busy
  <2>4. CASE Flipped(k)
    <3>1. rows[k].status # "none"
      <4>1. PICK r \in Requests : request[r].pc = "flip" /\ request[r].id = rows[k].id
        BY <2>4 DEF Flipped, EvictFlip
      <4>2. rows[k].id # 0
        BY <4>1 DEF RefinementInv, SafetyInv, CallsIdentify
      <4> QED
        BY <4>2, HeldIds
    <3> QED
      BY <1>2, <2>4, <3>1 DEF Flipped
  <2>5. ~Deleted(k)
    BY <1>3 DEF Deleted, NoRow
  <2> QED
    BY <2>1, <2>2, <2>3, <2>4, <2>5, RowStep
<1>4. ASSUME NEW w \in Workers, Busy(w)'
      PROVE  worker'[w].size = SizeOf[upstream[worker'[w].key]]
  <2>1. CASE worker'[w] = worker[w] \/ GoesOn(w)
    BY <1>2, <1>4, <2>1 DEF GoesOn, Busy
  <2>2. CASE Dispatched(w)
    <3>1. PICK k \in Keys : /\ rows[k].id \in batch
                            /\ worker'[w].key = k
                            /\ worker'[w].size = rows[k].size
      BY <2>2, DispatchedSlot
    <3>2. rows[k].status # "none"
      BY <3>1, HeldIds DEF Held
    <3> QED
      BY <1>2, <3>1, <3>2
  <2>3. worker'[w] # Idle
    BY <1>4 DEF Busy, Idle
  <2> QED
    BY <2>1, <2>2, <2>3, SlotStep
<1> QED
  BY <1>1, <1>3, <1>4

\* One block more.
LEMMA AppendBegins ==
    ASSUME NEW f \in Seq(Blocks), NEW v \in Versions, BeginsWith(f, v), Len(f) < SizeOf[v]
    PROVE  BeginsWith(Append(f, <<v, Len(f) + 1>>), v)
<1> DEFINE b == <<v, Len(f) + 1>>
           g == Append(f, b)
<1>1. Len(f) \in Nat /\ SizeOf[v] \in Nat
  BY SizeAssumption
<1>2. b \in Blocks
  BY <1>1 DEF Blocks
<1>3. Len(g) = Len(f) + 1 /\ (\A i \in 1..Len(f) : g[i] = f[i]) /\ g[Len(f) + 1] = b
  BY <1>2, AppendProperties
<1>4. \A i \in 1..Len(g) : g[i] = <<v, i>>
  <2> SUFFICES ASSUME NEW i \in 1..Len(g) PROVE g[i] = <<v, i>>
    OBVIOUS
  <2> HIDE DEF g
  <2>1. i \in 1..Len(f) \/ i = Len(f) + 1
    BY <1>1, <1>3
  <2> QED
    BY <1>3, <2>1 DEF BeginsWith
<1> QED
  BY <1>1, <1>3, <1>4 DEF BeginsWith

\* All of the blocks.
LEMMA BeginsAndWhole ==
    ASSUME NEW f \in Seq(Blocks), NEW v \in Versions, BeginsWith(f, v), Len(f) = SizeOf[v]
    PROVE  f = Whole(v)
<1>1. f = [i \in 1..Len(f) |-> f[i]]
  BY LenProperties
<1> QED
  BY <1>1 DEF BeginsWith, Whole

LEMMA BeginsIsPrefix ==
    ASSUME NEW f \in Seq(Blocks), NEW v \in Versions, BeginsWith(f, v)
    PROVE  f = SubSeq(Whole(v), 1, Len(f))
<1> DEFINE n == Len(f)
           t == SubSeq(Whole(v), 1, n)
<1>1. n \in Nat /\ SizeOf[v] \in Nat /\ n <= SizeOf[v]
  BY SizeAssumption DEF BeginsWith
<1>2. \A i \in 1..n : Whole(v)[i] = <<v, i>> /\ Whole(v)[i] \in Blocks
  BY <1>1 DEF Whole, Blocks
<1>3. /\ t \in Seq(Blocks)
      /\ Len(t) = IF 1 <= n THEN n - 1 + 1 ELSE 0
      /\ \A i \in 1..n - 1 + 1 : t[i] = Whole(v)[1 + i - 1]
  BY <1>1, <1>2, SubSeqProperties
<1>4. Len(t) = n /\ \A i \in 1..n : t[i] = <<v, i>>
  BY <1>1, <1>2, <1>3
<1>5. \A i \in 1..n : f[i] = t[i]
  BY <1>4 DEF BeginsWith
<1> HIDE DEF t
<1>6. f = t
  BY <1>3, <1>4, <1>5, SeqEqual
<1> QED
  BY <1>6 DEF t

\* The key, the partial and the upstream of a busy slot.
LEMMA SlotFiles ==
    ASSUME TypeOK, NEW w \in Workers, Busy(w)
    PROVE  /\ worker[w] \in Slots /\ worker[w].key \in Keys /\ worker[w].at \in Nat
           /\ partial[worker[w].key] \in Files
           /\ partial[worker[w].key] # None => partial[worker[w].key] \in Seq(Blocks)
           /\ upstream[worker[w].key] \in Versions
  BY DEF TypeOK, Slots, Files, Busy

\* A Download leaves in its partial a beginning of what upstream has, and goes
\* on at its end.
LEMMA DownloadResumes ==
    ASSUME RefinementInv, Settled, PartialsBegin, SlotsResume,
           NEW w \in Workers, DownloadStep(w)
    PROVE  /\ partial'[worker[w].key] # None =>
                 BeginsWith(partial'[worker[w].key], upstream[worker[w].key])
           /\ Resumes(worker[w])'
<1> DEFINE k == worker[w].key
           s == worker[w]
           Goal == /\ partial'[k] # None => BeginsWith(partial'[k], upstream[k])
                   /\ Resumes(worker[w])'
<1>1. /\ TypeOK /\ Busy(w) /\ worker[w] \in Slots /\ k \in Keys /\ s.at \in Nat
      /\ partial[k] # None => partial[k] \in Seq(Blocks)
      /\ upstream[k] \in Versions /\ worker \in [Workers -> Slots] /\ partial \in [Keys -> Files]
  BY DownloadStepOutcome, SlotFiles DEF RefinementInv, SafetyInv, TypeOK
<1>2. upstream' = upstream
  BY <1>1, DownloadFrame
<1>3. /\ partial[k] # None => BeginsWith(partial[k], upstream[k])
      /\ Resumes(s)
  BY <1>1 DEF PartialsBegin, SlotsResume
<1>4. ASSUME worker'[w].pc \notin {"fetch", "copy", "backoff"}
      PROVE  Resumes(worker[w])'
  BY <1>4 DEF Resumes
<1>5. CASE Return(w) /\ partial' = partial
  <2>1. worker'[w].pc = "idle"
    BY <1>1, <1>5 DEF Return, Idle
  <2> QED
    BY <1>3, <1>4, <1>5, <2>1
<1>6. CASE Resolve(w)
  <2>1. partial' = partial
    BY <1>6 DEF Resolve
  <2>2. CASE Return(w)
    BY <1>5, <2>1, <2>2
  <2>3. CASE ~Return(w)
    <3>1. worker'[w].pc = "mark"
      BY <1>1, <1>6, <2>3 DEF Resolve, Fail, Slots
    <3> QED
      BY <1>3, <1>4, <2>1, <3>1
  <2> QED
    BY <2>2, <2>3
<1>7. CASE Mark(w)
  <2>1. partial' = partial
    BY <1>7 DEF Mark
  <2>2. CASE Return(w)
    BY <1>5, <2>1, <2>2
  <2>3. CASE ~Return(w)
    <3>1. /\ worker'[w].pc = "fetch" /\ worker'[w].key = k
          /\ worker'[w].at = IF partial[k] = None THEN 0 ELSE Len(partial[k])
      BY <1>1, <1>7, <2>3 DEF Mark, Slots
    <3> QED
      BY <1>3, <2>1, <3>1 DEF Resumes
  <2> QED
    BY <2>2, <2>3
<1>8. CASE Fetch(w)
  <2>1. s.pc = "fetch" /\ s.at = IF partial[k] = None THEN 0 ELSE Len(partial[k])
    BY <1>3, <1>8 DEF Fetch, Resumes
  <2>2. CASE RespondFull(w)
    <3>1. /\ partial'[k] = <<>> /\ worker'[w].key = k /\ worker'[w].pc = "copy"
          /\ worker'[w].at = 0 /\ worker'[w].ver = upstream[k]
      BY <1>1, <2>2 DEF RespondFull, Slots
    <3>2. Len(<<>>) = 0 /\ <<>> # None
      <4>1. <<>> \in Seq(Blocks) /\ Len(<<>>) = 0
        BY EmptySeq
      <4> QED
        BY <4>1, NoneAssumption
    <3>3. BeginsWith(<<>>, upstream[k])
      BY <1>1, <3>2, SizeAssumption DEF BeginsWith
    <3> QED
      BY <1>2, <3>1, <3>2, <3>3 DEF Resumes
  <2>3. CASE RespondRange(w) /\ ~Fail(w)
    <3>1. partial[k] # None /\ s.at = Len(partial[k])
      BY <1>1, <2>1, <2>3, SizeAssumption DEF RespondRange
    <3>2. partial'[k] = partial[k]
      BY <1>1, <2>3, <3>1 DEF RespondRange
    <3>3. /\ worker'[w].key = k /\ worker'[w].pc = "copy"
          /\ worker'[w].at = s.at /\ worker'[w].ver = upstream[k]
      BY <1>1, <2>3 DEF RespondRange, Slots
    <3> QED
      BY <1>2, <1>3, <3>1, <3>2, <3>3 DEF Resumes
  <2>4. CASE RespondUnsatisfiable(w) /\ ~Fail(w)
    <3>1. worker'[w].pc = "import" /\ partial' = partial
      BY <1>1, <2>4 DEF RespondUnsatisfiable, Slots
    <3> QED
      BY <1>3, <1>4, <3>1
  <2>5. CASE Fail(w) /\ partial' = partial
    BY <1>5, <2>5 DEF Fail
  <2>6. CASE worker' = [worker EXCEPT ![w].pc = "backoff"] /\ UNCHANGED <<rows, partial>>
    <3>1. worker'[w].pc = "backoff" /\ worker'[w].key = k /\ worker'[w].at = s.at
      BY <1>1, <2>6 DEF Slots
    <3> QED
      BY <1>3, <2>1, <2>6, <3>1 DEF Resumes
  <2>7. RespondRange(w) /\ Fail(w) => partial' = partial
    <3>1. CASE worker' = [worker EXCEPT ![w].pc = "copy", ![w].ver = upstream[k]]
      <4>1. worker'[w].pc = "copy"
        BY <1>1, <3>1 DEF Slots
      <4>2. ~Fail(w)
        BY <1>1, <4>1 DEF Fail, Return, Idle
      <4> QED
        BY <4>2
    <3> QED
      BY <3>1 DEF RespondRange
  <2>8. RespondUnsatisfiable(w) => partial' = partial
    BY DEF RespondUnsatisfiable
  <2> QED
    BY <1>8, <2>2, <2>3, <2>4, <2>5, <2>6, <2>7, <2>8 DEF Fetch
<1>9. CASE ReadBlock(w)
  <2>1. /\ s.pc = "copy" /\ partial[k] # None /\ s.at = Len(partial[k]) /\ s.ver = upstream[k]
    BY <1>3, <1>9 DEF ReadBlock, Resumes
  <2>2. s.at < SizeOf[upstream[k]] /\ partial'[k] = Append(partial[k], <<upstream[k], s.at + 1>>)
    BY <1>1, <1>9, <2>1 DEF ReadBlock
  <2>3. BeginsWith(partial'[k], upstream[k])
    BY <1>1, <1>3, <2>1, <2>2, AppendBegins
  <2>4. <<upstream[k], s.at + 1>> \in Blocks
    BY <1>1 DEF Blocks
  <2>5. partial'[k] \in Seq(Blocks) /\ Len(partial'[k]) = s.at + 1
    BY <1>1, <2>1, <2>2, <2>4, AppendProperties
  <2>6. partial'[k] # None
    BY <2>5, NoneAssumption
  <2>7. /\ worker'[w].key = k /\ worker'[w].pc = "copy"
        /\ worker'[w].at = s.at + 1 /\ worker'[w].ver = s.ver
    BY <1>1, <1>9, <2>1 DEF ReadBlock, Slots
  <2> QED
    BY <1>2, <2>1, <2>3, <2>5, <2>6, <2>7 DEF Resumes
<1>10. CASE EndBody(w)
  <2>1. partial' = partial /\ partial[k] # None
    BY <1>3, <1>10 DEF EndBody, Resumes
  <2>2. worker'[w].key = k /\ worker'[w].pc \in {"import", "backoff"}
    BY <1>1, <1>10 DEF EndBody, Slots
  <2> QED
    BY <1>3, <2>1, <2>2 DEF Resumes
<1>11. CASE Backoff(w)
  <2>1. partial' = partial
    BY <1>11 DEF Backoff
  <2>2. CASE Return(w)
    BY <1>5, <2>1, <2>2
  <2>3. CASE ~Return(w)
    <3>1. /\ worker'[w].pc = "fetch" /\ worker'[w].key = k /\ s.pc = "backoff"
          /\ worker'[w].at = IF partial[k] = None THEN s.at ELSE Len(partial[k])
      BY <1>1, <1>11, <2>3 DEF Backoff, Fail, Slots
    <3> QED
      BY <1>3, <2>1, <3>1 DEF Resumes
  <2> QED
    BY <2>2, <2>3
<1>12. CASE Interrupted(w) \/ Record(w)
  BY <1>5, <1>12 DEF Interrupted, Record
<1>13. CASE Import(w)
  <2>1. CASE Return(w)
    <3>1. partial' = partial \/ partial'[k] = None
      BY <1>1, <1>13 DEF Import
    <3>2. worker'[w].pc = "idle"
      BY <1>1, <2>1 DEF Return, Idle
    <3> QED
      BY <1>3, <1>4, <3>1, <3>2
  <2>2. CASE ~Return(w)
    <3>1. partial'[k] = None /\ worker'[w].pc = "record"
      BY <1>1, <1>13, <2>2 DEF Import, Fail, Slots
    <3> QED
      BY <1>4, <3>1
  <2> QED
    BY <2>1, <2>2
<1> QED
  BY <1>6, <1>7, <1>8, <1>9, <1>10, <1>11, <1>12, <1>13 DEF DownloadStep

\* No other step touches a partial, or lets a slot at the head of one.
LEMMA OthersLeavePartials ==
    ASSUME RefinementInv, NothingCancelled, Settled, [Next]_vars,
           \A w \in Workers : ~DownloadStep(w)
    PROVE  /\ partial' = partial
           /\ \A w \in Workers : worker'[w] = worker[w]
                                 \/ worker'[w].pc \in {"idle", "resolve"}
<1>1. \A r \in Requests : ~CancelUnlink(r)
  BY DEF CancelUnlink, NothingCancelled, Settled
<1>2. partial' = partial
  BY <1>1 DEF Next, vars, RequestStep, Queue, Dispatch, ScanQueued, AbandonBatch, Reload, Relaunch,
              Start, Crash, CancelCheck, CancelDelete, EvictLoad, EvictFlip, RequestAborts,
              EvictRemove, Replace
<1>3. \A w \in Workers : worker'[w] = worker[w] \/ worker'[w].pc \in {"idle", "resolve"}
  BY SlotStep, DispatchedSlot DEF GoesOn, Idle
<1> QED
  BY <1>2, <1>3

LEMMA PartialsInduction ==
    ASSUME RefinementInv, NothingCancelled, PartialsBegin, SlotsResume, [Next]_vars
    PROVE  PartialsBegin' /\ SlotsResume'
<1> SUFFICES ASSUME Settled
             PROVE  /\ \A k \in Keys : partial'[k] # None => BeginsWith(partial'[k], upstream'[k])
                    /\ \A w \in Workers : Resumes(worker[w])'
  BY DEF PartialsBegin, SlotsResume, Settled, BeginsWith
<1>1. upstream' = upstream /\ TypeOK /\ SingleWriter
  BY UpstreamStays DEF RefinementInv, SafetyInv
<1>2. /\ \A k \in Keys : partial[k] # None => BeginsWith(partial[k], upstream[k])
      /\ \A w \in Workers : Resumes(worker[w])
  BY DEF PartialsBegin, SlotsResume
<1>3. CASE \A w \in Workers : ~DownloadStep(w)
  BY <1>1, <1>2, <1>3, OthersLeavePartials DEF Resumes
<1>4. ASSUME NEW w \in Workers, DownloadStep(w)
      PROVE  /\ \A k \in Keys : partial'[k] # None => BeginsWith(partial'[k], upstream'[k])
             /\ \A v \in Workers : Resumes(worker[v])'
  <2>1. Busy(w)
    BY <1>1, <1>4, DownloadStepOutcome
  <2>2. /\ \A v \in Workers : v # w => worker'[v] = worker[v]
        /\ \A k \in Keys : k # worker[w].key => partial'[k] = partial[k]
    BY <1>1, <1>4, DownloadFrame
  <2>3. \A k \in Keys : partial'[k] # None => BeginsWith(partial'[k], upstream'[k])
    BY <1>1, <1>2, <1>4, <2>2, DownloadResumes
  <2>4. ASSUME NEW v \in Workers, v # w PROVE Resumes(worker[v])'
    <3>1. CASE Busy(v)
      <4>1. worker[v].key # worker[w].key /\ worker[v].key \in Keys
        BY <1>1, <2>1, <2>4, <3>1, SlotFiles DEF SingleWriter
      <4>2. partial'[worker[v].key] = partial[worker[v].key] /\ worker'[v] = worker[v]
        BY <2>2, <2>4, <4>1
      <4> QED
        BY <1>1, <1>2, <4>2 DEF Resumes
    <3>2. CASE ~Busy(v)
      BY <2>2, <2>4, <3>2 DEF Resumes, Busy
    <3> QED
      BY <3>1, <3>2
  <2> QED
    BY <1>4, <2>3, <2>4, DownloadResumes
<1> QED
  BY <1>3, <1>4

-----------------------------------------------------------------------------
(* The bytes under the library.                                            *)

\* A partial of the declared size that is imported is the whole file.
LEMMA ImportsWhole ==
    ASSUME RefinementInv, Settled, SizesHold, PartialsBegin, NEW w \in Workers, Busy(w),
           partial[worker[w].key] # None, Len(partial[worker[w].key]) = worker[w].size
    PROVE  partial[worker[w].key] = Whole(upstream[worker[w].key])
<1> DEFINE k == worker[w].key
<1>1. k \in Keys /\ partial[k] \in Seq(Blocks) /\ upstream[k] \in Versions
  BY SlotFiles DEF RefinementInv, SafetyInv
<1>2. BeginsWith(partial[k], upstream[k]) /\ Len(partial[k]) = SizeOf[upstream[k]]
  BY <1>1 DEF PartialsBegin, SizesHold
<1> QED
  BY <1>1, <1>2, BeginsAndWhole

\* With distinct paths, an import writes the file of an item that its slot holds.
LEMMA ImportedOwn ==
    ASSUME RefinementInv, PathsFollowLayout, PathsDistinct, NEW k \in Keys, NEW p \in Destinations[k],
           NEW w \in Workers, Import(w), worker[w].path = p
    PROVE  worker[w].key = k /\ Busy(w) /\ worker[w].pc = "import"
<1>1. worker[w].pc = "import" /\ Busy(w)
  BY DEF Import, Busy
<1>2. worker[w].key \in Keys /\ p \in Destinations[worker[w].key]
  BY <1>1, SlotFiles DEF RefinementInv, SafetyInv, PathsFollowLayout
<1> QED
  BY <1>1, <1>2 DEF PathsDistinct

LEMMA WholeInduction ==
    ASSUME RefinementInv, PathsFollowLayout, NothingCancelled, RemovesItsOwn, SizesHold,
           PartialsBegin, ImportedIsWhole, [Next]_vars
    PROVE  ImportedIsWhole'
<1> SUFFICES ASSUME PathsDistinct, Settled, NEW w \in Workers, worker'[w].pc = "record"
             PROVE  final'[worker'[w].path] = Whole(upstream'[worker'[w].key])
  BY DEF ImportedIsWhole, PathsDistinct, Settled, Whole
<1>1. TypeOK /\ SingleWriter /\ upstream' = upstream /\ "cancel" \notin Events
  BY UpstreamStays DEF RefinementInv, SafetyInv, Settled
<1>2. CASE worker'[w] = worker[w]
  <2> DEFINE p == worker[w].path
             k == worker[w].key
  <2>1. Busy(w) /\ k \in Keys /\ p \in Paths /\ p \in Destinations[k] /\ final[p] = Whole(upstream[k])
    BY <1>1, <1>2 DEF TypeOK, Slots, Busy, PathsFollowLayout, ImportedIsWhole
  <2>2. ~Removed(p)
    BY <1>1, <2>1, RecordsHeld, RemovedOwn DEF Removed
  <2>3. ~Imported(p)
    <3>1. ASSUME NEW v \in Workers, Import(v), worker[v].path = p PROVE FALSE
      <4>1. worker[v].key = k /\ Busy(v) /\ worker[v].pc = "import"
        BY <2>1, <3>1, ImportedOwn
      <4>2. v = w
        BY <1>1, <2>1, <4>1 DEF SingleWriter
      <4> QED
        BY <1>2, <4>1, <4>2
    <3> QED
      BY <3>1 DEF Imported
  <2> QED
    BY <1>1, <1>2, <2>1, <2>2, <2>3, FileStep
<1>3. CASE GoesOn(w)
  <2>1. /\ Import(w) /\ Busy(w) /\ worker'[w].path = worker[w].path /\ worker'[w].key = worker[w].key
        /\ worker[w] \in Slots
    BY <1>1, <1>3 DEF GoesOn, TypeOK
  <2>2. ~Return(w)
    BY <1>1 DEF Return, Idle, TypeOK
  <2>3. /\ worker[w].path \in Paths /\ final' = [final EXCEPT ![worker[w].path] = partial[worker[w].key]]
        /\ partial[worker[w].key] # None /\ Len(partial[worker[w].key]) = worker[w].size
    BY <2>1, <2>2 DEF Import, Fail, Slots
  <2>4. partial[worker[w].key] = Whole(upstream[worker[w].key])
    BY <2>1, <2>3, ImportsWhole
  <2> QED
    BY <1>1, <2>1, <2>3, <2>4 DEF TypeOK
<1>4. ~Dispatched(w) /\ worker'[w] # Idle
  BY DispatchedSlot DEF Idle
<1> QED
  BY <1>2, <1>3, <1>4, SlotStep

LEMMA IntactInduction ==
    ASSUME RefinementInv, PathsFollowLayout, NothingCancelled, RemovesItsOwn, SizesHold, SizesHold',
           ImportedIsWhole, ReadyIntact, [Next]_vars
    PROVE  ReadyIntact'
<1> SUFFICES ASSUME PathsDistinct, Settled, NEW k \in Keys, rows'[k].status = "ready"
             PROVE  /\ rows'[k].size = SizeOf[upstream'[k]]
                    /\ \/ final'[rows'[k].path] = Whole(upstream'[k])
                       \/ final'[rows'[k].path] = None /\ "evict" \in Events
  BY DEF ReadyIntact, PathsDistinct, Settled, Whole
<1>1. TypeOK /\ upstream' = upstream /\ "cancel" \notin Events
  BY UpstreamStays DEF RefinementInv, SafetyInv, Settled
<1>2. rows'[k].size = SizeOf[upstream'[k]]
  BY DEF SizesHold, Settled
<1>3. CASE Delivered(k)
  <2>1. PICK w \in Workers : Record(w) /\ worker[w].key = k /\ rows'[k].path = worker[w].path
    BY <1>3 DEF Delivered
  <2>2. final[worker[w].path] = Whole(upstream[k]) /\ final' = final
    BY <2>1 DEF Record, ImportedIsWhole
  <2> QED
    BY <1>1, <1>2, <2>1, <2>2
<1>4. CASE Written(k)
  <2> DEFINE p == rows[k].path
  <2>1. rows[k].status = "ready" /\ rows'[k].path = p
    BY <1>4 DEF Written
  <2>2. p \in Destinations[k] /\ p \in Paths
    BY <1>1, <2>1, DestinationAssumption DEF PathsFollowLayout
  <2>3. final[p] = Whole(upstream[k]) \/ (final[p] = None /\ "evict" \in Events)
    BY <2>1 DEF ReadyIntact, Settled
  <2>4. ~Imported(p)
    <3>1. ASSUME NEW v \in Workers, Import(v), worker[v].path = p PROVE FALSE
      <4>1. worker[v].key = k /\ Busy(v)
        BY <2>2, <3>1, ImportedOwn
      <4> QED
        BY <1>1, <2>1, <4>1, RecordsHeld
    <3> QED
      BY <3>1 DEF Imported
  <2>5. Removed(p) => final'[p] = None /\ "evict" \in Events
    BY <1>1, <2>2, RemovedOwn DEF Removed
  <2> QED
    BY <1>1, <1>2, <2>1, <2>2, <2>3, <2>4, <2>5, FileStep
<1>5. ~Inserted(k) /\ ~Deleted(k) /\ ~Flipped(k)
  BY DEF Inserted, Deleted, Flipped, NoRow
<1> QED
  BY <1>3, <1>4, <1>5, RowStep

-----------------------------------------------------------------------------
LEMMA FilesInit == Init => FilesInv
<1> SUFFICES ASSUME Init PROVE FilesInv
  OBVIOUS
<1>1. /\ \A k \in Keys : rows[k] = NoRow /\ partial[k] = None
      /\ \A w \in Workers : worker[w] = Idle
      /\ \A r \in Requests : request[r] = NoRequest
  BY DEF Init
<1>2. NoRow.status = "none" /\ NoRow.path = None /\ Idle.pc = "idle" /\ NoRequest.pc = "idle"
  BY DEF NoRow, Idle, NoRequest
<1> QED
  BY <1>1, <1>2
     DEF FilesInv, PathsFollowLayout, NothingCancelled, RemovesItsOwn, ImportedStays, ReadyHasFile,
         SizesHold, PartialsBegin, SlotsResume, Resumes, ImportedIsWhole, ReadyIntact, Busy

LEMMA FilesInduction == RefinementInv /\ FilesInv /\ [Next]_vars => FilesInv'
<1> SUFFICES ASSUME RefinementInv, FilesInv, [Next]_vars PROVE FilesInv'
  OBVIOUS
<1> USE DEF FilesInv
<1>1. PathsFollowLayout' /\ NothingCancelled' /\ RemovesItsOwn'
  BY PathsInduction, CancelledInduction, RemovesInduction
<1>2. ImportedStays' /\ ReadyHasFile'
  BY ImportedInduction, HasFileInduction
<1>3. SizesHold' /\ PartialsBegin' /\ SlotsResume'
  BY SizesInduction, PartialsInduction
<1>4. ImportedIsWhole' /\ ReadyIntact'
  BY <1>3, WholeInduction, IntactInduction
<1> QED
  BY <1>1, <1>2, <1>3, <1>4

\* The inductive invariant holds in every reachable state.
THEOREM FilesSafe == Spec => [](RefinementInv /\ FilesInv)
  BY RefinementInit, RefinementInduction, FilesInit, FilesInduction, PTL DEF Spec

\* Whatever is retried, reloaded, killed and restarted, a partial is a beginning
\* of what upstream has, if nothing is cancelled and upstream keeps its file.
THEOREM ResumeIsSound == Spec => []PartialIsPrefix
<1>1. RefinementInv /\ FilesInv => PartialIsPrefix
  <2> SUFFICES ASSUME RefinementInv, FilesInv, Settled, NEW k \in Keys, partial[k] # None
               PROVE  partial[k] = SubSeq(Whole(upstream[k]), 1, Len(partial[k]))
    BY DEF PartialIsPrefix, Settled
  <2>1. partial[k] \in Seq(Blocks) /\ upstream[k] \in Versions
    BY DEF RefinementInv, SafetyInv, TypeOK, Files
  <2>2. BeginsWith(partial[k], upstream[k])
    BY DEF FilesInv, PartialsBegin
  <2> QED
    BY <2>1, <2>2, BeginsIsPrefix
<1> QED
  BY <1>1, FilesSafe, PTL

\* And then what the library has for a 'ready' row is the upstream file, for any
\* number of items that have library paths of their own.
THEOREM LibraryIntact == Spec => []ReadyIntact
<1>1. FilesInv => ReadyIntact
  BY DEF FilesInv
<1> QED
  BY <1>1, FilesSafe, PTL

\* A 'ready' row has its file, or a handler is about to flip it, also when
\* upstream replaces files, writes fail and the engine is reloaded.
THEOREM RowsHaveFiles == Spec => []ReadyHasFile
<1>1. FilesInv => ReadyHasFile
  BY DEF FilesInv
<1> QED
  BY <1>1, FilesSafe, PTL
=============================================================================
