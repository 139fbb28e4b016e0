---------------------------- MODULE ItemLifecycle ----------------------------
(***************************************************************************)
(* What the items table promises to whoever reads it: how the row of an    *)
(* item may change while downloads, requests, reloads and restarts go on.  *)
(* It says nothing of files, of slots, of attempts or of the steps of a    *)
(* request.  Mirror implements it (Mirror!ImplementsLifecycle), and Pages  *)
(* and Bulk use it for the engine behind the portal.                       *)
(***************************************************************************)
EXTENDS Integers, FiniteSets

CONSTANT Keys       \* upstream items: the source_key of a row

VARIABLES
    items,          \* id and status of the row of each item
    nextId,         \* AUTOINCREMENT: the next id
    claimed         \* ids that the engine has scanned and may still write

tableVars == <<items, nextId, claimed>>

Absent == [id |-> 0, status |-> "none"]

\* A row as it is read.
Statuses == {"none", "queued", "downloading", "error", "ready", "evicted"}
Rows == [id : Nat, status : Statuses]

\* What the engine may write over: a row it holds was 'queued' at the scan, and
\* only a request, which makes it 'evicted' or deletes it, writes it meanwhile.
InFlight == {"queued", "downloading", "evicted"}

-----------------------------------------------------------------------------
(* Requests, in whole or by their effect on the row.                       *)

\* Mutation: no AUTOINCREMENT, the id of a deleted row may be used again.
EnqueueReusingId(k) ==
    \/ /\ items[k] = Absent
       /\ items' = [items EXCEPT ![k] =
             [id |-> CHOOSE n \in 1 .. nextId :
                        /\ \A j \in Keys : items[j].id < n
                        /\ (n = 1 \/ \E j \in Keys : items[j].id = n - 1),
              status |-> "queued"]]
       /\ nextId' = nextId + 1
       /\ UNCHANGED claimed
    \/ /\ items[k].status = "error"
       /\ items' = [items EXCEPT ![k].status = "queued"]
       /\ UNCHANGED <<nextId, claimed>>

\* Mutation: an evicted row is queued again as well.
EnqueueEvictedToo(k) ==
    \/ /\ items[k] = Absent
       /\ items' = [items EXCEPT ![k] = [id |-> nextId, status |-> "queued"]]
       /\ nextId' = nextId + 1
       /\ UNCHANGED claimed
    \/ /\ items[k].status \in {"error", "evicted"}
       /\ items' = [items EXCEPT ![k].status = "queued"]
       /\ UNCHANGED <<nextId, claimed>>

\* Engine.Queue: a new row under a fresh id, or an 'error' row tried again.
Enqueue(k) ==
    \/ /\ items[k] = Absent
       /\ items' = [items EXCEPT ![k] = [id |-> nextId, status |-> "queued"]]
       /\ nextId' = nextId + 1
       /\ UNCHANGED claimed
    \/ /\ items[k].status = "error"
       /\ items' = [items EXCEPT ![k].status = "queued"]
       /\ UNCHANGED <<nextId, claimed>>

\* Cancel checks the status and deletes by id later, so whatever the row says
\* by then; EvictItem asks for no status at all.
Delete(k) ==
    /\ items[k] # Absent
    /\ items' = [items EXCEPT ![k] = Absent]
    /\ UNCHANGED <<nextId, claimed>>

Evict(k) ==
    /\ items[k] # Absent
    /\ items' = [items EXCEPT ![k].status = "evicted"]
    /\ UNCHANGED <<nextId, claimed>>

Request(k) == Enqueue(k) \/ Delete(k) \/ Evict(k)

-----------------------------------------------------------------------------
(* The engine.                                                             *)

\* RunOnce scans when it holds nothing, and holds exactly what is 'queued'.
Claim ==
    /\ claimed = {}
    /\ claimed' = {items[k].id : k \in {q \in Keys : items[q].status = "queued"}}
    /\ UNCHANGED <<items, nextId>>

\* Downloads end, for whatever reason.
Release ==
    /\ claimed' \in SUBSET claimed
    /\ UNCHANGED <<items, nextId>>

\* A download marks the row it holds, by id ...
Mark(k) ==
    /\ items[k].id \in claimed
    /\ items[k].status \in InFlight
    /\ items' = [items EXCEPT ![k].status = "downloading"]
    /\ UNCHANGED <<nextId, claimed>>

\* ... or says that it failed, and lets go of it.
Fail(k) ==
    /\ items[k].id \in claimed
    /\ items[k].status \in InFlight
    /\ items' = [items EXCEPT ![k].status = "error"]
    /\ claimed' \in SUBSET (claimed \ {items[k].id})
    /\ UNCHANGED nextId

\* RecordReady is an upsert by key: if the row it began with was cancelled, it
\* makes a new one, or takes over the one that was queued since.
Deliver(k) ==
    /\ claimed # {}
    /\ \/ /\ items[k] = Absent
          /\ items' = [items EXCEPT ![k] = [id |-> nextId, status |-> "ready"]]
          /\ nextId' = nextId + 1
       \/ /\ items[k] # Absent
          /\ items' = [items EXCEPT ![k].status = "ready"]
          /\ UNCHANGED nextId
    /\ claimed' \in SUBSET (claimed \ {items[k].id})

\* resetStaleDownloads, after the last generation has gone.
Restart ==
    /\ claimed = {}
    /\ items' = [k \in Keys |->
          [items[k] EXCEPT !.status = IF @ = "downloading" THEN "queued" ELSE @]]
    /\ UNCHANGED <<nextId, claimed>>

Engine == Claim \/ Release \/ Restart \/ \E k \in Keys : Mark(k) \/ Fail(k) \/ Deliver(k)

-----------------------------------------------------------------------------
TableInit ==
    /\ items = [k \in Keys |-> Absent]
    /\ nextId = 1
    /\ claimed = {}

TableNext == Engine \/ \E k \in Keys : Request(k)

TableSpec == TableInit /\ [][TableNext]_tableVars
=============================================================================
