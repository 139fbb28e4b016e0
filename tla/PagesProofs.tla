----------------------------- MODULE PagesProofs -----------------------------
(***************************************************************************)
(* What a stale page can and cannot do, for every set of items, of pages   *)
(* visited and of rows ever inserted.                                      *)
(***************************************************************************)
EXTENDS Pages, TLAPS

Lefts == {<<"inflight", "ready">>, <<"inflight">>, <<"ready">>, <<>>}
Ops == {"open", "queue", "cancel", "evict"}

\* What is true of a row of item k, from the moment it is read until the page
\* that shows it is replaced: its id is of no other item, then or later, and if
\* it was 'ready' the engine will not write it again under that id.
Known(k, r) ==
    /\ r \in Rows
    /\ r.id < nextId
    /\ r.id = 0 <=> r.status = "none"
    /\ \A j \in Keys : items[j].id = r.id /\ r.id # 0 =>
          /\ j = k
          /\ r.status = "ready" => r.id \notin claimed /\ items[j].status \in {"ready", "evicted"}

TableInv ==
    /\ items \in [Keys -> Rows]
    /\ nextId \in Nat \ {0}
    /\ claimed \subseteq 1 .. (nextId - 1)
    /\ \A k \in Keys : Known(k, items[k])

\* What the tab has read, wherever it keeps it.
AllKnown(rs) == rs \in [Keys -> Rows] /\ \A k \in Keys : Known(k, rs[k])

Clicked == {"act", "reread", "delete"}

ReqType ==
    \/ req = Idle
    \/ /\ req \in [op : Ops, step : {"read", "answer"}, at : At, left : Lefts,
                   rows : [Keys -> Rows], lost : BOOLEAN]
       /\ req.step = "read" => req.left # <<>>
    \/ req \in [op : Ops, step : Clicked, at : At, key : Keys, row : Rows, rows : [Keys -> Rows]]

\* A button is posted with the id of a row for which the page had the button.
ClickFits ==
    req.step \in Clicked =>
        /\ Known(req.key, req.row)
        /\ req.step = "delete" => req.row.id # 0
        /\ req.step = "act" /\ req.op = "cancel" => req.row.id # 0
        /\ req.step = "act" /\ req.op = "evict" => req.row.status = "ready"

TabInv ==
    /\ page \in [at : At, rows : [Keys -> Rows], notices : SUBSET Keys]
    /\ poll \in [sent : BOOLEAN, rows : [Keys -> Rows]]
    /\ ReqType
    /\ AllKnown(page.rows) /\ AllKnown(req.rows) /\ AllKnown(poll.rows)
    /\ ClickFits

PagesInv == TableInv /\ TabInv

-----------------------------------------------------------------------------
(* The table.                                                              *)

TableKept ==
    /\ TableInv'
    /\ \A k \in Keys, r \in Rows : Known(k, r) => Known(k, r)'

LEMMA Typed == /\ Absent \in Rows
               /\ \A r \in Rows : r = [id |-> r.id, status |-> r.status] /\ r.id \in Nat
                                  /\ r.status \in Statuses
  BY DEF Absent, Rows, Statuses

LEMMA NoRowKnown == ASSUME TableInv, NEW k \in Keys
                    PROVE  Known(k, Absent)
  BY Typed DEF TableInv, Known, Absent

\* A request makes a row under a fresh id, takes it away, or changes its status;
\* none of it makes 'queued' of a row that somebody may hold for 'ready'.
LEMMA RequestKeeps == ASSUME TableInv, NEW q \in Keys, Request(q)
                      PROVE  TableKept
<1>1. items[q] \in Rows
  BY DEF TableInv
<1>2. CASE /\ items[q] = Absent
           /\ items' = [items EXCEPT ![q] = [id |-> nextId, status |-> "queued"]]
           /\ nextId' = nextId + 1
           /\ UNCHANGED claimed
  <2>1. [id |-> nextId, status |-> "queued"] \in Rows
    BY DEF TableInv, Rows, Statuses
  <2>2. \A k \in Keys, r \in Rows : Known(k, r) => Known(k, r)'
    BY <1>2, Typed DEF TableInv, Known
  <2>3. /\ items' \in [Keys -> Rows] /\ nextId' \in Nat \ {0} /\ claimed' \subseteq 1 .. (nextId' - 1)
    BY <1>2, <2>1 DEF TableInv
  <2>4. \A k \in Keys : Known(k, items[k])'
    BY <1>2, <2>1, <2>2, Typed DEF TableInv, Known
  <2> QED
    BY <2>2, <2>3, <2>4 DEF TableKept, TableInv
<1>3. CASE /\ items[q].status = "error"
           /\ items' = [items EXCEPT ![q].status = "queued"]
           /\ UNCHANGED <<nextId, claimed>>
  <2>1. items'[q] = [id |-> items[q].id, status |-> "queued"] /\ items'[q] \in Rows
    BY <1>1, <1>3, Typed DEF TableInv, Rows, Statuses
  <2>2. \A k \in Keys, r \in Rows : Known(k, r) => Known(k, r)'
    BY <1>3, <2>1, Typed DEF TableInv, Known
  <2>3. /\ items' \in [Keys -> Rows] /\ nextId' \in Nat \ {0} /\ claimed' \subseteq 1 .. (nextId' - 1)
    BY <1>3, <2>1 DEF TableInv
  <2>4. \A k \in Keys : Known(k, items[k])'
    BY <1>1, <1>3, <2>1, <2>3, Typed DEF TableInv, Known
  <2> QED
    BY <2>2, <2>3, <2>4 DEF TableKept, TableInv
<1>4. CASE Delete(q)
  <2>1. items' = [items EXCEPT ![q] = Absent] /\ UNCHANGED <<nextId, claimed>>
    BY <1>4 DEF Delete
  <2>2. \A k \in Keys, r \in Rows : Known(k, r) => Known(k, r)'
    BY <2>1, Typed DEF TableInv, Known, Absent
  <2>3. /\ items' \in [Keys -> Rows] /\ nextId' \in Nat \ {0} /\ claimed' \subseteq 1 .. (nextId' - 1)
    BY <2>1, Typed DEF TableInv
  <2>4. \A k \in Keys : Known(k, items[k])'
    BY <2>1, <2>3, Typed DEF TableInv, Known, Absent
  <2> QED
    BY <2>2, <2>3, <2>4 DEF TableKept, TableInv
<1>5. CASE Evict(q)
  <2>1. /\ items' = [items EXCEPT ![q].status = "evicted"] /\ UNCHANGED <<nextId, claimed>>
        /\ items[q] # Absent
    BY <1>5 DEF Evict
  <2>2. items'[q] = [id |-> items[q].id, status |-> "evicted"] /\ items'[q] \in Rows
    BY <1>1, <2>1, Typed DEF TableInv, Rows, Statuses
  <2>3. \A k \in Keys, r \in Rows : Known(k, r) => Known(k, r)'
    BY <2>1, <2>2, Typed DEF TableInv, Known
  <2>4. /\ items' \in [Keys -> Rows] /\ nextId' \in Nat \ {0} /\ claimed' \subseteq 1 .. (nextId' - 1)
    BY <2>1, <2>2 DEF TableInv
  <2>5. items[q].status # "none"
    BY <1>1, <2>1, Typed DEF TableInv, Known, Absent
  <2>6. \A k \in Keys : Known(k, items[k])'
    BY <1>1, <2>1, <2>2, <2>4, <2>5, Typed DEF TableInv, Known
  <2> QED
    BY <2>3, <2>4, <2>6 DEF TableKept, TableInv
<1> QED
  BY <1>2, <1>3, <1>4, <1>5 DEF Request, Enqueue

\* The engine takes into its hands only rows that are 'queued', and lets go of
\* a row that it makes 'ready'.
LEMMA EngineKeeps == ASSUME TableInv, Engine
                     PROVE  TableKept
<1>1. ASSUME NEW q \in Keys, Mark(q) PROVE TableKept
  <2>1. /\ items' = [items EXCEPT ![q].status = "downloading"] /\ UNCHANGED <<nextId, claimed>>
        /\ items[q].id \in claimed /\ items[q].status \in InFlight /\ items[q] \in Rows
    BY <1>1 DEF Mark, TableInv
  <2>2. items'[q] = [id |-> items[q].id, status |-> "downloading"] /\ items'[q] \in Rows
    BY <2>1, Typed DEF TableInv, Rows, Statuses
  <2>3. \A k \in Keys, r \in Rows : Known(k, r) => Known(k, r)'
    BY <2>1, <2>2, Typed DEF TableInv, Known
  <2>4. /\ items' \in [Keys -> Rows] /\ nextId' \in Nat \ {0} /\ claimed' \subseteq 1 .. (nextId' - 1)
    BY <2>1, <2>2 DEF TableInv
  <2>5. \A k \in Keys : Known(k, items[k])'
    BY <2>1, <2>2, <2>4, Typed DEF TableInv, Known, InFlight
  <2> QED
    BY <2>3, <2>4, <2>5 DEF TableKept, TableInv
<1>2. ASSUME NEW q \in Keys, Fail(q) PROVE TableKept
  <2>1. /\ items' = [items EXCEPT ![q].status = "error"] /\ nextId' = nextId /\ claimed' \subseteq claimed
        /\ items[q].id \in claimed /\ items[q].status \in InFlight /\ items[q] \in Rows
    BY <1>2 DEF Fail, TableInv
  <2>2. items'[q] = [id |-> items[q].id, status |-> "error"] /\ items'[q] \in Rows
    BY <2>1, Typed DEF TableInv, Rows, Statuses
  <2>3. \A k \in Keys, r \in Rows : Known(k, r) => Known(k, r)'
    BY <2>1, <2>2, Typed DEF TableInv, Known
  <2>4. /\ items' \in [Keys -> Rows] /\ nextId' \in Nat \ {0} /\ claimed' \subseteq 1 .. (nextId' - 1)
    BY <2>1, <2>2 DEF TableInv
  <2>5. \A k \in Keys : Known(k, items[k])'
    BY <2>1, <2>2, <2>4, Typed DEF TableInv, Known, InFlight
  <2> QED
    BY <2>3, <2>4, <2>5 DEF TableKept, TableInv
<1>3. ASSUME NEW q \in Keys, Deliver(q) PROVE TableKept
  <2>1. items[q] \in Rows /\ claimed' \subseteq claimed \ {items[q].id}
    BY <1>3 DEF Deliver, TableInv
  <2>2. CASE /\ items[q] = Absent
             /\ items' = [items EXCEPT ![q] = [id |-> nextId, status |-> "ready"]]
             /\ nextId' = nextId + 1
    <3>1. [id |-> nextId, status |-> "ready"] \in Rows
      BY DEF TableInv, Rows, Statuses
    <3>2. \A k \in Keys, r \in Rows : Known(k, r) => Known(k, r)'
      BY <2>1, <2>2, Typed DEF TableInv, Known
    <3>3. /\ items' \in [Keys -> Rows] /\ nextId' \in Nat \ {0} /\ claimed' \subseteq 1 .. (nextId' - 1)
      BY <2>1, <2>2, <3>1 DEF TableInv
    <3>4. \A k \in Keys : Known(k, items[k])'
      BY <2>1, <2>2, <3>1, <3>3, Typed DEF TableInv, Known
    <3> QED
      BY <3>2, <3>3, <3>4 DEF TableKept, TableInv
  <2>3. CASE /\ items[q] # Absent
             /\ items' = [items EXCEPT ![q].status = "ready"]
             /\ UNCHANGED nextId
    <3>1. items'[q] = [id |-> items[q].id, status |-> "ready"] /\ items'[q] \in Rows
      BY <2>1, <2>3, Typed DEF TableInv, Rows, Statuses
    <3>2. \A k \in Keys, r \in Rows : Known(k, r) => Known(k, r)'
      BY <2>1, <2>3, <3>1, Typed DEF TableInv, Known
    <3>3. /\ items' \in [Keys -> Rows] /\ nextId' \in Nat \ {0} /\ claimed' \subseteq 1 .. (nextId' - 1)
      BY <2>1, <2>3, <3>1 DEF TableInv
    <3>4. items[q].status # "none"
      BY <2>1, <2>3, Typed DEF TableInv, Known, Absent
    <3>5. \A k \in Keys : Known(k, items[k])'
      BY <2>1, <2>3, <3>1, <3>3, <3>4, Typed DEF TableInv, Known
    <3> QED
      BY <3>2, <3>3, <3>5 DEF TableKept, TableInv
  <2> QED
    BY <1>3, <2>2, <2>3 DEF Deliver
<1>4. CASE Claim
  <2>1. /\ claimed' = {items[k].id : k \in {q \in Keys : items[q].status = "queued"}}
        /\ UNCHANGED <<items, nextId>>
    BY <1>4 DEF Claim
  <2>2. \A k \in Keys, r \in Rows : Known(k, r) => Known(k, r)'
    <3> SUFFICES ASSUME NEW k \in Keys, NEW r \in Rows, Known(k, r),
                        NEW j \in Keys, items[j].id = r.id, r.id # 0, r.status = "ready"
                 PROVE  r.id \notin claimed'
      BY <2>1 DEF Known
    <3>1. j = k /\ items[k].status \in {"ready", "evicted"}
      BY DEF Known
    <3>2. \A q \in Keys : items[q].id = r.id => q = k
      BY DEF Known
    <3> QED
      BY <2>1, <3>1, <3>2
  <2>3. \A k \in Keys : items[k].status = "queued" => items[k].id \in 1 .. (nextId - 1)
    BY Typed DEF TableInv, Known
  <2>4. /\ items' \in [Keys -> Rows] /\ nextId' \in Nat \ {0} /\ claimed' \subseteq 1 .. (nextId' - 1)
    BY <2>1, <2>3 DEF TableInv
  <2>5. \A k \in Keys : Known(k, items[k])'
    BY <2>1, <2>2 DEF TableInv
  <2> QED
    BY <2>2, <2>4, <2>5 DEF TableKept, TableInv
<1>5. CASE Release
  <2>1. claimed' \subseteq claimed /\ UNCHANGED <<items, nextId>>
    BY <1>5 DEF Release
  <2>2. \A k \in Keys, r \in Rows : Known(k, r) => Known(k, r)'
    BY <2>1 DEF Known
  <2> QED
    BY <2>1, <2>2 DEF TableKept, TableInv
<1>6. CASE Restart
  <2>1. /\ items' = [k \in Keys |->
               [items[k] EXCEPT !.status = IF @ = "downloading" THEN "queued" ELSE @]]
        /\ UNCHANGED <<nextId, claimed>>
    BY <1>6 DEF Restart
  <2>2. \A k \in Keys : /\ items'[k].id = items[k].id /\ items'[k] \in Rows
                        /\ items'[k].status = IF items[k].status = "downloading" THEN "queued"
                                              ELSE items[k].status
    BY <2>1, Typed DEF TableInv, Rows, Statuses
  <2>3. \A k \in Keys, r \in Rows : Known(k, r) => Known(k, r)'
    BY <2>1, <2>2 DEF Known
  <2>4. /\ items' \in [Keys -> Rows] /\ nextId' \in Nat \ {0} /\ claimed' \subseteq 1 .. (nextId' - 1)
    BY <2>1, <2>2 DEF TableInv
  <2>5. \A k \in Keys : Known(k, items[k])'
    <3> SUFFICES ASSUME NEW k \in Keys
                 PROVE  Known(k, items[k])'
      OBVIOUS
    <3>1. Known(k, items[k]) /\ items'[k].id = items[k].id /\ items'[k] \in Rows
      BY <2>2 DEF TableInv
    <3>2. items'[k].id < nextId' /\ (items'[k].id = 0 <=> items'[k].status = "none")
      BY <2>1, <2>2, <3>1 DEF Known
    <3>3. \A j \in Keys : items'[j].id = items'[k].id /\ items'[k].id # 0 => j = k
      BY <2>2, <3>1 DEF Known
    <3>4. items'[k].id # 0 /\ items'[k].status = "ready" => items'[k].id \notin claimed'
      BY <2>1, <2>2, <3>1 DEF Known
    <3> QED
      BY <3>1, <3>2, <3>3, <3>4 DEF Known
  <2> QED
    BY <2>3, <2>4, <2>5 DEF TableKept, TableInv
<1> QED
  BY <1>1, <1>2, <1>3, <1>4, <1>5, <1>6 DEF Engine

LEMMA TableKeeps == ASSUME TableInv, TableNext \/ UNCHANGED tableVars
                    PROVE  TableKept
<1>1. CASE TableNext
  BY <1>1, RequestKeeps, EngineKeeps DEF TableNext
<1>2. CASE UNCHANGED tableVars
  BY <1>2 DEF tableVars, TableKept, TableInv, Known
<1> QED
  BY <1>1, <1>2

-----------------------------------------------------------------------------
(* The tab.                                                                *)

LEMMA WithKnown == ASSUME TableInv, NEW S
                   PROVE  AllKnown(With(S))
<1>1. \A k \in Keys : With(S)[k] \in Rows /\ Known(k, With(S)[k])
  BY Typed, NoRowKnown DEF With, TableInv
<1> QED
  BY <1>1 DEF With, AllKnown

LEMMA CombineKnown == ASSUME NEW a, NEW b, NEW at, AllKnown(a), AllKnown(b)
                      PROVE  AllKnown(Combine(at, a, b))
  BY DEF Combine, Over, AllKnown

LEMMA NothingIsKnown == ASSUME TableInv PROVE AllKnown(Nothing)
  BY NoRowKnown, Typed DEF Nothing, AllKnown

LEMMA NothingKnown == ASSUME TableInv' PROVE AllKnown(Nothing)'
<1>1. \A k \in Keys : Nothing[k] = Absent
  BY DEF Nothing
<1> QED
  BY <1>1, Typed DEF Nothing, AllKnown, TableInv, Known, Absent

LEMMA SelectsLefts == ASSUME NEW at PROVE Selects(at) \in Lefts /\ Selects(at) # <<>>
  BY DEF Selects, Lefts

LEMMA TailLefts == ASSUME NEW left \in Lefts, left # <<>>
                   PROVE  Tail(left) \in Lefts
<1>1. Tail(<<"inflight", "ready">>) = <<"ready">> /\ Tail(<<"inflight">>) = <<>> /\ Tail(<<"ready">>) = <<>>
  OBVIOUS
<1> QED
  BY <1>1 DEF Lefts

LEMMA OffersFit == ASSUME NEW at, NEW r \in Rows, NEW op \in Offers(at, r.status)
                   PROVE  /\ op \in Ops
                          /\ op = "cancel" => r.status # "none"
                          /\ op = "evict" => r.status = "ready"
  BY DEF Offers, ActionCell, QueueRow, StorageRow, DetailActions, Ops, Rows, Statuses

LEMMA IdleFits == ASSUME TableInv', req' = Idle
                  PROVE  (ReqType /\ AllKnown(req.rows) /\ ClickFits)'
  BY NothingKnown DEF Idle, ReqType, ClickFits, Clicked

LEMMA BuildingFits == ASSUME TableInv', NEW op \in Ops, NEW at \in At, req' = Building(op, at)
                      PROVE  (ReqType /\ AllKnown(req.rows) /\ ClickFits)'
<1>1. Nothing \in [Keys -> Rows]
  BY NothingKnown DEF AllKnown
<1>2. ReqType'
  BY <1>1, SelectsLefts DEF Building, ReqType
<1> QED
  BY <1>2, NothingKnown DEF Building, ClickFits, Clicked

\* The table changes under what the tab has read.
LEMMA PageStays == ASSUME PagesInv, TableKept, UNCHANGED page
                   PROVE  /\ page' \in [at : At, rows : [Keys -> Rows], notices : SUBSET Keys]
                          /\ AllKnown(page.rows)'
<1>1. page \in [at : At, rows : [Keys -> Rows], notices : SUBSET Keys]
      /\ AllKnown(page.rows) /\ page' = page
  BY DEF PagesInv, TabInv
<1> QED
  BY <1>1 DEF TableKept, AllKnown, Known

LEMMA PollStays == ASSUME PagesInv, TableKept, UNCHANGED poll
                   PROVE  poll' \in [sent : BOOLEAN, rows : [Keys -> Rows]] /\ AllKnown(poll.rows)'
<1>1. poll \in [sent : BOOLEAN, rows : [Keys -> Rows]] /\ AllKnown(poll.rows) /\ poll' = poll
  BY DEF PagesInv, TabInv
<1> QED
  BY <1>1 DEF TableKept, AllKnown, Known

LEMMA ReqStays == ASSUME PagesInv, TableKept, UNCHANGED req
                  PROVE  (ReqType /\ AllKnown(req.rows) /\ ClickFits)'
<1>1. AllKnown(req.rows) /\ ReqType /\ ClickFits /\ req' = req
  BY DEF PagesInv, TabInv
<1>2. AllKnown(req.rows)'
  BY <1>1 DEF TableKept, AllKnown, Known
<1>3. req.step \in Clicked => req.key \in Keys /\ req.row \in Rows
  BY <1>1 DEF ReqType, Idle, Clicked
<1>4. ClickFits'
  BY <1>1, <1>3 DEF TableKept, ClickFits, Known
<1> QED
  BY <1>1, <1>2, <1>4 DEF ReqType

LEMMA AbsentKnown == ASSUME TableInv', NEW k \in Keys PROVE Known(k, Absent)'
  BY Typed DEF TableInv, Known, Absent

LEMMA ClickType == ASSUME PagesInv, req.step \in Clicked
                   PROVE  req \in [op : Ops, step : Clicked, at : At, key : Keys,
                                   row : Rows, rows : [Keys -> Rows]]
  BY DEF PagesInv, TabInv, ReqType, Idle, Clicked

LEMMA BuildType == ASSUME PagesInv, req.step \in {"read", "answer"}
                   PROVE  /\ req \in [op : Ops, step : {"read", "answer"}, at : At,
                                      left : Lefts, rows : [Keys -> Rows], lost : BOOLEAN]
                          /\ req.step = "read" => req.left # <<>>
  BY DEF PagesInv, TabInv, ReqType, Idle, Clicked

\* Every step of the tab is one of the table as well, or none.
LEMMA TableMoves == ASSUME PagesInv, Next
                    PROVE  TableNext \/ UNCHANGED tableVars
<1>1. CASE Queue
  <2>1. req.key \in Keys
    BY <1>1, ClickType DEF Queue, Clicked
  <2> QED
    BY <1>1, <2>1 DEF Queue, TableNext, Request
<1>2. CASE Cancel
  BY <1>2 DEF Cancel, Named, TableNext, Request
<1>3. CASE EvictById
  BY <1>3 DEF EvictById, Named, TableNext, Request
<1>4. CASE Others
  BY <1>4 DEF Others
<1>5. CASE Reread \/ CheckCancel \/ Poll \/ Refresh \/ Read \/ Unavailable \/ Show
  BY <1>5 DEF Reread, CheckCancel, Poll, Refresh, Read, Unavailable, Show, tableVars
<1>6. CASE \/ \E at \in Visits : Open(at)
           \/ \E k \in Keys, op \in {"queue", "cancel", "evict"} : Click(op, k)
  BY <1>6 DEF Open, Click
<1> QED
  BY <1>1, <1>2, <1>3, <1>4, <1>5, <1>6 DEF Next, Step, Tab

\* What the answer to a click leaves.
LEMMA NoticeKeeps == ASSUME PagesInv, TableKept, req.step \in Clicked, Notice, UNCHANGED poll
                     PROVE  PagesInv'
<1>1. page \in [at : At, rows : [Keys -> Rows], notices : SUBSET Keys]
      /\ AllKnown(page.rows) /\ req.key \in Keys
  BY ClickType DEF PagesInv, TabInv
<1>2. page'.rows = page.rows
      /\ page' \in [at : At, rows : [Keys -> Rows], notices : SUBSET Keys]
  BY <1>1 DEF Notice
<1>3. AllKnown(page.rows)'
  BY <1>1, <1>2 DEF TableKept, AllKnown, Known
<1>4. req' = Idle
  BY DEF Notice
<1> QED
  BY <1>2, <1>3, <1>4, IdleFits, PollStays DEF PagesInv, TabInv, TableKept

LEMMA AnswerKeeps == ASSUME PagesInv, TableKept, req.step \in Clicked, UNCHANGED poll,
                            NEW row \in Rows, Known(req.key, row), Answer(row)
                     PROVE  PagesInv'
<1>1. /\ req.key \in Keys /\ req.at \in At /\ req.op \in Ops
      /\ page \in [at : At, rows : [Keys -> Rows], notices : SUBSET Keys]
      /\ AllKnown(page.rows)
  BY ClickType DEF PagesInv, TabInv
<1>2. CASE /\ page' = [page EXCEPT !.rows[req.key] = row]
           /\ req' = Idle
  <2>1. /\ page' \in [at : At, rows : [Keys -> Rows], notices : SUBSET Keys]
        /\ page'.rows = [page.rows EXCEPT ![req.key] = row]
    BY <1>1, <1>2
  <2>2. \A k \in Keys : page'.rows[k] \in Rows /\ Known(k, page'.rows[k])
    BY <1>1, <2>1 DEF AllKnown
  <2>3. AllKnown(page.rows)'
    BY <2>1, <2>2 DEF TableKept, AllKnown, Known
  <2> QED
    BY <1>2, <2>1, <2>3, IdleFits, PollStays DEF PagesInv, TabInv, TableKept
<1>3. CASE /\ req' = Building(req.op, req.at)
           /\ UNCHANGED page
  <2>1. (ReqType /\ AllKnown(req.rows) /\ ClickFits)'
    BY <1>1, <1>3, BuildingFits DEF TableKept
  <2> QED
    BY <1>3, <2>1, PageStays, PollStays DEF PagesInv, TabInv, TableKept
<1> QED
  BY <1>2, <1>3 DEF Answer

-----------------------------------------------------------------------------
(* The pages' invariant is inductive.                                      *)

LEMMA ReadingKeeps == ASSUME PagesInv, TableKept,
                             (\E at \in Visits : Open(at)) \/ Read \/ Unavailable \/ Show
                      PROVE  PagesInv'
<1>1. ASSUME NEW at \in Visits, Open(at) PROVE PagesInv'
  <2>1. (ReqType /\ AllKnown(req.rows) /\ ClickFits)'
    BY <1>1, BuildingFits, VisitsAssumption DEF TableKept, Open, Ops
  <2> QED
    BY <1>1, <2>1, PageStays, PollStays DEF PagesInv, TabInv, TableKept, Open
<1>2. CASE Read
  <2>0. PICK lost \in BOOLEAN :
           LET ready == Head(req.left) = "ready"
               list == IF lost THEN Nothing ELSE IF ready THEN ListMirrored ELSE DownloadStatus
               rows == IF ready THEN Combine(req.at, req.rows, list) ELSE Combine(req.at, list, req.rows)
               left == IF req.at \in Keys /\ rows[req.at] # Absent THEN <<>> ELSE Tail(req.left)
           IN  req' = [req EXCEPT !.rows = rows, !.left = left, !.lost = @ \/ lost,
                                  !.step = IF left = <<>> THEN "answer" ELSE "read"]
    BY <1>2 DEF Read
  <2> DEFINE list == IF lost THEN Nothing ELSE IF Head(req.left) = "ready" THEN ListMirrored ELSE DownloadStatus
             got == IF Head(req.left) = "ready" THEN Combine(req.at, req.rows, list)
                    ELSE Combine(req.at, list, req.rows)
             left == IF req.at \in Keys /\ got[req.at] # Absent THEN <<>> ELSE Tail(req.left)
  <2>1. AllKnown(got)
    <3>1. AllKnown(list)
      BY WithKnown, NothingIsKnown DEF PagesInv, ListMirrored, DownloadStatus
    <3> QED
      BY <3>1, CombineKnown DEF PagesInv, TabInv
  <2>2. /\ req \in [op : Ops, step : {"read", "answer"}, at : At,
                    left : Lefts, rows : [Keys -> Rows], lost : BOOLEAN]
        /\ left \in Lefts
    <3>1. /\ req \in [op : Ops, step : {"read", "answer"}, at : At,
                      left : Lefts, rows : [Keys -> Rows], lost : BOOLEAN]
          /\ req.left \in Lefts /\ req.left # <<>>
      BY <1>2, BuildType DEF Read
    <3>2. Tail(req.left) \in Lefts /\ <<>> \in Lefts
      BY <3>1, TailLefts DEF Lefts
    <3> QED
      BY <3>1, <3>2
  <2>3. req' = [req EXCEPT !.rows = got, !.left = left, !.lost = @ \/ lost,
                           !.step = IF left = <<>> THEN "answer" ELSE "read"]
    BY <2>0
  <2> HIDE DEF got, left
  <2>4. /\ req' \in [op : Ops, step : {"read", "answer"}, at : At,
                     left : Lefts, rows : [Keys -> Rows], lost : BOOLEAN]
        /\ req'.step = "read" => req'.left # <<>>
        /\ req'.rows = got
        /\ req'.step \notin Clicked
    BY <2>1, <2>2, <2>3 DEF AllKnown, Clicked
  <2>5. AllKnown(req.rows)'
    BY <2>1, <2>4 DEF TableKept, AllKnown, Known
  <2>6. UNCHANGED <<page, poll>>
    BY <1>2 DEF Read
  <2> QED
    BY <2>4, <2>5, <2>6, PageStays, PollStays DEF PagesInv, TabInv, TableKept, ReqType, ClickFits
<1>3. CASE Show
  <2>1. /\ req.at \in At /\ AllKnown(req.rows)
        /\ page' = [at |-> req.at, rows |-> req.rows, notices |-> {}]
        /\ req' = Idle /\ poll' = NoPoll
    BY <1>3, BuildType DEF Show, PagesInv, TabInv
  <2>2. AllKnown(page.rows)'
    BY <2>1 DEF TableKept, AllKnown, Known
  <2>3. AllKnown(poll.rows)' /\ poll' \in [sent : BOOLEAN, rows : [Keys -> Rows]]
    BY <2>1, NothingKnown DEF NoPoll, TableKept, AllKnown
  <2> QED
    BY <2>1, <2>2, <2>3, IdleFits DEF PagesInv, TabInv, TableKept, AllKnown
<1>4. CASE Unavailable
  <2>1. /\ page' = [at |-> req.at, rows |-> Nothing, notices |-> {req.at}]
        /\ req.at \in At /\ req.at \in Keys /\ req' = Idle /\ poll' = NoPoll
    BY <1>4 DEF Unavailable, At
  <2>2. AllKnown(Nothing)'
    BY NothingKnown DEF TableKept
  <2>3. page' \in [at : At, rows : [Keys -> Rows], notices : SUBSET Keys] /\ AllKnown(page.rows)'
    BY <2>1, <2>2 DEF AllKnown
  <2>4. AllKnown(poll.rows)' /\ poll' \in [sent : BOOLEAN, rows : [Keys -> Rows]]
    BY <2>1, <2>2 DEF NoPoll, AllKnown
  <2> QED
    BY <2>1, <2>3, <2>4, IdleFits DEF PagesInv, TabInv, TableKept
<1> QED
  BY <1>1, <1>2, <1>3, <1>4

\* A click posts a row that the page shows, with a button that the row has.
LEMMA ClickKeeps == ASSUME PagesInv, TableKept, NEW k \in Keys, NEW op \in {"queue", "cancel", "evict"},
                           Click(op, k)
                    PROVE  PagesInv'
<1>1. /\ page \in [at : At, rows : [Keys -> Rows], notices : SUBSET Keys]
      /\ Known(k, page.rows[k]) /\ page.rows[k] \in Rows
      /\ op \in Offers(page.at, page.rows[k].status)
      /\ req' = [op |-> op, step |-> "act", at |-> page.at, key |-> k, row |-> page.rows[k],
                 rows |-> Nothing]
      /\ UNCHANGED <<page, poll>>
  BY DEF Click, PagesInv, TabInv, AllKnown
<1>2. /\ op \in Ops
      /\ op = "cancel" => page.rows[k].id # 0
      /\ op = "evict" => page.rows[k].status = "ready"
  BY <1>1, OffersFit DEF Known
<1>3. AllKnown(Nothing)'
  BY NothingKnown DEF TableKept
<1>4. ReqType' /\ AllKnown(req.rows)'
  BY <1>1, <1>2, <1>3 DEF ReqType, Clicked, AllKnown
<1>5. Known(k, page.rows[k])'
  BY <1>1 DEF TableKept, Known
<1>6. ClickFits'
  BY <1>1, <1>2, <1>5 DEF ClickFits, Clicked, Known
<1> QED
  BY <1>1, <1>4, <1>6, PageStays, PollStays DEF PagesInv, TabInv, TableKept

LEMMA ActingKeeps == ASSUME PagesInv, TableKept, Queue \/ Reread \/ CheckCancel \/ Cancel \/ EvictById
                     PROVE  PagesInv'
<1>1. /\ req.step \in Clicked
      /\ req \in [op : Ops, step : Clicked, at : At, key : Keys, row : Rows, rows : [Keys -> Rows]]
      /\ req.key \in Keys
      /\ AllKnown(req.rows) /\ ClickFits /\ UNCHANGED poll
  <2>1. req.step \in Clicked /\ UNCHANGED poll
    BY DEF Queue, Reread, CheckCancel, Cancel, EvictById, Clicked
  <2> QED
    BY <2>1, ClickType DEF PagesInv, TabInv
<1>2. \A k \in Keys : items[k] \in Rows /\ Known(k, items[k]) /\ Known(k, Absent)
  BY NoRowKnown DEF PagesInv, TableInv
<1>3. CASE Notice
  BY <1>1, <1>3, NoticeKeeps
<1>4. CASE Answer(Absent)
  BY <1>1, <1>2, <1>4, AnswerKeeps, Typed
<1>5. CASE Answer(items[req.key])
  BY <1>1, <1>2, <1>5, AnswerKeeps
<1>6. CASE /\ req' = [req EXCEPT !.step = "reread", !.row = items'[req.key]]
           /\ UNCHANGED page
  <2>1. items'[req.key] \in Rows
    BY <1>1 DEF TableKept, TableInv
  <2>2. /\ req' \in [op : Ops, step : Clicked, at : At, key : Keys, row : Rows, rows : [Keys -> Rows]]
        /\ req'.step = "reread" /\ req'.key = req.key /\ req'.row = items'[req.key] /\ req'.rows = req.rows
    BY <1>1, <1>6, <2>1 DEF Clicked
  <2>3. ReqType' /\ AllKnown(req.rows)'
    BY <1>1, <2>2 DEF ReqType, TableKept, AllKnown, Known
  <2>4. ClickFits'
    BY <1>1, <2>2 DEF ClickFits, TableKept, TableInv, Known
  <2> QED
    BY <1>1, <1>6, <2>3, <2>4, PageStays, PollStays DEF PagesInv, TabInv, TableKept
<1>7. CASE /\ req' = [req EXCEPT !.step = "delete"]
           /\ UNCHANGED page
           /\ req.step = "act" /\ req.op = "cancel"
  <2>1. /\ req' \in [op : Ops, step : Clicked, at : At, key : Keys, row : Rows, rows : [Keys -> Rows]]
        /\ req'.step = "delete" /\ req'.key = req.key /\ req'.row = req.row /\ req'.rows = req.rows
    BY <1>1, <1>7 DEF Clicked
  <2>2. ReqType' /\ AllKnown(req.rows)'
    BY <1>1, <2>1 DEF ReqType, TableKept, AllKnown, Known
  <2>3. req.row.id # 0 /\ Known(req.key, req.row) /\ req.row \in Rows
    BY <1>1, <1>7 DEF ClickFits
  <2>4. ClickFits'
    BY <1>1, <2>1, <2>3 DEF ClickFits, TableKept, Known
  <2> QED
    BY <1>1, <1>7, <2>2, <2>4, PageStays, PollStays DEF PagesInv, TabInv, TableKept
<1> QED
  BY <1>3, <1>4, <1>5, <1>6, <1>7 DEF Queue, Reread, CheckCancel, Cancel, EvictById

LEMMA PollingKeeps == ASSUME PagesInv, TableKept, Poll \/ Refresh
                      PROVE  PagesInv'
<1>1. UNCHANGED req
  BY DEF Poll, Refresh
<1>2. CASE Poll
  <2>1. PICK rows \in {DownloadStatus, Nothing} : poll' = [sent |-> TRUE, rows |-> rows] /\ UNCHANGED page
    BY <1>2 DEF Poll
  <2>3. AllKnown(rows)
    BY WithKnown, NothingIsKnown DEF DownloadStatus, PagesInv
  <2>2. AllKnown(poll.rows)' /\ poll' \in [sent : BOOLEAN, rows : [Keys -> Rows]]
    BY <2>1, <2>3 DEF TableKept, AllKnown, Known
  <2> QED
    BY <1>1, <2>1, <2>2, ReqStays, PageStays DEF PagesInv, TabInv, TableKept
<1>3. CASE Refresh
  <2>1. /\ page \in [at : At, rows : [Keys -> Rows], notices : SUBSET Keys]
        /\ page' = [page EXCEPT !.rows = poll.rows, !.notices = {}]
        /\ poll' = NoPoll /\ AllKnown(poll.rows)
    BY <1>3 DEF Refresh, PagesInv, TabInv
  <2>2. page' \in [at : At, rows : [Keys -> Rows], notices : SUBSET Keys]
        /\ page'.rows = poll.rows
    BY <2>1 DEF AllKnown
  <2>3. AllKnown(page.rows)'
    BY <2>1, <2>2 DEF TableKept, AllKnown, Known
  <2>4. AllKnown(poll.rows)' /\ poll' \in [sent : BOOLEAN, rows : [Keys -> Rows]]
    BY <2>1, NothingKnown DEF NoPoll, TableKept, AllKnown
  <2> QED
    BY <1>1, <2>2, <2>3, <2>4, ReqStays DEF PagesInv, TabInv, TableKept
<1> QED
  BY <1>2, <1>3

LEMMA PagesStep == ASSUME PagesInv, [Next]_vars
                   PROVE  PagesInv'
<1>1. TableKept
  BY TableMoves, TableKeeps DEF vars, tableVars, PagesInv
<1>2. CASE Others \/ UNCHANGED vars
  BY <1>1, <1>2, PageStays, PollStays, ReqStays DEF Others, vars, tabVars, PagesInv, TabInv, TableKept
<1>3. CASE Tab
  BY <1>1, <1>3, ReadingKeeps, ClickKeeps, ActingKeeps, PollingKeeps DEF Tab
<1> QED
  BY <1>2, <1>3 DEF Next, Step

LEMMA PagesInit == Init => PagesInv
<1> SUFFICES ASSUME Init PROVE PagesInv
  OBVIOUS
<1>1. TableInv
  BY Typed DEF Init, TableInit, TableInv, Known, Absent
<1>2. AllKnown(Nothing)
  BY <1>1, NoRowKnown, Typed DEF Nothing, AllKnown
<1>3. /\ \E at \in At : page = [at |-> at, rows |-> Nothing, notices |-> {}]
      /\ req = Idle /\ poll = NoPoll
  BY VisitsAssumption DEF Init
<1>4. /\ page \in [at : At, rows : [Keys -> Rows], notices : SUBSET Keys]
      /\ page.rows = Nothing
  BY <1>2, <1>3 DEF AllKnown
<1>5. poll \in [sent : BOOLEAN, rows : [Keys -> Rows]] /\ poll.rows = Nothing
  BY <1>2, <1>3 DEF AllKnown, NoPoll
<1>6. ReqType /\ req.rows = Nothing /\ ClickFits
  BY <1>3 DEF Idle, ReqType, ClickFits, Clicked
<1> QED
  BY <1>1, <1>2, <1>4, <1>5, <1>6 DEF PagesInv, TabInv

LEMMA PagesInvHolds == Spec => []PagesInv
  BY PagesInit, PagesStep, PTL DEF Spec

-----------------------------------------------------------------------------
(* What a click can do.                                                    *)

\* Evict and Remove act on the row of the item that was clicked, or on none,
\* however old the page is and whatever has happened to the table since: ids
\* are not used again (handleCancel and handleEvict, AUTOINCREMENT).
THEOREM StaleClicksHitTheirItem == Spec => ClicksHitTheirItem
<1>1. ASSUME PagesInv, [Next]_vars
      PROVE  [(Cancel \/ EvictById) => \A k \in Keys \ {req.key} : items'[k] = items[k]]_vars
  <2> SUFFICES ASSUME Cancel \/ EvictById, NEW k \in Keys, k # req.key
               PROVE  items'[k] = items[k]
    OBVIOUS
  <2>1. /\ Known(req.key, req.row) /\ req.row.id # 0 /\ req.key \in Keys
        /\ items \in [Keys -> Rows]
    BY <1>1, ClickType DEF Cancel, EvictById, PagesInv, TableInv, TabInv, ClickFits, Clicked, Known
  <2>2. Named \subseteq {req.key}
    BY <2>1 DEF Named, Known
  <2> QED
    BY <2>1, <2>2 DEF Cancel, EvictById, Delete, Evict, tableVars
<1> QED
  BY <1>1, PagesInvHolds, PTL DEF Spec, ClicksHitTheirItem

\* EvictItem asks for no status, and need not: the button is on rows that were
\* 'ready', and such a row is 'ready' or 'evicted' for as long as it has its id.
THEOREM StaleEvictSparesDownloads == Spec => EvictSparesDownloads
<1>1. ASSUME PagesInv, [Next]_vars
      PROVE  [EvictById => \A k \in Keys : items'[k] # items[k] => items[k].status = "ready"]_vars
  <2> SUFFICES ASSUME EvictById, NEW k \in Keys, items'[k] # items[k]
               PROVE  items[k].status = "ready"
    OBVIOUS
  <2>1. /\ Known(req.key, req.row) /\ req.row.status = "ready" /\ req.row.id # 0
        /\ items[k] \in Rows /\ items \in [Keys -> Rows]
    BY <1>1, ClickType DEF EvictById, PagesInv, TableInv, TabInv, ClickFits, Clicked, Known
  <2>2. k \in Named /\ items' = [items EXCEPT ![k].status = "evicted"]
    BY <2>1 DEF EvictById, Evict, tableVars
  <2>3. items[k].status \in {"ready", "evicted"}
    BY <2>1, <2>2 DEF Named, Known
  <2>4. CASE items[k].status = "evicted"
    <3>1. items'[k] = items[k]
      BY <2>1, <2>2, <2>4, Typed
    <3> QED
      BY <3>1
  <2> QED
    BY <2>3, <2>4
<1> QED
  BY <1>1, PagesInvHolds, PTL DEF Spec, EvictSparesDownloads

-----------------------------------------------------------------------------
(* What a page leaves out.                                                 *)

\* A page shows an item if it is the item's own, or a library's.
Shows(at, k) == at \notin {"queue", "storage"} /\ at \in {k, "browse"}

\* Unless a list was lost, an item that was listed throughout the building of a page
\* is in what has been read, or is 'ready' with that list still to be read: it can leave the rows in
\* flight for the ready ones, but not the other way without ceasing to be listed.
SeenOrReady ==
    /\ there \subseteq Keys
    /\ \A k \in there : Shows(req.at, k) =>
          /\ req.step = "read" /\ ~req.lost /\ k \in Listed =>
                \/ req.left = <<"inflight", "ready">>
                \/ req.left = <<"ready">> /\ (req.rows[k] # Absent \/ items[k].status = "ready")
          /\ req.step = "answer" /\ ~req.lost => req.rows[k] # Absent

\* A row that stays listed does not cease to be 'ready'.
LEMMA ListedStaysReady == ASSUME PagesInv, TableNext \/ UNCHANGED tableVars,
                                 NEW k \in Keys, items[k].status = "ready", k \in Listed'
                          PROVE  items'[k].status = "ready"
<1>1. items \in [Keys -> Rows] /\ items[k] \in Rows /\ items[k] # Absent
      /\ items'[k].status \in {"queued", "downloading", "error", "ready"}
  BY DEF PagesInv, TableInv, Listed, Absent
<1>2. ASSUME NEW q \in Keys, Request(q) PROVE items'[k].status = "ready"
  <2>1. CASE q = k
    <3>1. ~Enqueue(k)
      BY <1>1 DEF Enqueue
    <3>2. ~Delete(k)
      BY <1>1 DEF Delete, Absent
    <3>3. ~Evict(k)
      BY <1>1, Typed DEF Evict
    <3> QED
      BY <1>2, <2>1, <3>1, <3>2, <3>3 DEF Request
  <2>2. CASE q # k
    BY <1>1, <1>2, <2>2 DEF Request, Enqueue, Delete, Evict
  <2> QED
    BY <2>1, <2>2
<1>3. ASSUME NEW q \in Keys, Mark(q) \/ Fail(q) \/ Deliver(q) PROVE items'[k].status = "ready"
  <2>1. CASE q = k
    <3>1. ~Mark(k) /\ ~Fail(k)
      BY DEF Mark, Fail, InFlight
    <3>2. Deliver(k) => items'[k].status = "ready"
      BY <1>1, Typed DEF Deliver
    <3> QED
      BY <1>3, <2>1, <3>1, <3>2
  <2>2. CASE q # k
    BY <1>1, <1>3, <2>2 DEF Mark, Fail, Deliver
  <2> QED
    BY <2>1, <2>2
<1>4. CASE Claim \/ Release \/ UNCHANGED tableVars
  BY <1>4 DEF Claim, Release, tableVars
<1>5. CASE Restart
  BY <1>1, <1>5, Typed DEF Restart
<1> QED
  BY <1>2, <1>3, <1>4, <1>5 DEF TableNext, Engine

\* The table changes, and the tab reads no further.
LEMMA WaitingSees == ASSUME PagesInv, SeenOrReady, Next, UNCHANGED req
                     PROVE  SeenOrReady'
<1>1. /\ there' \subseteq Keys
      /\ req.step \in {"read", "answer"} => there' = there \cap Listed
      /\ req.step \notin {"read", "answer"} => there' = {}
      /\ req' = req
  BY DEF Next, Step, History, SeenOrReady
<1>2. SUFFICES ASSUME NEW k \in there', Shows(req.at, k), req.step \in {"read", "answer"}
               PROVE  /\ req.step = "read" /\ ~req.lost /\ k \in Listed' =>
                            \/ req.left = <<"inflight", "ready">>
                            \/ req.left = <<"ready">> /\ (req.rows[k] # Absent \/ items'[k].status = "ready")
                      /\ req.step = "answer" /\ ~req.lost => req.rows[k] # Absent
  BY <1>1 DEF SeenOrReady, Shows
<1>3. k \in Keys /\ k \in there /\ k \in Listed
  BY <1>1, <1>2 DEF SeenOrReady
<1>4. k \in Listed' /\ items[k].status = "ready" => items'[k].status = "ready"
  BY <1>3, ListedStaysReady, TableMoves
<1> QED
  BY <1>2, <1>3, <1>4 DEF SeenOrReady

\* What is listed when the first list is read is in flight, or 'ready'.
LEMMA ReadSees == ASSUME PagesInv, SeenOrReady, Next, Read
                  PROVE  SeenOrReady'
<1> DEFINE got == IF Head(req.left) = "ready" THEN Combine(req.at, req.rows, ListMirrored)
                  ELSE Combine(req.at, DownloadStatus, req.rows)
           left == IF req.at \in Keys /\ got[req.at] # Absent THEN <<>> ELSE Tail(req.left)
<1>1. /\ req \in [op : Ops, step : {"read", "answer"}, at : At,
                  left : Lefts, rows : [Keys -> Rows], lost : BOOLEAN]
      /\ req.step = "read"
  BY BuildType DEF Read
<1>2. /\ req'.at = req.at /\ (req.lost => req'.lost)
      /\ req'.step \in {"read", "answer"} /\ UNCHANGED tableVars
      /\ ~req'.lost => /\ req'.rows = got /\ req'.left = left
                       /\ req'.step = IF left = <<>> THEN "answer" ELSE "read"
  <2>1. PICK lost \in BOOLEAN :
           LET ready == Head(req.left) = "ready"
               list == IF lost THEN Nothing ELSE IF ready THEN ListMirrored ELSE DownloadStatus
               rows == IF ready THEN Combine(req.at, req.rows, list) ELSE Combine(req.at, list, req.rows)
               rest == IF req.at \in Keys /\ rows[req.at] # Absent THEN <<>> ELSE Tail(req.left)
           IN  req' = [req EXCEPT !.rows = rows, !.left = rest, !.lost = @ \/ lost,
                                  !.step = IF rest = <<>> THEN "answer" ELSE "read"]
    BY DEF Read
  <2>2. req'.lost <=> req.lost \/ lost
    BY <1>1, <2>1
  <2>3. CASE lost
    BY <1>1, <2>1, <2>2, <2>3 DEF Read
  <2>4. CASE ~lost
    BY <1>1, <2>1, <2>2, <2>4 DEF Read
  <2> QED
    BY <2>3, <2>4
<1>3. there' = there \cap Listed /\ there \subseteq Keys
  BY <1>1, <1>2 DEF Next, Step, History, SeenOrReady
<1>4. SUFFICES ASSUME NEW k \in Keys, k \in there, k \in Listed, Shows(req.at, k), ~req.lost, ~req'.lost
               PROVE  \/ left = <<>> /\ got[k] # Absent
                      \/ left = <<"ready">> /\ (got[k] # Absent \/ items[k].status = "ready")
  <2>1. CASE req'.lost
    BY <1>2, <1>3, <2>1 DEF SeenOrReady
  <2>2. CASE ~req'.lost
    <3> HIDE DEF got, left
    <3>1. /\ ~req.lost /\ req'.at = req.at /\ req'.rows = got /\ req'.left = left
          /\ req'.step = IF left = <<>> THEN "answer" ELSE "read"
          /\ items' = items /\ there' \subseteq there /\ there' \subseteq Listed
      BY <1>2, <1>3, <2>2 DEF tableVars
    <3> QED
      BY <1>3, <1>4, <2>2, <3>1 DEF SeenOrReady, Shows
  <2> QED
    BY <2>1, <2>2
<1>5. /\ items[k] # Absent
      /\ items[k].status = "ready" \/ items[k].status \in {"queued", "downloading", "error"}
  BY <1>4 DEF Listed, Absent
<1>6. CASE req.left = <<"inflight", "ready">>
  <2>1. got = Combine(req.at, DownloadStatus, req.rows) /\ Tail(req.left) = <<"ready">>
    BY <1>6
  <2>2. got[k] # Absent \/ items[k].status = "ready"
    BY <1>5, <2>1 DEF Combine, Over, DownloadStatus, With
  <2>3. left = <<>> => got[k] # Absent
    BY <1>4, <2>1, KeysAssumption DEF Shows
  <2>4. left \in {<<>>, <<"ready">>}
    BY <2>1
  <2> QED
    BY <2>2, <2>3, <2>4
<1>7. CASE req.left = <<"ready">> /\ (req.rows[k] # Absent \/ items[k].status = "ready")
  <2>1. got = Combine(req.at, req.rows, ListMirrored) /\ Tail(req.left) = <<>>
    BY <1>7
  <2>2. got[k] # Absent
    BY <1>5, <1>7, <2>1 DEF Combine, Over, ListMirrored, With
  <2>3. left = <<>>
    BY <2>1
  <2> QED
    BY <2>2, <2>3
<1> QED
  BY <1>1, <1>4, <1>6, <1>7 DEF SeenOrReady

\* A page that is begun has both lists to read; what is listed is listed so far.
LEMMA BuildingSees == ASSUME Next, NEW op, NEW at, req.step # "read", req' = Building(op, at)
                      PROVE  SeenOrReady'
<1>1. there' = Listed'
  BY DEF Next, Step, History, Building
<1>2. \A k : Shows(at, k) => Selects(at) = <<"inflight", "ready">>
  BY DEF Shows, Selects
<1> QED
  BY <1>1, <1>2 DEF SeenOrReady, Listed, Building

LEMMA NotBuildingSees == ASSUME Next, req'.step \notin {"read", "answer"}
                         PROVE  SeenOrReady'
  BY DEF Next, Step, History, SeenOrReady

LEMMA SeenStep == ASSUME PagesInv, SeenOrReady, [Next]_vars
                  PROVE  SeenOrReady'
<1>1. CASE UNCHANGED vars
  BY <1>1 DEF vars, SeenOrReady, Listed
<1>2. CASE Next /\ Read
  BY <1>2, ReadSees
<1>3. CASE Next /\ UNCHANGED req
  BY <1>3, WaitingSees
<1>4. ASSUME Next, NEW at \in Visits, Open(at) PROVE SeenOrReady'
  BY <1>4, BuildingSees DEF Open
<1>5. CASE Next /\ (Show \/ Unavailable)
  BY <1>5, NotBuildingSees DEF Show, Unavailable, Idle
<1>6. ASSUME Next, NEW k \in Keys, NEW op \in {"queue", "cancel", "evict"}, Click(op, k) PROVE SeenOrReady'
  BY <1>6, NotBuildingSees DEF Click
<1>7. CASE Next /\ (Queue \/ Reread \/ CheckCancel \/ Cancel \/ EvictById)
  <2>1. req.step \in Clicked
    BY <1>7 DEF Queue, Reread, CheckCancel, Cancel, EvictById, Clicked
  <2>2. req \in [op : Ops, step : Clicked, at : At, key : Keys, row : Rows, rows : [Keys -> Rows]]
    BY <2>1, ClickType
  <2>3. CASE req' = Idle
    BY <1>7, <2>3, NotBuildingSees DEF Idle
  <2>4. CASE req' = Building(req.op, req.at)
    BY <1>7, <2>1, <2>4, BuildingSees DEF Clicked
  <2>5. CASE req'.step \in Clicked
    BY <1>7, <2>5, NotBuildingSees DEF Clicked
  <2>6. CASE Queue \/ CheckCancel
    BY <2>2, <2>3, <2>5, <2>6 DEF Queue, CheckCancel, Notice, Clicked
  <2> QED
    BY <1>7, <2>3, <2>4, <2>6 DEF Reread, Cancel, EvictById, Notice, Answer
<1> QED
  BY <1>1, <1>2, <1>3, <1>4, <1>5, <1>6, <1>7 DEF Next, Step, Tab, Others, tabVars, Poll, Refresh

\* statusMap and findMirror read the rows in flight before the ready ones, so
\* that a download that finishes in between is in one list or the other, if both
\* of them could be read.
THEOREM PagesMissNothing == Spec => NeverShownMissing
<1>1. Init => SeenOrReady
  BY DEF Init, SeenOrReady
<1>2. PagesInv /\ SeenOrReady /\ [Next]_vars => SeenOrReady'
  BY SeenStep
<1>3. SeenOrReady => [Show /\ ~req.lost /\ req.at \notin {"queue", "storage"} =>
                         \A k \in there : page'.at \in {k, "browse"} => page'.rows[k] # Absent]_vars
  BY DEF SeenOrReady, Shows, Show
<1> QED
  BY <1>1, <1>2, <1>3, PagesInvHolds, PTL DEF Spec, NeverShownMissing

LEMMA TypeFollows == PagesInv /\ SeenOrReady => TypeOK
<1> SUFFICES ASSUME PagesInv, SeenOrReady PROVE TypeOK
  OBVIOUS
<1>1. req.step \in {"act", "reread", "delete"} => req.key \in Keys /\ req.row \in Rows
  BY ClickType DEF Clicked
<1>2. req.step \in {"idle", "read", "answer", "act", "reread", "delete"}
  BY DEF PagesInv, TabInv, ReqType, Idle, Clicked
<1> QED
  BY <1>1, <1>2 DEF PagesInv, TabInv, AllKnown, SeenOrReady, TypeOK

\* What the tab shows, posts and waits for keeps its type, and the history is of
\* items of the table.
THEOREM TypeCorrect == Spec => []TypeOK
<1>1. Init => SeenOrReady
  BY DEF Init, SeenOrReady
<1>2. PagesInv /\ SeenOrReady /\ [Next]_vars => SeenOrReady'
  BY SeenStep
<1> QED
  BY <1>1, <1>2, TypeFollows, PagesInvHolds, PTL DEF Spec
=============================================================================
