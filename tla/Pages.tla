-------------------------------- MODULE Pages --------------------------------
(***************************************************************************)
(* The portal's pages over the items table: one browser tab that opens     *)
(* pages and clicks the buttons they offer, while the engine and the users *)
(* of other tabs change the table (ItemLifecycle).  A page is built from   *)
(* one or two SELECTs and is stale from then on; its buttons post the id,  *)
(* or the item, that it was built with.  Any statement may fail, and so    *)
(* may a call upstream.                                                    *)
(* From: internal/server/portal.go and the templates of server/views.      *)
(***************************************************************************)
EXTENDS ItemLifecycle, Sequences

CONSTANTS
    Visits,         \* the pages that the tab opens: some of At
    MaxId           \* bound: rows ever inserted

VARIABLES
    page,           \* what the tab shows, and the items that it has a notice for
    req,            \* the tab's request, from the click to the answer
    poll,           \* the queue page's GET /queue/rows, every 2 s
    there           \* history: items listed throughout the building of a page

vars == <<items, nextId, claimed, page, req, poll, there>>
tabVars == <<page, req, poll>>

\* An item page is named by its item; 'browse' is a library page, or the page
\* of a season with its episodes: a grid of action cells.
At == Keys \cup {"browse", "queue", "storage"}

\* No item is named as the library pages are.
ASSUME KeysAssumption == "browse" \notin Keys
ASSUME VisitsAssumption == Visits \subseteq At

Nothing == [k \in Keys |-> Absent]
Idle == [op |-> "none", step |-> "idle", at |-> "browse", rows |-> Nothing]
NoPoll == [sent |-> FALSE, rows |-> Nothing]

-----------------------------------------------------------------------------
(* What a handler reads.                                                   *)

With(statuses) ==
    [k \in Keys |-> IF items[k].status \in statuses THEN items[k] ELSE Absent]

DownloadStatus == With({"queued", "downloading", "error"})
ListMirrored == With({"ready"})
Listed == {k \in Keys : items[k].status \in {"queued", "downloading", "error", "ready"}}

\* Rows of a, and those of b for the items that a does not have.
Over(a, b) == [k \in Keys |-> IF a[k] # Absent THEN a[k] ELSE b[k]]

\* findMirror returns the row in flight if there is one; in statusMap the ready
\* rows, read later, overwrite those in flight.
Combine(at, inflight, ready) ==
    IF at \in Keys THEN Over(inflight, ready) ELSE Over(ready, inflight)

-----------------------------------------------------------------------------
(* What a page offers: detailActions, ActionCell with canQueue, QueueRows  *)
(* and QueueRowsCompact, StoragePanel.                                     *)

DetailActions(status) ==
    CASE status = "queued" -> {"cancel"}
      [] status = "downloading" -> {}
      [] status = "error" -> {"queue", "cancel"}
      [] status = "ready" -> {"evict"}
      [] OTHER -> {"queue"}

ActionCell(status) == IF status \in {"queued", "downloading", "ready"} THEN {} ELSE {"queue"}
QueueRow(status) == IF status \in {"queued", "error"} THEN {"cancel"} ELSE {}
StorageRow(status) == IF status = "ready" THEN {"evict"} ELSE {}

Offers(at, status) ==
    CASE at = "browse" -> ActionCell(status)
      [] at = "queue" -> QueueRow(status)
      [] at = "storage" -> StorageRow(status)
      [] OTHER -> DetailActions(status)

-----------------------------------------------------------------------------
(* Building a page, for a GET or as the answer to a click.                 *)

\* Mutation: the ready rows are read first.
ReadyFirst(at) ==
    CASE at = "storage" -> <<"ready">>
      [] at = "queue" -> <<"inflight">>
      [] OTHER -> <<"ready", "inflight">>

\* The SELECTs that the page at 'at' needs, in their order.
Selects(at) ==
    CASE at = "storage" -> <<"ready">>
      [] at = "queue" -> <<"inflight">>
      [] OTHER -> <<"inflight", "ready">>

Building(op, at) ==
    [op |-> op, step |-> "read", at |-> at, left |-> Selects(at), rows |-> Nothing, lost |-> FALSE]

Open(at) ==
    /\ req.step = "idle"
    /\ req' = Building("open", at)
    /\ UNCHANGED <<tableVars, page, poll>>

\* findMirror looks no further when it has found the row.  A SELECT that fails is
\* taken for an empty list; 'lost' is history.
Read ==
    /\ req.step = "read"
    /\ \E lost \in BOOLEAN :
          LET ready == Head(req.left) = "ready"
              list == IF lost THEN Nothing ELSE IF ready THEN ListMirrored ELSE DownloadStatus
              rows == IF ready THEN Combine(req.at, req.rows, list) ELSE Combine(req.at, list, req.rows)
              left == IF req.at \in Keys /\ rows[req.at] # Absent THEN <<>> ELSE Tail(req.left)
          IN  req' = [req EXCEPT !.rows = rows, !.left = left, !.lost = @ \/ lost,
                                 !.step = IF left = <<>> THEN "answer" ELSE "read"]
    /\ UNCHANGED <<tableVars, page, poll>>

\* An item that cannot be got from upstream, first of all, has neither status nor
\* buttons; nor has the answer to a click if sourceKeyFor had failed.
Unavailable ==
    /\ req.step = "read" /\ req.at \in Keys /\ req.left = Selects(req.at)
    /\ page' = [at |-> req.at, rows |-> Nothing, notices |-> {req.at}]
    /\ req' = Idle
    /\ poll' = NoPoll
    /\ UNCHANGED tableVars

\* The answer replaces the page; a poll of the page that was there is an
\* answer to an element that is no longer in the document.
Show ==
    /\ req.step = "answer"
    /\ page' = [at |-> req.at, rows |-> req.rows, notices |-> {}]
    /\ req' = Idle
    /\ poll' = NoPoll
    /\ UNCHANGED tableVars

-----------------------------------------------------------------------------
(* Clicks.  The page is not touched until the answer.                      *)

Click(op, k) ==
    /\ req.step = "idle"
    /\ page.at \in Keys => k = page.at
    /\ page.at \in {"queue", "storage"} => page.rows[k] # Absent
    /\ k \notin page.notices
    /\ op \in Offers(page.at, page.rows[k].status)
    /\ req' = [op |-> op, step |-> "act", at |-> page.at, key |-> k, row |-> page.rows[k], rows |-> Nothing]
    /\ UNCHANGED <<tableVars, page, poll>>

\* An InlineError takes the place of the swap target: the cell, the row, or the
\* whole panel, which offers nothing more until the page is opened again.
Notice ==
    /\ page' = [page EXCEPT !.notices = IF page.at = "storage" THEN Keys ELSE @ \cup {req.key}]
    /\ req' = Idle

\* The answer to a click on a detail page, or on the storage page, is that
\* panel built anew; on the others it is the one cell or row.
Answer(row) ==
    IF req.at \in {"browse", "queue"}
    THEN /\ page' = [page EXCEPT !.rows[req.key] = row]
         /\ req' = Idle
    ELSE /\ req' = Building(req.op, req.at)
         /\ UNCHANGED page

\* handleQueue: the item is looked up upstream, which may fail, then written;
\* a row that exists and is not in 'error' keeps its status.
Queue ==
    /\ req.step = "act" /\ req.op = "queue"
    /\ \/ /\ Notice
          /\ UNCHANGED tableVars
       \/ /\ \/ Enqueue(req.key)
             \/ items[req.key].status \notin {"none", "error"} /\ UNCHANGED tableVars
          /\ req' = [req EXCEPT !.step = "reread", !.row = items'[req.key]]
          /\ UNCHANGED page
    /\ UNCHANGED poll

\* QueueDownload's itemByID: an error, if somebody has removed the row since.
Reread ==
    /\ req.step = "reread"
    /\ (items[req.key].id = req.row.id /\ Answer(items[req.key])) \/ Notice
    /\ UNCHANGED <<tableVars, poll>>

\* The row that the button was rendered for, if it is still there.
Named == {k \in Keys : items[k].id = req.row.id}

\* handleCancel: Cancel wants to see 'queued' or 'error' under the id, and then
\* deletes whatever has the id.
CheckCancel ==
    /\ req.step = "act" /\ req.op = "cancel"
    /\ \/ /\ \E k \in Named : items[k].status \in {"queued", "error"}
          /\ req' = [req EXCEPT !.step = "delete"]
          /\ UNCHANGED page
       \/ Notice
    /\ UNCHANGED <<tableVars, poll>>

Cancel ==
    /\ req.step = "delete"
    /\ \/ /\ IF Named = {} THEN UNCHANGED tableVars ELSE \E k \in Named : Delete(k)
          /\ Answer(Absent)
       \/ Notice /\ UNCHANGED tableVars
    /\ UNCHANGED poll

\* handleEvict: whatever the status of the row.
EvictById ==
    /\ req.step = "act" /\ req.op = "evict"
    /\ \/ (\E k \in Named : Evict(k)) /\ Answer(Absent)
       \/ Notice /\ UNCHANGED tableVars
    /\ UNCHANGED poll

-----------------------------------------------------------------------------
(* The body of the queue table polls; the drawer's list does the same.     *)

\* Mutation: the trigger is on the rows, and goes with the last of them.
PollingWhileRows == page.at = "queue" /\ \E k \in Keys : page.rows[k] # Absent

Polling == page.at = "queue"

\* Here, too, a SELECT that fails is an empty list.
Poll ==
    /\ Polling /\ ~poll.sent
    /\ \E rows \in {DownloadStatus, Nothing} : poll' = [sent |-> TRUE, rows |-> rows]
    /\ UNCHANGED <<tableVars, page, req>>

Refresh ==
    /\ poll.sent
    /\ page' = [page EXCEPT !.rows = poll.rows, !.notices = {}]
    /\ poll' = NoPoll
    /\ UNCHANGED <<tableVars, req>>

-----------------------------------------------------------------------------
Init ==
    /\ TableInit
    /\ \E at \in Visits : page = [at |-> at, rows |-> Nothing, notices |-> {}]
    /\ req = Idle
    /\ poll = NoPoll
    /\ there = {}

Tab ==
    \/ \E at \in Visits : Open(at)
    \/ \E k \in Keys, op \in {"queue", "cancel", "evict"} : Click(op, k)
    \/ Read \/ Unavailable \/ Show
    \/ Queue \/ Reread \/ CheckCancel \/ Cancel \/ EvictById
    \/ Poll \/ Refresh

\* The engine, and the users of other tabs and of the MCP server.
Others == TableNext /\ UNCHANGED tabVars

History ==
    there' = IF req'.step = "read" /\ req.step # "read" THEN Listed'
             ELSE IF req'.step \in {"read", "answer"} THEN there \cap Listed
             ELSE {}

Step(A) == A /\ nextId' <= MaxId + 1 /\ History

Next == Step(Tab \/ Others)

\* A handler answers, and htmx polls as long as the element is in the document.
Fairness ==
    /\ WF_vars(Step(Read \/ Show))
    /\ WF_vars(Step(Queue \/ Reread \/ CheckCancel \/ Cancel \/ EvictById))
    /\ WF_vars(Step(Poll)) /\ WF_vars(Step(Refresh))

Spec == Init /\ [][Next]_vars
FairSpec == Spec /\ Fairness

-----------------------------------------------------------------------------
(* Properties.                                                             *)

TypeOK ==
    /\ page.at \in At
    /\ page.rows \in [Keys -> Rows]
    /\ page.notices \subseteq Keys
    /\ req.step \in {"idle", "read", "answer", "act", "reread", "delete"}
    /\ req.rows \in [Keys -> Rows]
    /\ req.step \in {"act", "reread", "delete"} => req.key \in Keys /\ req.row \in Rows
    /\ there \subseteq Keys

\* An item that is queued, downloading, failed or ready throughout the SELECTs
\* of a page is never shown as not mirrored: between them a download may finish
\* and move its row from the first list to the second (statusMap, findMirror).
\* Pages of which a SELECT has failed are left out: they do show it so.
NeverShownMissing ==
    [][Show /\ ~req.lost /\ req.at \notin {"queue", "storage"} =>
          \A k \in there : page'.at \in {k, "browse"} => page'.rows[k] # Absent]_vars

\* Remove and Evict post an id that may be minutes old: whatever has happened to
\* the table since, they change the row of the item that was clicked, or none.
ClicksHitTheirItem ==
    [][(Cancel \/ EvictById) => \A k \in Keys \ {req.key} : items'[k] = items[k]]_vars

\* Evict asks for no status, but no stale Evict button reaches a row that is
\* queued or downloading again: its file is never taken from under a download.
EvictSparesDownloads ==
    [][EvictById => \A k \in Keys : items'[k] # items[k] => items[k].status = "ready"]_vars

\* A statement of the queue page fails: a SELECT, or the DELETE.
Fails ==
    \/ Read /\ req'.lost
    \/ Poll /\ poll'.rows # DownloadStatus
    \/ CheckCancel /\ req' = Idle /\ \E k \in Named : items[k].status \in {"queued", "error"}
    \/ Cancel /\ Named # {} /\ UNCHANGED items

\* Once the table is at rest, and the database answers, a queue page that stays
\* open comes to show it.
QueuePageConverges ==
    (<>[][FALSE]_items) /\ (<>[][~Fails]_vars) =>
        <>[](page.at = "queue" => page.rows = DownloadStatus /\ page.notices = {})
=============================================================================
