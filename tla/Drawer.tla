------------------------------- MODULE Drawer -------------------------------
(***************************************************************************)
(* The queue drawer of every page: pmToggleQueue of portalScript, and the  *)
(* htmx.ajax call by which opening it asks for GET /queue/drawer.  The     *)
(* request is issued on document.body, and htmx has one request at a time  *)
(* per element: a second call while the first is unanswered is kept (the   *)
(* last one only) and its promise is resolved at once.                     *)
(* From: internal/server/views/layout.templ, queue.templ, htmx.min.js.     *)
(***************************************************************************)
VARIABLES
    open,           \* the drawer has class 'open'
    body,           \* what #queue-drawer-body holds: "empty", "loading" or the polling "list"
    ajax,           \* the request of document.body, and what follows its answer
    waiting,        \* a call that htmx has kept for when the request is answered
    reopened,       \* history: a call was kept since the body was last cleared for good
    failed          \* history: the last request was not answered

vars == <<open, body, ajax, waiting, reopened, failed>>

TypeOK ==
    /\ open \in BOOLEAN /\ waiting \in BOOLEAN
    /\ body \in {"empty", "loading", "list"}
    /\ ajax \in {"none", "then", "bare"}
    /\ reopened \in BOOLEAN /\ failed \in BOOLEAN

Init ==
    /\ open = FALSE /\ body = "empty" /\ ajax = "none" /\ waiting = FALSE
    /\ reopened = FALSE /\ failed = FALSE

\* htmx.ajax(...).then(clear if closed).  The 'then' of a call that is kept runs
\* at once, with the drawer open, and does nothing; the request that is sent for
\* it later is bare.
Ajax ==
    IF ajax = "none"
    THEN ajax' = "then" /\ failed' = FALSE /\ UNCHANGED <<waiting, reopened>>
    ELSE waiting' = TRUE /\ reopened' = TRUE /\ UNCHANGED <<ajax, failed>>

OpenDrawer ==
    /\ ~open
    /\ open' = TRUE
    /\ body' = "loading"
    /\ Ajax

\* The button, the overlay, or Escape, which closes what is closed as well.
CloseDrawer ==
    /\ open' = FALSE
    /\ body' = "empty"
    /\ reopened' = (reopened /\ ajax # "none")
    /\ UNCHANGED <<ajax, waiting, failed>>

\* After an answer, or an error, the call that was kept is sent.
SendNext ==
    /\ ajax' = IF waiting THEN "bare" ELSE "none"
    /\ waiting' = FALSE

\* Mutation: an answer that finds the drawer closed is left there.
AnswerAndLeave ==
    /\ ajax # "none"
    /\ body' = "list"
    /\ SendNext
    /\ UNCHANGED <<open, reopened, failed>>

\* Mutation: the drawer is not looked at.
AnswerAndClear ==
    /\ ajax # "none"
    /\ body' = IF ajax = "then" THEN "empty" ELSE "list"
    /\ SendNext
    /\ UNCHANGED <<open, reopened, failed>>

\* The list is swapped in, and polls from then on; then the drawer is looked at.
Answer ==
    /\ ajax # "none"
    /\ body' = IF ajax = "then" /\ ~open THEN "empty" ELSE "list"
    /\ SendNext
    /\ UNCHANGED <<open, reopened, failed>>

\* The server cannot be reached: nothing is swapped, 'then' does not run.
Fail ==
    /\ ajax # "none"
    /\ failed' = TRUE
    /\ SendNext
    /\ UNCHANGED <<open, body, reopened>>

Next == OpenDrawer \/ CloseDrawer \/ Answer \/ Fail

Spec == Init /\ [][Next]_vars

\* A request ends.
FairSpec == Spec /\ WF_vars(Answer \/ Fail)

-----------------------------------------------------------------------------
(* Properties.                                                             *)

\* Closing the drawer stops its poll, also when the answer it was waiting for
\* comes after the closing (layout.templ: removing the polling node is what
\* stops the poll).  Not so if it was reopened before that answer: the request
\* that htmx kept is sent without a 'then', and its list stays in the closed
\* drawer until the next click or Escape.
ClosedDrawerIsQuiet == ~open /\ ajax = "none" /\ ~reopened => body = "empty"

\* A drawer that stays open is filled, however often it was toggled before,
\* unless its request failed.
OpenDrawerFills == []<>(~open \/ body = "list" \/ failed)
=============================================================================
