-------------------------------- MODULE Bulk --------------------------------
(***************************************************************************)
(* "Queue season/show" and "Evict season/show": one call walks the source's *)
(* tree page by page, reads the items table once, and then queues or       *)
(* evicts leaf by leaf, while the engine and other requests go on          *)
(* (ItemLifecycle) and upstream may gain episodes between two pages.       *)
(* From: internal/service/bulk.go, with ListChildren of the adapters and   *)
(* the confirm dialogs of server/views.                                    *)
(***************************************************************************)
EXTENDS ItemLifecycle, Sequences

CONSTANTS
    Root,           \* the show; Keys are its episodes
    Seasons,        \* its seasons
    Trees,          \* what upstream may have: the children of the show and of the seasons
    PageSize,       \* childPageSize
    MaxId           \* bound: rows ever inserted

Containers == {Root} \cup Seasons
maxChildDepth == 3

VARIABLES
    tree,           \* upstream: the children of each container, in order
    call,           \* the request
    dialog,         \* the confirm dialog: what is to be done, and the leaves that it counts
    owed,           \* history: leaves that were there, and to be handled, ever since the call began
    changed         \* history: rows or upstream have changed since the dialog's walk began

vars == <<items, nextId, claimed, tree, call, dialog, owed, changed>>

Elements(s) == {s[i] : i \in DOMAIN s}

\* What s has of the members of S, in order.
Only(s, S) ==
    LET taken[n \in 0 .. Len(s)] ==
          IF n = 0 THEN <<>>
          ELSE IF s[n] \in S THEN Append(taken[n - 1], s[n]) ELSE taken[n - 1]
    IN  taken[Len(s)]

\* The containers of the show.
Beneath == {Root} \cup (Elements(tree[Root]) \cap Seasons)
NoRows == [k \in Keys |-> Absent]
NoCall == [op |-> "none", step |-> "idle"]
NoDialog == [op |-> "none", leaves |-> {}]

-----------------------------------------------------------------------------
(* gatherLeaves: collectLeaves over listAllChildren.                       *)

\* "Queue show" and "Evict show" ask first, for a dialog that the button of the
\* dialog or another walk ends; "Queue season" and "Evict season" do not.
Begin(op, ask) ==
    /\ call.step = "idle"
    /\ ask \/ dialog = NoDialog \/ (dialog.op = op /\ dialog.leaves # {})
    /\ call' = [op |-> op, ask |-> ask, confirmed |-> ~ask /\ dialog # NoDialog, step |-> "walk",
                todo |-> <<[of |-> Root, depth |-> 0]>>, batch |-> <<>>, offset |-> 0,
                leaves |-> <<>>, rows |-> NoRows, failed |-> {}]
    /\ dialog' = IF ask THEN NoDialog ELSE dialog
    /\ UNCHANGED <<tableVars, tree>>

\* Close, or Cancel.
Dismiss ==
    /\ dialog # NoDialog /\ call.step = "idle"
    /\ dialog' = NoDialog
    /\ UNCHANGED <<tableVars, tree, call>>

\* ListChildren with an offset and a limit: what upstream has there now.
Page(c, offset) ==
    SubSeq(tree[c], offset + 1, IF offset + PageSize < Len(tree[c]) THEN offset + PageSize ELSE Len(tree[c]))

\* Mutation: a full page is taken for the last.
LastWhenFull(page) == Len(page) <= PageSize

Last(page) == Len(page) < PageSize

\* Children with a file are leaves; shows and seasons are walked before what is
\* left to walk, but not below the depth that guards against cycles.
Descend(children, depth) ==
    LET Sub == Only(children, Containers)
    IN  IF depth + 1 >= maxChildDepth THEN <<>>
        ELSE [i \in DOMAIN Sub |-> [of |-> Sub[i], depth |-> depth + 1]]

FetchPage ==
    /\ call.step = "walk" /\ call.todo # <<>>
    /\ LET at == Head(call.todo)
           page == Page(at.of, call.offset)
           all == call.batch \o page
       IN  call' = IF Last(page)
                   THEN [call EXCEPT
                           !.leaves = @ \o Only(all, Keys),
                           !.todo = Descend(all, at.depth) \o Tail(@),
                           !.batch = <<>>, !.offset = 0]
                   ELSE [call EXCEPT !.batch = all, !.offset = @ + PageSize]
    /\ UNCHANGED <<tableVars, tree, dialog>>

\* Upstream fails or the client goes away: nothing has been done yet.
WalkFails ==
    /\ call.step = "walk"
    /\ call' = NoCall
    /\ dialog' = NoDialog
    /\ UNCHANGED <<tableVars, tree>>

\* A new episode, listed anywhere in its season.
Insert(c, k, i) ==
    /\ c \in Beneath
    /\ \A d \in Containers : k \notin Elements(tree[d])
    /\ tree' = [tree EXCEPT ![c] = SubSeq(@, 1, i) \o <<k>> \o SubSeq(@, i + 1, Len(@))]
    /\ UNCHANGED <<tableVars, call, dialog>>

-----------------------------------------------------------------------------
(* One SELECT, then the dialog, or leaf by leaf.                            *)

\* Mutation: the dialog counts an episode that failed as one that is there.
CountsNoRetries(op, row) ==
    IF op = "queue" THEN row.status \notin {"ready", "downloading", "error"} ELSE row.status = "ready"

\* PreviewContainer and PreviewEvict.  A leaf that is queued already is counted
\* here, and skipped by the call.
Counts(op, row) ==
    IF op = "queue" THEN row.status \notin {"ready", "downloading"} ELSE row.status = "ready"

Skips(op, row) ==
    IF op = "queue" THEN row.status \in {"ready", "downloading", "queued"} ELSE row.status # "ready"

\* statusesForSource, or readyRowsForSource.
Snapshot ==
    /\ call.step = "walk" /\ call.todo = <<>>
    /\ IF call.ask
       THEN /\ dialog' = [op |-> call.op,
                          leaves |-> {k \in Elements(call.leaves) : Counts(call.op, items[k])}]
            /\ call' = NoCall
       ELSE /\ call' = [call EXCEPT !.step = "act", !.rows = items]
            /\ dialog' = NoDialog
    /\ UNCHANGED <<tableVars, tree>>

Leaf == Head(call.leaves)
Handled(c) == [c EXCEPT !.leaves = Tail(@)]

Skip ==
    /\ call.step = "act" /\ call.leaves # <<>>
    /\ Skips(call.op, call.rows[Leaf])
    /\ call' = Handled(call)
    /\ UNCHANGED <<tableVars, tree, dialog>>

Acts(op) ==
    /\ call.step = "act" /\ call.leaves # <<>> /\ call.op = op
    /\ ~Skips(op, call.rows[Leaf])

\* Engine.Queue: a row that exists and is not in 'error' keeps its status, and
\* the leaf is reported as queued all the same.
QueueLeaf ==
    /\ Acts("queue")
    /\ \/ Enqueue(Leaf)
       \/ items[Leaf].status \notin {"none", "error"} /\ UNCHANGED tableVars
    /\ call' = Handled(call)
    /\ UNCHANGED <<tree, dialog>>

\* The row of the snapshot, by its id.
Victims(k) == {j \in Keys : items[j].id = call.rows[k].id}

\* Gone in the meantime (ErrItemNotFound), and skipped; or evicted, whatever its
\* status is by now.
EvictLeaf ==
    /\ Acts("evict")
    /\ IF Victims(Leaf) = {} THEN UNCHANGED tableVars ELSE \E j \in Victims(Leaf) : Evict(j)
    /\ call' = Handled(call)
    /\ UNCHANGED <<tree, dialog>>

\* No layout, a path outside the root, a statement that fails: the next leaf.
LeafFails ==
    /\ Acts("queue") \/ Acts("evict")
    /\ call' = [Handled(call) EXCEPT !.failed = @ \cup {Leaf}]
    /\ UNCHANGED <<tableVars, tree, dialog>>

Finish ==
    /\ call.step = "act" /\ call.leaves = <<>>
    /\ call' = NoCall
    /\ UNCHANGED <<tableVars, tree, dialog>>

-----------------------------------------------------------------------------
Init ==
    /\ TableInit
    /\ tree \in Trees
    /\ call = NoCall
    /\ dialog = NoDialog
    /\ owed = {}
    /\ changed = FALSE

Call ==
    \/ \E op \in {"queue", "evict"}, ask \in BOOLEAN : Begin(op, ask)
    \/ FetchPage \/ WalkFails \/ Snapshot \/ Dismiss
    \/ Skip \/ QueueLeaf \/ EvictLeaf \/ LeafFails \/ Finish

Upstream == \E c \in Seasons, k \in Keys : \E i \in 0 .. Len(tree[c]) : Insert(c, k, i)

Others == TableNext /\ UNCHANGED <<tree, call, dialog>>

\* The leaves upstream that a queue, or an evict, is about.
ToHandle(op) ==
    {k \in Keys : /\ \E c \in Beneath : k \in Elements(tree[c])
                  /\ items[k].status \in IF op = "queue" THEN {"none", "error"} ELSE {"ready"}}

\* What is left of 'owed' while a call of kind op goes on.
Owed(op) ==
    owed' = IF call.step = "idle" THEN ToHandle(op)' ELSE owed \cap ToHandle(op)'

History ==
    /\ \/ call'.step = "idle" /\ owed' = {}
       \/ \E op \in {"queue", "evict"} : call'.step # "idle" /\ call'.op = op /\ Owed(op)
    /\ changed' = IF call.step = "idle" /\ call'.step = "walk" /\ call'.ask THEN FALSE
                  ELSE changed \/ items' # items \/ tree' # tree

Next ==
    /\ Call \/ Upstream \/ Others
    /\ nextId' <= MaxId + 1
    /\ History

Spec == Init /\ [][Next]_vars

-----------------------------------------------------------------------------
(* Properties.                                                             *)

TypeOK ==
    /\ tree \in [Containers -> Seq(Seasons \cup Keys)]
    /\ call.step \in {"idle", "walk", "act"}
    /\ call.step # "idle" => Elements(call.leaves) \subseteq Keys
    /\ dialog.leaves \subseteq Keys
    /\ owed \subseteq Keys /\ changed \in BOOLEAN

\* What was upstream before the call and had to be queued (no row, or a failed
\* one) or evicted (ready) all along is handled when the call ends, or reported
\* as failed: neither the paging nor the classification leaves a leaf out, also
\* when episodes are added between two pages.
LeavesNothingOut == [][Finish => owed \subseteq call.failed]_vars

\* "Evict everything" deletes no file from under a download, however long ago
\* the rows were read: a row that was 'ready' is ready, evicted or gone.
BulkEvictSparesDownloads ==
    [][EvictLeaf => \A k \in Keys : items'[k] # items[k] => items[k].status = "ready"]_vars

\* If nothing has changed since the dialog asked, the call that it starts
\* handles no leaf that the dialog did not count, and evicts all it counted.
DialogKeepsItsWord ==
    [][Snapshot /\ ~call.ask /\ call.confirmed /\ ~changed =>
          LET handled == {k \in Elements(call.leaves) : ~Skips(call.op, items[k])}
          IN  /\ handled \subseteq dialog.leaves
              /\ call.op = "evict" => handled = dialog.leaves]_vars
=============================================================================
