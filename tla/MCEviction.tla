----------------------------- MODULE MCEviction -----------------------------
(* Model-checking values for Eviction.                                     *)
EXTENDS Eviction

CONSTANTS sweeper, command, handler, again

\* A soft cap alone and a hard cap alone: with both, usage over the hard cap is
\* over the soft one, and the target is the soft one.
Caps == {[hard |-> 0, soft |-> 2], [hard |-> 3, soft |-> 0]}

EnvCaps == [hard |-> 2, soft |-> 1]

\* The sweeper with failures, beside an evict-now command, and beside handlers that
\* evict items and queue ready ones again.
Company == {{"fault"}, {"command"}, {"manual", "resize"}}

\* Bound: beside handlers nothing happens to the third item.
Bound ==
    "manual" \in events =>
        /\ 3 \notin held'
        /\ \A p \in Passes : \A c \in pass'[p].todo : c.id # 3

BoundedSpec ==
    /\ Init /\ [][Next /\ Bound]_vars
    /\ \A p \in Sweepers : WF_vars(SweepTick(p))
    /\ \A p \in Passes : WF_vars(PassStep(p))
=============================================================================
