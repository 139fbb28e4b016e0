------------------------------ MODULE Discovery ------------------------------
(***************************************************************************)
(* plex.Discover: the account's resources, the one server that is wanted,  *)
(* and its connections, ranked and probed one after the other within the   *)
(* time that the caller gives for all of it.                               *)
(* From: internal/source/plex/discover.go, called by service.go (12 s, up  *)
(* to the first reachable one) and health.go (25 s, all of them).          *)
(***************************************************************************)
EXTENDS Integers, Sequences, FiniteSets

CONSTANTS
    MaxResources,   \* bound: resources of the account
    MaxConns,       \* bound: connections of a server
    Budgets         \* how many silent probes use up the caller's time

\* A resource: does its name or its identifier match, is it a server, is there a
\* token for it?
Resources == [matches : BOOLEAN, server : BOOLEAN, token : BOOLEAN]

\* A connection as plex.tv advertises it, and what a probe of it meets: an
\* answer, a refusal, or silence until the probe's timeout.
Connections == [kind : {"remote", "local", "http", "relay", "httpRelay"},
                net : {"answers", "refuses", "silent"}]

UpTo(S, n) == UNION {[1 .. m -> S] : m \in 0 .. n}

VARIABLES
    resources,      \* the answer of plex.tv
    opts,           \* ProbeAll, and the budget
    step,           \* where Discover is
    server,         \* the selected resource
    conns,          \* its connections, best-ranked first
    left,           \* silent probes there is still time for
    reached,        \* Candidates: Reachable of each of conns
    chosen          \* the place in conns of what is returned

vars == <<resources, opts, step, server, conns, left, reached, chosen>>

-----------------------------------------------------------------------------
ConnRank(kind) ==
    CASE kind = "remote" -> 0
      [] kind = "local" -> 1
      [] kind = "http" -> 2
      [] kind = "relay" -> 3
      [] OTHER -> 4

\* rankConnections: a stable sort by rank.
RankConnections(advertised) ==
    LET Rank(i) == ConnRank(advertised[i].kind)
        Before(i, j) == Rank(i) < Rank(j) \/ (Rank(i) = Rank(j) /\ i < j)
        Place(j) == Cardinality({i \in DOMAIN advertised : Before(i, j)}) + 1
    IN  [n \in DOMAIN advertised |-> advertised[CHOOSE j \in DOMAIN advertised : Place(j) = n]]

\* selectServer, with isServer.
Matches == {n \in DOMAIN resources : resources[n].server /\ resources[n].matches}

\* fetchResources fails; no server, or several, match; the server has no token,
\* or advertises nothing.
Fail ==
    /\ step = "select"
    /\ step' = "failed"
    /\ UNCHANGED <<resources, opts, server, conns, left, reached, chosen>>

SelectServer ==
    /\ step = "select"
    /\ Cardinality(Matches) = 1
    /\ \E n \in Matches : resources[n].token /\ server' = resources[n]
    /\ \E advertised \in UpTo(Connections, MaxConns) \ {<<>>} :
          /\ conns' = RankConnections(advertised)
          /\ reached' = [n \in DOMAIN advertised |-> "nil"]
    /\ left' = opts.budget
    /\ step' = "probe"
    /\ UNCHANGED <<resources, opts, chosen>>

-----------------------------------------------------------------------------
\* The candidate that is probed next.
Probing == Cardinality({n \in DOMAIN conns : reached[n] # "nil"}) + 1

\* Mutation: the last connection that answers is taken.
PickLast(n, ok) == IF ok THEN n ELSE chosen

\* Mutation: the place after the one that answered.
PickNext(n, ok) == IF ok /\ chosen = 0 THEN n + 1 ELSE chosen

\* The first connection that answers is the best-ranked that does.
Pick(n, ok) == IF ok /\ chosen = 0 THEN n ELSE chosen

\* The probe's own timeout, or the caller's deadline: then it fails at once.
Probe ==
    /\ step = "probe"
    /\ Probing \in DOMAIN conns
    /\ chosen = 0 \/ opts.all
    /\ LET n == Probing
           ok == conns[n].net = "answers" /\ left > 0
       IN  /\ reached' = [reached EXCEPT ![n] = IF ok THEN "yes" ELSE "no"]
           /\ left' = IF conns[n].net = "silent" /\ left > 0 THEN left - 1 ELSE left
           /\ chosen' = Pick(n, ok)
    /\ UNCHANGED <<resources, opts, step, server, conns>>

\* Nothing reachable: the best-ranked connection all the same.
Return ==
    /\ step = "probe"
    /\ Probing \notin DOMAIN conns \/ (chosen # 0 /\ ~opts.all)
    /\ chosen' = IF chosen = 0 THEN 1 ELSE chosen
    /\ step' = "done"
    /\ UNCHANGED <<resources, opts, server, conns, left, reached>>

-----------------------------------------------------------------------------
NoServer == [matches |-> FALSE, server |-> FALSE, token |-> FALSE]

Init ==
    /\ resources \in UpTo(Resources, MaxResources)
    /\ opts \in [all : BOOLEAN, budget : Budgets]
    /\ step = "select"
    /\ server = NoServer
    /\ conns = <<>> /\ reached = <<>>
    /\ left = 0
    /\ chosen = 0

Next == Fail \/ SelectServer \/ Probe \/ Return

Spec == Init /\ [][Next]_vars

-----------------------------------------------------------------------------
(* Properties.                                                             *)

TypeOK ==
    /\ step \in {"select", "failed", "probe", "done"}
    /\ left \in 0 .. opts.budget
    /\ chosen \in 0 .. Len(conns)
    /\ reached \in [DOMAIN conns -> {"nil", "yes", "no"}]

\* How good a connection is for pulling whole files (Discover, rankConnections).
Goodness(kind) ==
    CASE kind = "remote" -> 4 [] kind = "local" -> 3 [] kind = "http" -> 2 [] OTHER -> 1

\* Discover "picks the best reachable connection": nothing better than what it
\* returns would have answered, if the silent ones ranked before it left time;
\* three of them use up the 12 s of a start, and then a dead connection may be
\* returned although a relay answers.  And what it returns, with the token, is
\* of a server of that name, if it is the only one.
PicksBest ==
    step = "done" =>
        /\ server.server /\ server.matches /\ server.token
        /\ \A n \in DOMAIN conns :
              /\ conns[n].net = "answers"
              /\ Cardinality({m \in 1 .. n - 1 : conns[m].net = "silent"}) < opts.budget
              => /\ conns[chosen].net = "answers"
                 /\ Goodness(conns[chosen].kind) >= Goodness(conns[n].kind)
=============================================================================
