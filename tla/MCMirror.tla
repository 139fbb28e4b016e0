------------------------------ MODULE MCMirror ------------------------------
(* Model-checking values for Mirror.                                       *)
EXTENDS Mirror, TLC

CONSTANTS k1, k2, w1, w2, r1, r2, v1, v2, p1, p2

\* Two items, each with its own library path.
OwnPaths == (k1 :> {p1}) @@ (k2 :> {p2})

\* One item; its path depends on whether the metadata fetch succeeded.
EitherPath == k1 :> {p1, p2}

Sizes == (v1 :> 2) @@ (v2 :> 1)
OneSize == v1 :> 2

\* Lengths with one between them that is neither's.
SizesApart == (v1 :> 3) @@ (v2 :> 1)

\* Slots are interchangeable, and so are the two items together with their
\* paths: OwnPaths is mapped to itself when both are swapped.
Swap == (k1 :> k2) @@ (k2 :> k1) @@ (p1 :> p2) @@ (p2 :> p1)
Handlers == Permutations(Requests)
Interchange ==
    Permutations(Workers) \cup {Swap} \cup {Swap @@ s : s \in Permutations(Workers)}
=============================================================================
