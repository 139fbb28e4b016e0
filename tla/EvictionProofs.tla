---------------------------- MODULE EvictionProofs ----------------------------
(***************************************************************************)
(* Files go with their rows, and the oldest go first, for every number of  *)
(* items, sizes, sweepers, commands and handlers.                          *)
(***************************************************************************)
EXTENDS Eviction, FiniteSetTheorems, WellFoundedInduction, TLAPS

(* A pass has a first candidate as long as it has any.                     *)

LEMMA LeastNat == ASSUME NEW T, T \subseteq Nat, T # {}
                  PROVE  \E x \in T : \A y \in T : x <= y
<1> DEFINE R == {ss \in Nat \X Nat : ss[1] < ss[2]}
<1>1. IsWellFoundedOn(R, Nat)
  BY NatLessThanWellFounded DEF OpToRel
<1>2. \A x, y \in Nat : <<y, x>> \in R <=> y < x
  OBVIOUS
<1> HIDE DEF R
<1>3. PICK x \in T : \A y \in T : ~ (<<y, x>> \in R)
  BY <1>1, WFMin, Zenon
<1>4. \A y \in T : x <= y
  <2> SUFFICES ASSUME NEW y \in T PROVE x <= y
    OBVIOUS
  <2>1. x \in Nat /\ y \in Nat
    OBVIOUS
  <2>2. ~ (y < x)
    BY <1>2, <1>3, <2>1
  <2> QED
    BY <2>1, <2>2
<1> QED
  BY <1>4

LEMMA FirstIsFirst == ASSUME NEW todo, todo \subseteq Candidates, todo # {}
                      PROVE  First(todo) \in todo /\ \A d \in todo : Precedes(First(todo), d)
<1> DEFINE Dones == {c.done : c \in todo}
<1>1. Dones \subseteq Nat /\ Dones # {}
  BY DEF Candidates
<1>2. PICK m \in Dones : \A y \in Dones : m <= y
  BY <1>1, LeastNat
<1> DEFINE Oldest == {c \in todo : c.done = m}
           OldIds == {c.id : c \in Oldest}
<1>3. OldIds \subseteq Nat /\ OldIds # {}
  BY <1>2, IdAssumption DEF Candidates
<1> HIDE DEF OldIds
<1>4. PICK i \in OldIds : \A y \in OldIds : i <= y
  BY <1>3, LeastNat
<1> USE DEF OldIds
<1>5. PICK c \in Oldest : c.id = i
  BY <1>4
<1>6. \A d \in todo : Precedes(c, d)
  <2> SUFFICES ASSUME NEW d \in todo PROVE Precedes(c, d)
    OBVIOUS
  <2>1. d.done \in Nat /\ m \in Nat /\ m <= d.done /\ c.done = m /\ c.id = i
    BY <1>1, <1>2, <1>5
  <2>2. d.done = m => d.id \in OldIds
    OBVIOUS
  <2> QED
    BY <2>1, <2>2, <1>4 DEF Precedes
<1> QED
  BY <1>5, <1>6 DEF First

-----------------------------------------------------------------------------
(* What UsedBytes is: the fold of FiniteSetsExt, characterised.             *)
(* The induction theorems take operators; a set of subsets does as well.   *)

LEMMA SubsetInduction ==
    ASSUME NEW S, IsFiniteSet(S), NEW P,
           \A s \in SUBSET S : (\A x \in s : s \ {x} \in P) => s \in P
    PROVE  SUBSET S \subseteq P
<1> SUFFICES ASSUME NEW u \in SUBSET S, u \notin P PROVE FALSE
  OBVIOUS
<1> DEFINE Counts == {Cardinality(s) : s \in (SUBSET S) \ P}
<1>1. \A s \in SUBSET S : IsFiniteSet(s) /\ Cardinality(s) \in Nat
  BY FS_Subset, FS_CardinalityType
<1>2. Counts \subseteq Nat /\ Counts # {}
  BY <1>1
<1>3. PICK n \in Counts : \A m \in Counts : n <= m
  BY <1>2, LeastNat
<1>4. PICK s \in (SUBSET S) \ P : Cardinality(s) = n
  BY <1>3
<1>5. ASSUME NEW x \in s PROVE s \ {x} \in P
  <2>1. Cardinality(s \ {x}) = n - 1 /\ s \ {x} \in SUBSET S /\ n \in Nat
    BY <1>1, <1>4, FS_RemoveElement
  <2>2. s \ {x} \notin P => n <= n - 1
    BY <1>3, <2>1
  <2> QED
    BY <2>1, <2>2
<1> QED
  BY <1>4, <1>5

Any(s) == CHOOSE x \in s : TRUE
Adding(r, g, s) == IF s = {} THEN 0 ELSE r[Any(s)].size + g[s \ {Any(s)}]
Sums(r, S) == CHOOSE g : g = [s \in SUBSET S |-> Adding(r, g, s)]
Total(r, S) == Sums(r, S)[S]

LEMMA UsedIsTotal == UsedBytes = Total(rows, Ready)
  BY DEF UsedBytes, MapThenSumSet, MapThenFoldSet, Total, Sums, Adding, Any

\* The recursion has a solution for the subsets of S.
Summed(r, S) == Sums(r, S) = [s \in SUBSET S |-> Adding(r, Sums(r, S), s)]

\* It is the same for each of them, whatever the set it is a subset of.
LEMMA SumsAgree ==
    ASSUME NEW r, NEW S, NEW U \in SUBSET S, IsFiniteSet(U), Summed(r, S), Summed(r, U)
    PROVE  \A s \in SUBSET U : Sums(r, S)[s] = Sums(r, U)[s]
<1> DEFINE P == {s \in SUBSET U : Sums(r, S)[s] = Sums(r, U)[s]}
<1>1. ASSUME NEW s \in SUBSET U, \A x \in s : s \ {x} \in P PROVE s \in P
  <2>1. s \in SUBSET S
    OBVIOUS
  <2>2. Sums(r, S)[s] = Adding(r, Sums(r, S), s) /\ Sums(r, U)[s] = Adding(r, Sums(r, U), s)
    BY <2>1 DEF Summed
  <2>3. s # {} => Any(s) \in s
    BY DEF Any
  <2> QED
    BY <1>1, <2>2, <2>3 DEF Adding
<1> HIDE DEF P
<1>2. SUBSET U \subseteq P
  BY <1>1, SubsetInduction
<1> QED
  BY <1>2 DEF P

LEMMA SumsExist == ASSUME NEW r, NEW S, IsFiniteSet(S) PROVE \A T \in SUBSET S : Summed(r, T)
<1> DEFINE P == {T \in SUBSET S : \A U \in SUBSET T : Summed(r, U)}
<1>1. ASSUME NEW T \in SUBSET S, \A x \in T : T \ {x} \in P PROVE T \in P
  <2>1. ASSUME NEW U \in SUBSET T, U # T PROVE Summed(r, U)
    <3>1. PICK x \in T : x \notin U
      BY <2>1
    <3>2. U \in SUBSET (T \ {x})
      BY <3>1
    <3> QED
      BY <1>1, <3>1, <3>2
  <2> DEFINE g == [s \in SUBSET T |-> IF s = T THEN Adding(r, [u \in SUBSET T |-> Total(r, u)], T)
                                               ELSE Total(r, s)]
  <2>2. ASSUME NEW s \in SUBSET T PROVE g[s] = Adding(r, g, s)
    <3>1. CASE s = {} /\ s # T
      BY <2>1, <3>1 DEF Total, Summed, Adding
    <3>2. CASE s = {} /\ s = T
      BY <3>2 DEF Adding
    <3>3. CASE s # {}
      <4>1. Any(s) \in s /\ s \ {Any(s)} \in SUBSET T /\ s \ {Any(s)} # T /\ s \ {Any(s)} # s
        BY <3>3 DEF Any
      <4>2. g[s \ {Any(s)}] = Total(r, s \ {Any(s)})
        BY <4>1
      <4>3. CASE s = T
        BY <3>3, <4>1, <4>2, <4>3 DEF Adding
      <4>4. CASE s # T
        <5>1. Summed(r, s) /\ Summed(r, s \ {Any(s)})
          BY <2>1, <4>1, <4>4
        <5>2. Total(r, s) = r[Any(s)].size + Sums(r, s)[s \ {Any(s)}]
          BY <3>3, <5>1 DEF Summed, Total, Adding
        <5>3. Sums(r, s)[s \ {Any(s)}] = Total(r, s \ {Any(s)})
          BY <5>1, SumsAgree, FS_Subset DEF Total
        <5>4. g[s] = Total(r, s)
          BY <4>4
        <5> HIDE DEF g
        <5> QED
          BY <3>3, <4>2, <5>2, <5>3, <5>4 DEF Adding
      <4> QED
        BY <4>3, <4>4
    <3> QED
      BY <3>1, <3>2, <3>3
  <2>3. g = [s \in SUBSET T |-> Adding(r, g, s)]
    BY <2>2
  <2> HIDE DEF g
  <2>4. Summed(r, T)
    BY <2>3 DEF Summed, Sums
  <2> QED
    BY <2>1, <2>4
<1> HIDE DEF P
<1>2. SUBSET S \subseteq P
  BY <1>1, SubsetInduction
<1> QED
  BY <1>2 DEF P

\* The recursion of the sum.
LEMMA TotalIs ==
    ASSUME NEW r, NEW S, IsFiniteSet(S)
    PROVE  Total(r, S) = IF S = {} THEN 0 ELSE r[Any(S)].size + Total(r, S \ {Any(S)})
<1>1. Summed(r, S) /\ Summed(r, S \ {Any(S)}) /\ IsFiniteSet(S \ {Any(S)})
  BY SumsExist, FS_Subset
<1>2. Total(r, S) = Adding(r, Sums(r, S), S)
  BY <1>1 DEF Total, Summed
<1>3. Sums(r, S)[S \ {Any(S)}] = Total(r, S \ {Any(S)})
  BY <1>1, SumsAgree DEF Total
<1> QED
  BY <1>2, <1>3 DEF Adding

LEMMA TotalNat == ASSUME NEW r, NEW S, IsFiniteSet(S), \A i \in S : r[i].size \in Nat
                  PROVE  \A s \in SUBSET S : Total(r, s) \in Nat
<1> DEFINE P == {s \in SUBSET S : Total(r, s) \in Nat}
<1>1. ASSUME NEW s \in SUBSET S, \A x \in s : s \ {x} \in P PROVE s \in P
  <2>1. Total(r, s) = IF s = {} THEN 0 ELSE r[Any(s)].size + Total(r, s \ {Any(s)})
    BY TotalIs, FS_Subset
  <2>2. s # {} => Any(s) \in s
    BY DEF Any
  <2> QED
    BY <1>1, <2>1, <2>2
<1> HIDE DEF P
<1>2. SUBSET S \subseteq P
  BY <1>1, SubsetInduction
<1> QED
  BY <1>2 DEF P

\* The sum is of any one row and the others.
LEMMA TotalSplits ==
    ASSUME NEW r, NEW S, IsFiniteSet(S), \A i \in S : r[i].size \in Nat, NEW x \in S
    PROVE  Total(r, S) = r[x].size + Total(r, S \ {x})
<1> DEFINE P == {s \in SUBSET S : \A y \in s : Total(r, s) = r[y].size + Total(r, s \ {y})}
<1>1. ASSUME NEW s \in SUBSET S, \A y \in s : s \ {y} \in P PROVE s \in P
  <2> SUFFICES ASSUME NEW y \in s PROVE Total(r, s) = r[y].size + Total(r, s \ {y})
    OBVIOUS
  <2> DEFINE z == Any(s)
  <2>1. z \in s
    BY DEF Any
  <2>2. Total(r, s) = r[z].size + Total(r, s \ {z})
    BY TotalIs, FS_Subset
  <2> HIDE DEF z
  <2>3. CASE y = z
    BY <2>2, <2>3
  <2>4. CASE y # z
    <3> DEFINE rest == Total(r, (s \ {z}) \ {y})
    <3>1. (s \ {z}) \ {y} = (s \ {y}) \ {z} /\ (s \ {z}) \ {y} \in SUBSET S
      OBVIOUS
    <3>2. Total(r, s \ {z}) = r[y].size + rest /\ Total(r, s \ {y}) = r[z].size + rest
      BY <1>1, <2>1, <2>4, <3>1
    <3>3. rest \in Nat /\ r[y].size \in Nat /\ r[z].size \in Nat
      BY <2>1, <3>1, TotalNat
    <3> HIDE DEF rest
    <3> QED
      BY <2>2, <3>2, <3>3
  <2> QED
    BY <2>3, <2>4
<1> HIDE DEF P
<1>2. SUBSET S \subseteq P
  BY <1>1, SubsetInduction
<1> QED
  BY <1>2 DEF P

\* Nothing but the sizes of the rows in question matters to it.
LEMMA TotalSame ==
    ASSUME NEW r, NEW q, NEW S, IsFiniteSet(S), \A i \in S : r[i].size = q[i].size
    PROVE  Total(r, S) = Total(q, S)
<1> DEFINE P == {s \in SUBSET S : Total(r, s) = Total(q, s)}
<1>1. ASSUME NEW s \in SUBSET S, \A y \in s : s \ {y} \in P PROVE s \in P
  <2>1. /\ Total(r, s) = IF s = {} THEN 0 ELSE r[Any(s)].size + Total(r, s \ {Any(s)})
        /\ Total(q, s) = IF s = {} THEN 0 ELSE q[Any(s)].size + Total(q, s \ {Any(s)})
    BY TotalIs, FS_Subset
  <2>2. s # {} => Any(s) \in s
    BY DEF Any
  <2> QED
    BY <1>1, <2>1, <2>2
<1> HIDE DEF P
<1>2. SUBSET S \subseteq P
  BY <1>1, SubsetInduction
<1> QED
  BY <1>2 DEF P

-----------------------------------------------------------------------------
(* The invariant.                                                          *)

RowsInv ==
    /\ rows \in [Ids -> RowsOf]
    /\ file \in [Ids -> BOOLEAN]
    /\ clock \in Nat /\ held \subseteq Ids /\ blind \subseteq Ids
    /\ \A i \in Ids : rows[i].done <= clock
    /\ \A i \in held : rows[i].status = "queued" \/ (rows[i].status = "evicted" /\ i \in blind)

Record(p) == [pc |-> pass[p].pc, dry |-> pass[p].dry, running |-> pass[p].running,
              target |-> pass[p].target, todo |-> pass[p].todo]

\* The row of a candidate that has a path has been 'ready', keeps its age as long
\* as it is, and is none that the engine may still bring back.
Lasts(c) ==
    /\ c.id \notin held
    /\ rows[c.id].status \in {"ready", "evicted"}
    /\ rows[c.id].status = "ready" => rows[c.id].done = c.done

CandidatesLast(p) == \A c \in pass[p].todo : c.done <= clock /\ (c.path => Lasts(c))

\* What a pass may evict is among its candidates, or as young as any of them.
NothingOlder(p) ==
    pass[p].pc \in {"loop", "flip"} /\ ~pass[p].dry /\ p \notin Handlers =>
        \A j \in Ready \ Outside :
            \/ \E c \in pass[p].todo : c.id = j
            \/ \A c \in pass[p].todo : c.done <= rows[j].done

\* A pass at its UPDATE: its first candidate, if it has a path, may be removed,
\* and has been.
AtFlip(p) ==
    pass[p].pc = "flip" =>
        /\ pass[p].todo # {}
        /\ ~pass[p].dry
        /\ First(pass[p].todo).path =>
              /\ First(pass[p].todo).id \notin Outside
              /\ "fault" \notin events => ~file[First(pass[p].todo).id]

PassInv(p) ==
    /\ pass[p] = Record(p)
    /\ pass[p].pc \in {"idle", "measure", "select", "loop", "flip"}
    /\ pass[p].dry \in BOOLEAN
    /\ pass[p].todo \subseteq Candidates
    /\ p \in Handlers /\ "manual" \notin events => pass[p].pc = "idle"
    /\ p \notin Handlers => \A c \in pass[p].todo : c.path
    /\ CandidatesLast(p) /\ NothingOlder(p) /\ AtFlip(p)

EvictionInv ==
    /\ RowsInv
    /\ pass = [p \in Passes |-> pass[p]]
    /\ \A p \in Passes : PassInv(p)
    /\ FileGoesWithRow

LEMMA FirstCandidate == ASSUME EvictionInv, NEW p \in Passes, pass[p].todo # {}
                        PROVE  /\ First(pass[p].todo) \in pass[p].todo
                               /\ First(pass[p].todo).id \in Ids
                               /\ \A d \in pass[p].todo : Precedes(First(pass[p].todo), d)
<1>1. pass[p].todo \subseteq Candidates
  BY DEF EvictionInv, PassInv
<1> QED
  BY <1>1, FirstIsFirst DEF Candidates

-----------------------------------------------------------------------------
(* Steps of a pass that touch neither rows nor files.                      *)

\* The others have nothing to do with it.
LEMMA LocalStep ==
    ASSUME EvictionInv, NEW p \in Passes, NEW r,
           UNCHANGED <<rows, file, held, clock, policy, events, blind>>,
           pass' = [pass EXCEPT ![p] = r],
           PassInv(p)',
           pass[p].pc = "flip" => (r.pc = "flip" /\ r.todo = pass[p].todo) \/ "fault" \in events
    PROVE  EvictionInv'
<1>1. RowsInv'
  BY DEF EvictionInv, RowsInv
<1>2. pass' = [q \in Passes |-> pass'[q]] /\ \A q \in Passes : q # p => pass'[q] = pass[q]
      /\ pass'[p] = r
  BY DEF EvictionInv
<1>3. \A q \in Passes : PassInv(q)'
  <2> SUFFICES ASSUME NEW q \in Passes, q # p PROVE PassInv(q)'
    OBVIOUS
  <2> QED
    BY <1>2 DEF EvictionInv, PassInv, Record, CandidatesLast, Lasts, NothingOlder, AtFlip, Ready
<1>4. FileGoesWithRow'
  BY <1>2 DEF EvictionInv, FileGoesWithRow
<1> QED
  BY <1>1, <1>2, <1>3, <1>4 DEF EvictionInv

\* Beginning, giving up and ending.
LEMMA EndsKeep == ASSUME EvictionInv, NEW p \in Passes,
                         SweepTick(p) \/ EvictCommand(p) \/ Measure(p) \/ Finish(p) \/ Abort(p)
                  PROVE  EvictionInv'
<1>1. /\ pass[p] = Record(p) /\ pass = [q \in Passes |-> pass[q]]
      /\ p \in Handlers /\ "manual" \notin events => pass[p].pc = "idle"
      /\ UNCHANGED <<rows, file, held, clock, policy, events, blind>>
      /\ pass[p].dry \in BOOLEAN
  BY DEF EvictionInv, PassInv, SweepTick, EvictCommand, Measure, Finish, Abort
<1>2. pass[p].pc = "flip" => "fault" \in events
  BY DEF SweepTick, EvictCommand, Measure, Finish, Abort, NoPass
<1>3. PICK r : pass' = [pass EXCEPT ![p] = r]
  BY <1>1 DEF SweepTick, EvictCommand, Measure, Finish, Abort
<1>4. pass'[p] = r
  BY <1>1, <1>3
<1>5. /\ r = [pc |-> r.pc, dry |-> r.dry, running |-> r.running, target |-> r.target, todo |-> r.todo]
      /\ r.pc \in {"idle", "measure", "select"} /\ r.dry \in BOOLEAN
      /\ r.todo = {} \/ r.todo = pass[p].todo
      /\ p \in Handlers /\ "manual" \notin events => r.pc = "idle"
  <2>1. CASE SweepTick(p)
    <3>1. r = [NoPass EXCEPT !.pc = "measure"] /\ p \notin Handlers
      BY <1>1, <1>3, <1>4, <2>1, PassAssumption DEF SweepTick
    <3> QED
      BY <3>1 DEF NoPass
  <2>2. CASE EvictCommand(p)
    <3>1. \E dry \in BOOLEAN : r = [[NoPass EXCEPT !.pc = "measure"] EXCEPT !.dry = dry]
      BY <1>1, <1>3, <1>4, <2>2 DEF EvictCommand
    <3>2. p \notin Handlers
      BY <2>2, PassAssumption DEF EvictCommand
    <3> QED
      BY <3>1, <3>2 DEF NoPass
  <2>3. CASE Measure(p)
    <3>1. r = [pass[p] EXCEPT !.pc = "select", !.running = UsedBytes, !.target = Target(PolicyOf(p))] \/ r = NoPass
      BY <1>1, <1>3, <1>4, <2>3 DEF Measure
    <3>2. pass[p].pc = "measure"
      BY <2>3 DEF Measure
    <3>3. CASE r = NoPass
      BY <3>3 DEF NoPass
    <3>4. CASE r = [pass[p] EXCEPT !.pc = "select", !.running = UsedBytes, !.target = Target(PolicyOf(p))]
      <4>1. r = [pc |-> "select", dry |-> pass[p].dry, running |-> UsedBytes, target |-> Target(PolicyOf(p)),
                 todo |-> pass[p].todo]
        BY <1>1, <3>4 DEF Record
      <4> QED
        BY <1>1, <3>2, <4>1
    <3> QED
      BY <3>1, <3>3, <3>4
  <2>4. CASE Finish(p) \/ Abort(p)
    <3>1. r = NoPass
      BY <1>1, <1>3, <1>4, <2>4 DEF Finish, Abort
    <3> QED
      BY <3>1 DEF NoPass
  <2> QED
    BY <2>1, <2>2, <2>3, <2>4
<1>6. PassInv(p)'
  BY <1>1, <1>4, <1>5 DEF EvictionInv, PassInv, Record, CandidatesLast, Lasts, NothingOlder, AtFlip
<1> QED
  BY <1>1, <1>2, <1>3, <1>6, LocalStep

\* The candidates are the 'ready' rows of the moment.
LEMMA SelectKeeps == ASSUME EvictionInv, NEW p \in Passes, Select(p)
                     PROVE  EvictionInv'
<1>1. /\ pass[p] = Record(p) /\ pass = [q \in Passes |-> pass[q]]
      /\ p \in Handlers /\ "manual" \notin events => pass[p].pc = "idle"
      /\ UNCHANGED <<rows, file, held, clock, policy, events, blind>>
      /\ pass[p].dry \in BOOLEAN /\ pass[p].pc = "select"
      /\ pass' = [pass EXCEPT ![p] = [pass[p] EXCEPT !.pc = "loop", !.todo = {Candidate(i) : i \in Ready}]]
  BY DEF EvictionInv, PassInv, Select
<1>2. /\ pass'[p] = [pass[p] EXCEPT !.pc = "loop", !.todo = {Candidate(i) : i \in Ready}]
      /\ pass'[p].pc = "loop" /\ pass'[p].dry = pass[p].dry
      /\ pass'[p].todo = {Candidate(i) : i \in Ready}
  BY <1>1 DEF Record
<1>3. \A i \in Ready : /\ Candidate(i) \in Candidates /\ Candidate(i).id = i /\ i \in Ids
                        /\ Candidate(i).done = rows[i].done /\ rows[i].done <= clock
                        /\ rows[i].status = "ready" /\ i \notin held /\ Candidate(i).path
  BY DEF EvictionInv, RowsInv, RowsOf, Ready, Candidate, Candidates
<1>4. \A c \in pass'[p].todo : \E i \in Ready : c = Candidate(i)
  BY <1>2
<1>5. /\ pass'[p].todo \subseteq Candidates /\ CandidatesLast(p)'
      /\ \A c \in pass'[p].todo : c.path
  <2> SUFFICES ASSUME NEW c \in pass'[p].todo
               PROVE  c \in Candidates /\ c.done <= clock /\ c.path /\ Lasts(c)
    BY <1>1 DEF CandidatesLast, Lasts
  <2>1. PICK i \in Ready : c = Candidate(i)
    BY <1>4
  <2> QED
    BY <1>3, <2>1 DEF Lasts
<1>6. NothingOlder(p)'
  <2>1. Ready' = Ready /\ \A j \in Ready : Candidate(j) \in pass'[p].todo
    BY <1>1, <1>2 DEF Ready
  <2> QED
    BY <1>3, <2>1 DEF NothingOlder
<1>7. PassInv(p)'
  BY <1>1, <1>2, <1>5, <1>6 DEF PassInv, Record, AtFlip
<1> QED
  BY <1>1, <1>7, LocalStep

\* A dry pass, or one that may not remove its candidate, goes on to the next.
LEMMA SkipKeeps == ASSUME EvictionInv, NEW p \in Passes, Refuse(p) \/ Count(p)
                   PROVE  EvictionInv'
<1> DEFINE c == First(pass[p].todo)
<1>1. /\ pass[p] = Record(p) /\ pass = [q \in Passes |-> pass[q]]
      /\ p \in Handlers /\ "manual" \notin events => pass[p].pc = "idle"
      /\ UNCHANGED <<rows, file, held, clock, policy, events, blind>>
      /\ pass[p].dry \in BOOLEAN /\ pass[p].pc = "loop" /\ pass[p].todo # {}
      /\ pass[p].todo \subseteq Candidates
      /\ CandidatesLast(p) /\ NothingOlder(p)
      /\ p \notin Handlers => \A d \in pass[p].todo : d.path
      /\ c.id \in Outside \/ pass[p].dry
  BY DEF EvictionInv, PassInv, Refuse, Count, More
<1>2. PICK r : pass' = [pass EXCEPT ![p] = r] /\ r = pass'[p]
  BY <1>1 DEF Refuse, Count
<1>3. /\ pass'[p] = [pc |-> pass'[p].pc, dry |-> pass'[p].dry, running |-> pass'[p].running,
                     target |-> pass'[p].target, todo |-> pass'[p].todo]
      /\ pass'[p].pc = "loop" /\ pass'[p].dry = pass[p].dry /\ pass'[p].todo = pass[p].todo \ {c}
  <2>1. \E n : pass'[p] = [pc |-> "loop", dry |-> pass[p].dry, running |-> n, target |-> pass[p].target,
                           todo |-> pass[p].todo \ {c}]
    <3>1. CASE Refuse(p)
      <4>1. pass'[p] = [pass[p] EXCEPT !.todo = @ \ {c}]
        BY <1>1, <3>1 DEF Refuse
      <4> QED
        BY <1>1, <4>1 DEF Record
    <3>2. CASE Count(p)
      <4>1. \E n : pass'[p] = [pass[p] EXCEPT !.running = n, !.todo = @ \ {c}]
        BY <1>1, <3>2 DEF Count
      <4> QED
        BY <1>1, <4>1 DEF Record
    <3> QED
      BY <3>1, <3>2
  <2> QED
    BY <2>1
<1>4. CandidatesLast(p)'
  BY <1>1, <1>3 DEF CandidatesLast, Lasts
<1>5. NothingOlder(p)'
  BY <1>1, <1>3 DEF NothingOlder, Ready
<1>6. PassInv(p)'
  BY <1>1, <1>3, <1>4, <1>5 DEF PassInv, Record, AtFlip
<1> QED
  BY <1>1, <1>2, <1>6, LocalStep

-----------------------------------------------------------------------------
(* Steps that touch a file or a row.                                       *)

LEMMA RemoveKeeps == ASSUME EvictionInv, NEW p \in Passes, Remove(p)
                     PROVE  EvictionInv'
<1> DEFINE c == First(pass[p].todo)
<1>1. /\ pass[p] = Record(p) /\ pass = [q \in Passes |-> pass[q]]
      /\ p \in Handlers /\ "manual" \notin events => pass[p].pc = "idle"
      /\ UNCHANGED <<rows, held, clock, policy, events, blind>>
      /\ ~pass[p].dry /\ pass[p].pc = "loop" /\ pass[p].todo # {}
      /\ pass[p].todo \subseteq Candidates
      /\ CandidatesLast(p) /\ NothingOlder(p)
      /\ c.id \notin Outside /\ c.id \in Ids
      /\ pass' = [pass EXCEPT ![p].pc = "flip"]
      /\ file \in [Ids -> BOOLEAN]
  BY FirstCandidate DEF EvictionInv, PassInv, RowsInv, Remove, More
<1>2. /\ pass'[p] = [pc |-> "flip", dry |-> pass[p].dry, running |-> pass[p].running,
                     target |-> pass[p].target, todo |-> pass[p].todo]
      /\ \A q \in Passes : q # p => pass'[q] = pass[q]
      /\ pass' = [q \in Passes |-> pass'[q]]
  BY <1>1 DEF Record
<1>3. /\ file' \in [Ids -> BOOLEAN]
      /\ \A i \in Ids : file'[i] => file[i]
      /\ \A i \in Ids : i # c.id => file'[i] = file[i]
      /\ "fault" \notin events => ~file'[c.id]
  BY <1>1 DEF Remove
<1>4. RowsInv'
  BY <1>1, <1>3 DEF EvictionInv, RowsInv
<1>5. PassInv(p)'
  BY <1>1, <1>2, <1>3 DEF EvictionInv, PassInv, Record, CandidatesLast, Lasts, NothingOlder, AtFlip, Ready
<1>6. ASSUME NEW q \in Passes, q # p PROVE PassInv(q)'
  <2>1. pass'[q] = pass[q] /\ PassInv(q) /\ (pass[q].todo # {} => First(pass[q].todo).id \in Ids)
    BY <1>2, <1>6, FirstCandidate DEF EvictionInv
  <2>2. AtFlip(q)'
    BY <1>1, <1>3, <2>1 DEF PassInv, AtFlip
  <2> QED
    BY <1>1, <2>1, <2>2 DEF PassInv, Record, CandidatesLast, Lasts, NothingOlder, Ready
<1>7. FileGoesWithRow'
  <2> SUFFICES ASSUME "fault" \notin events, NEW i \in Ids
               PROVE  /\ rows[i].status = "evicted" /\ i \notin blind => ~file'[i]
                      /\ rows[i].status = "ready" /\ ~file'[i] =>
                            \E q \in Passes : pass'[q].pc = "flip" /\ First(pass'[q].todo).id = i
    BY <1>1 DEF FileGoesWithRow
  <2>1. /\ rows[i].status = "evicted" /\ i \notin blind => ~file[i]
        /\ rows[i].status = "ready" /\ ~file[i] =>
              \E q \in Passes : pass[q].pc = "flip" /\ First(pass[q].todo).id = i
    BY DEF EvictionInv, FileGoesWithRow
  <2>2. CASE i = c.id
    BY <1>2, <1>3, <2>1, <2>2
  <2>3. CASE i # c.id
    BY <1>1, <1>2, <1>3, <2>1, <2>3
  <2> QED
    BY <2>2, <2>3
<1> QED
  BY <1>2, <1>4, <1>5, <1>6, <1>7 DEF EvictionInv

LEMMA FlipKeeps == ASSUME EvictionInv, NEW p \in Passes, Flip(p)
                   PROVE  EvictionInv'
<1> DEFINE c == First(pass[p].todo)
<1>1. /\ pass[p] = Record(p) /\ pass = [q \in Passes |-> pass[q]]
      /\ p \in Handlers /\ "manual" \notin events => pass[p].pc = "idle"
      /\ UNCHANGED <<file, held, clock, policy, events>>
      /\ ~pass[p].dry /\ pass[p].dry \in BOOLEAN /\ pass[p].pc = "flip" /\ pass[p].todo # {}
      /\ pass[p].todo \subseteq Candidates
      /\ CandidatesLast(p) /\ NothingOlder(p) /\ AtFlip(p)
      /\ c.id \in Ids
      /\ rows' = [rows EXCEPT ![c.id] = Evicted]
      /\ pass' = [pass EXCEPT ![p].pc = "loop", ![p].todo = @ \ {c}, ![p].running = @ - c.size]
      /\ blind' = Blinded(c)
      /\ c \in pass[p].todo /\ (p \notin Handlers => \A d \in pass[p].todo : d.path)
      /\ rows \in [Ids -> RowsOf]
  BY FirstCandidate DEF EvictionInv, PassInv, AtFlip, RowsInv, Flip
<1>2. /\ pass'[p] = [pc |-> "loop", dry |-> pass[p].dry, running |-> pass[p].running - c.size,
                     target |-> pass[p].target, todo |-> pass[p].todo \ {c}]
      /\ \A q \in Passes : q # p => pass'[q] = pass[q]
      /\ pass' = [q \in Passes |-> pass'[q]]
  BY <1>1 DEF Record
<1>3. /\ rows'[c.id] = Evicted /\ \A i \in Ids : i # c.id => rows'[i] = rows[i]
      /\ rows' \in [Ids -> RowsOf]
      /\ Ready' = Ready \ {c.id}
  <2>1. Evicted \in RowsOf
    BY DEF Evicted, RowsOf
  <2>2. rows'[c.id] = Evicted /\ \A i \in Ids : i # c.id => rows'[i] = rows[i]
    BY <1>1
  <2> QED
    BY <1>1, <2>1, <2>2 DEF Ready, Evicted
<1>4. RowsInv'
  <2>1. c.path => c.id \notin held
    BY <1>1 DEF CandidatesLast, Lasts
  <2>2. \A i \in held : rows'[i].status = "queued" \/ (rows'[i].status = "evicted" /\ i \in blind')
    BY <1>1, <1>3, <2>1 DEF EvictionInv, RowsInv, Evicted, Blinded
  <2> QED
    BY <1>1, <1>3, <2>2 DEF EvictionInv, RowsInv, Evicted, Blinded
<1>5. ASSUME NEW q \in Passes, CandidatesLast(q), pass[q].todo \subseteq Candidates,
             pass'[q].todo \subseteq pass[q].todo
      PROVE  CandidatesLast(q)'
  <2> SUFFICES ASSUME NEW d \in pass[q].todo
               PROVE  d.done <= clock /\ (d.path => Lasts(d)')
    BY <1>1, <1>5 DEF CandidatesLast, Lasts
  <2>1. d.id \in Ids /\ d.done <= clock
    BY <1>5 DEF Candidates, CandidatesLast
  <2>2. rows'[d.id] = Evicted \/ rows'[d.id] = rows[d.id]
    BY <1>3, <2>1
  <2> QED
    BY <1>1, <1>5, <2>1, <2>2 DEF CandidatesLast, Lasts, Evicted
<1>6. PassInv(p)'
  <2>1. CandidatesLast(p)'
    BY <1>1, <1>2, <1>5
  <2>2. NothingOlder(p)'
    <3> SUFFICES ASSUME p \notin Handlers, NEW j \in Ready \ Outside, j # c.id
                 PROVE  \/ \E d \in pass'[p].todo : d.id = j
                        \/ \A d \in pass'[p].todo : d.done <= rows'[j].done
      BY <1>3 DEF NothingOlder
    <3>1. rows'[j] = rows[j]
      BY <1>3 DEF Ready
    <3> QED
      BY <1>1, <1>2, <3>1 DEF NothingOlder
  <2>3. /\ pass'[p] = Record(p)'
        /\ pass'[p].pc = "loop" /\ pass'[p].dry \in BOOLEAN
        /\ pass'[p].todo \subseteq Candidates
    BY <1>1, <1>2 DEF Record
  <2>4. /\ p \in Handlers /\ "manual" \notin events' => pass'[p].pc = "idle"
        /\ p \notin Handlers => \A d \in pass'[p].todo : d.path
    BY <1>1, <1>2
  <2> QED
    BY <2>1, <2>2, <2>3, <2>4 DEF PassInv, AtFlip
<1>7. ASSUME NEW q \in Passes, q # p PROVE PassInv(q)'
  <2>1. pass'[q] = pass[q] /\ PassInv(q)
    BY <1>2, <1>7 DEF EvictionInv
  <2>2. CandidatesLast(q)'
    BY <1>5, <2>1 DEF PassInv
  <2>3. NothingOlder(q)'
    <3> SUFFICES ASSUME pass[q].pc \in {"loop", "flip"} /\ ~pass[q].dry /\ q \notin Handlers,
                        NEW j \in Ready \ Outside, j # c.id
                 PROVE  \/ \E d \in pass[q].todo : d.id = j
                        \/ \A d \in pass[q].todo : d.done <= rows'[j].done
      BY <1>3, <2>1 DEF NothingOlder
    <3>1. rows'[j] = rows[j]
      BY <1>3 DEF Ready
    <3> QED
      BY <2>1, <3>1 DEF PassInv, NothingOlder
  <2> QED
    BY <1>1, <2>1, <2>2, <2>3 DEF PassInv, Record, AtFlip
<1>8. FileGoesWithRow'
  <2> SUFFICES ASSUME "fault" \notin events, NEW i \in Ids
               PROVE  /\ rows'[i].status = "evicted" /\ i \notin blind' => ~file[i]
                      /\ rows'[i].status = "ready" /\ ~file[i] =>
                            \E q \in Passes : pass'[q].pc = "flip" /\ First(pass'[q].todo).id = i
    BY <1>1 DEF FileGoesWithRow
  <2>1. CASE i = c.id
    <3>1. /\ rows'[i].status = "evicted" /\ (c.path => ~file[i])
          /\ ~c.path => i \in blind' \/ (rows[i].status = "evicted" /\ i \notin blind)
      BY <1>1, <1>3, <2>1 DEF AtFlip, Evicted, Blinded
    <3> QED
      BY <3>1 DEF EvictionInv, FileGoesWithRow
  <2>2. CASE i # c.id
    <3>1. rows'[i] = rows[i] /\ (i \in blind' <=> i \in blind)
      BY <1>1, <1>3, <2>2 DEF Blinded
    <3>2. \A q \in Passes : First(pass[q].todo).id = i /\ pass[q].pc = "flip" => pass'[q] = pass[q]
      BY <1>2, <2>2
    <3> QED
      BY <3>1, <3>2 DEF EvictionInv, FileGoesWithRow
  <2> QED
    BY <2>1, <2>2
<1> QED
  BY <1>2, <1>4, <1>6, <1>7, <1>8 DEF EvictionInv

LEMMA EvictItemKeeps == ASSUME EvictionInv, NEW p \in Passes, EvictItem(p)
                        PROVE  EvictionInv'
<1>1. /\ pass = [q \in Passes |-> pass[q]] /\ pass[p] = NoPass
      /\ UNCHANGED <<rows, file, held, clock, policy, events, blind>>
      /\ p \in Handlers /\ "manual" \in events
  BY DEF EvictionInv, EvictItem
<1>2. PICK i \in Ids :
         pass' = [pass EXCEPT ![p] = [NoPass EXCEPT
            !.pc = IF i \in Ready THEN "loop" ELSE "flip", !.target = -1, !.todo = {Candidate(i)}]]
  BY DEF EvictItem
<1>3. pass'[p] = [pc |-> IF i \in Ready THEN "loop" ELSE "flip", dry |-> FALSE, running |-> 0,
                  target |-> -1, todo |-> {Candidate(i)}]
  BY <1>1, <1>2 DEF NoPass
<1>4. /\ Candidate(i) \in Candidates /\ Candidate(i).id = i
      /\ Candidate(i).done = rows[i].done /\ rows[i].done <= clock
      /\ Candidate(i).path => rows[i].status = "ready" /\ i \notin held
      /\ Candidate(i).path <=> i \in Ready
  BY DEF EvictionInv, RowsInv, RowsOf, Ready, Candidate, Candidates
<1>5. PassInv(p)'
  <2>1. CandidatesLast(p)'
    BY <1>1, <1>3, <1>4 DEF CandidatesLast, Lasts
  <2>2. First(pass'[p].todo) = Candidate(i) /\ pass'[p].todo # {}
    BY <1>3, <1>4, FirstIsFirst
  <2>3. AtFlip(p)'
    BY <1>3, <1>4, <2>2 DEF AtFlip
  <2> QED
    BY <1>1, <1>3, <1>4, <2>1, <2>3 DEF PassInv, Record, NothingOlder
<1>6. pass[p].pc # "flip"
  BY <1>1 DEF NoPass
<1>7. PICK r : pass' = [pass EXCEPT ![p] = r]
  BY <1>2
<1> QED
  BY <1>1, <1>5, <1>6, <1>7, LocalStep

\* What the engine does to a row that it holds, which is not 'ready': to hold it,
\* to mark it, to import its file, to give it up.
LEMMA HeldStep ==
    ASSUME EvictionInv, NEW i \in Ids, rows[i].status # "ready", UNCHANGED <<clock, policy, events, pass, blind>>,
           rows' \in {rows, [rows EXCEPT ![i] = Queued]}, rows' # rows => i \in held,
           held' \in {held, held \ {i}} \/ (held' = held \cup {i} /\ rows[i].status = "queued"),
           file' = file \/ (file' = [file EXCEPT ![i] = TRUE] /\ i \in held)
    PROVE  EvictionInv'
<1>1. /\ rows' \in [Ids -> RowsOf] /\ file' \in [Ids -> BOOLEAN]
      /\ \A j \in Ids : j # i => rows'[j] = rows[j] /\ file'[j] = file[j]
      /\ rows'[i] = rows[i] \/ (i \in held /\ rows'[i] = Queued)
      /\ file'[i] = file[i] \/ i \in held
      /\ Ready' = Ready /\ \A j \in Ready : rows'[j] = rows[j]
      /\ held' \subseteq Ids
  <2>1. Queued \in RowsOf
    BY DEF Queued, RowsOf
  <2>2. /\ rows' \in [Ids -> RowsOf] /\ file' \in [Ids -> BOOLEAN]
        /\ \A j \in Ids : j # i => rows'[j] = rows[j] /\ file'[j] = file[j]
        /\ rows'[i] = rows[i] \/ (i \in held /\ rows'[i] = Queued)
        /\ file'[i] = file[i] \/ i \in held
        /\ held' \subseteq Ids
    BY <2>1 DEF EvictionInv, RowsInv
  <2>3. \A j \in Ids : rows'[j].status = "ready" <=> rows[j].status = "ready"
    BY <2>2 DEF Queued
  <2> QED
    BY <2>2, <2>3 DEF Ready
<1>2. RowsInv'
  <2>1. \A j \in Ids : rows'[j].done <= clock
    BY <1>1 DEF EvictionInv, RowsInv, Queued
  <2>2. \A j \in held' : rows'[j].status = "queued" \/ (rows'[j].status = "evicted" /\ j \in blind)
    BY <1>1 DEF EvictionInv, RowsInv, Queued
  <2> QED
    BY <1>1, <2>1, <2>2 DEF EvictionInv, RowsInv
<1>3. ASSUME NEW q \in Passes PROVE PassInv(q)'
  <2>1. PassInv(q) /\ \A d \in pass[q].todo : d.id \in Ids
    BY DEF EvictionInv, PassInv, Candidates
  <2>2. ASSUME NEW d \in pass[q].todo, d.path PROVE Lasts(d)' /\ file'[d.id] = file[d.id]
    <3>1. Lasts(d) /\ d.id \in Ids
      BY <2>1, <2>2 DEF PassInv, CandidatesLast
    <3>2. rows'[d.id] = rows[d.id] /\ file'[d.id] = file[d.id] /\ d.id \notin held'
      BY <1>1, <3>1 DEF Lasts
    <3> QED
      BY <3>1, <3>2 DEF Lasts
  <2>3. CandidatesLast(q)'
    BY <2>1, <2>2 DEF PassInv, CandidatesLast
  <2>4. NothingOlder(q)'
    BY <1>1, <2>1 DEF PassInv, NothingOlder
  <2>5. AtFlip(q)'
    <3> SUFFICES ASSUME pass[q].pc = "flip" PROVE AtFlip(q)'
      BY DEF AtFlip
    <3>1. First(pass[q].todo) \in pass[q].todo
      BY <2>1, FirstCandidate DEF PassInv, AtFlip
    <3> QED
      BY <2>1, <2>2, <3>1 DEF PassInv, AtFlip
  <2> QED
    BY <2>1, <2>3, <2>4, <2>5 DEF PassInv, Record
<1>4. FileGoesWithRow'
  <2> SUFFICES ASSUME "fault" \notin events, NEW j \in Ids
               PROVE  /\ rows'[j].status = "evicted" /\ j \notin blind => ~file'[j]
                      /\ rows'[j].status = "ready" /\ ~file'[j] =>
                            \E q \in Passes : pass[q].pc = "flip" /\ First(pass[q].todo).id = j
    BY DEF FileGoesWithRow
  <2>1. CASE j = i
    <3>1. rows'[i].status # "ready"
      BY <1>1 DEF Queued
    <3>2. rows'[i].status = "evicted" /\ i \notin blind => i \notin held /\ rows'[i] = rows[i]
      BY <1>1 DEF EvictionInv, RowsInv, Queued
    <3> QED
      BY <1>1, <2>1, <3>1, <3>2 DEF EvictionInv, FileGoesWithRow
  <2>2. CASE j # i
    BY <1>1, <2>2 DEF EvictionInv, FileGoesWithRow
  <2> QED
    BY <2>1, <2>2
<1> QED
  BY <1>2, <1>3, <1>4 DEF EvictionInv

LEMMA EngineKeeps == ASSUME EvictionInv, NEW i \in Ids, Hold(i) \/ Mark(i) \/ Import(i) \/ Leave(i)
                     PROVE  EvictionInv'
<1>1. i \in held => rows[i].status # "ready"
  BY DEF EvictionInv, RowsInv
<1> QED
  BY <1>1, HeldStep DEF Hold, Mark, Import, Leave

\* What becomes 'ready' is the youngest, and no candidate that had a path.
LEMMA RecordReadyKeeps == ASSUME EvictionInv, NEW i \in Ids, RecordReady(i)
                          PROVE  EvictionInv'
<1>1. /\ UNCHANGED <<file, clock, policy, events, pass, blind>>
      /\ i \in held /\ file[i] /\ held' = held \ {i}
      /\ RowsInv
  BY DEF EvictionInv, RecordReady
<1>2. PICK s \in Sizes : rows' = [rows EXCEPT ![i] = [status |-> "ready", size |-> s, done |-> clock]]
  BY DEF RecordReady
<1>3. /\ rows'[i] = [status |-> "ready", size |-> s, done |-> clock]
      /\ \A j \in Ids : j # i => rows'[j] = rows[j]
      /\ Ready' = Ready \cup {i}
      /\ s \in Nat
  BY <1>1, <1>2, SizesAssumption DEF RowsInv, Ready
<1>4. RowsInv'
  <2>1. rows'[i] \in RowsOf
    BY <1>1, <1>3 DEF RowsInv, RowsOf
  <2>2. rows' \in [Ids -> RowsOf]
    BY <1>1, <1>2, <1>3, <2>1 DEF RowsInv
  <2> QED
    BY <1>1, <1>3, <2>2 DEF RowsInv
<1>5. ASSUME NEW q \in Passes PROVE PassInv(q)'
  <2>1. /\ PassInv(q)
        /\ \A d \in pass[q].todo : d.id \in Ids /\ d.done \in Nat /\ d.done <= clock
                                   /\ (d.path => d.id # i)
    BY <1>1 DEF EvictionInv, PassInv, CandidatesLast, Lasts, Candidates
  <2>2. CandidatesLast(q)'
    BY <1>1, <1>3, <2>1 DEF PassInv, CandidatesLast, Lasts
  <2>3. NothingOlder(q)'
    <3> SUFFICES ASSUME pass[q].pc \in {"loop", "flip"} /\ ~pass[q].dry /\ q \notin Handlers,
                        NEW j \in Ready' \ Outside
                 PROVE  \/ \E d \in pass[q].todo : d.id = j
                        \/ \A d \in pass[q].todo : d.done <= rows'[j].done
      BY <1>1 DEF NothingOlder
    <3>1. CASE j = i
      BY <1>3, <2>1, <3>1
    <3>2. CASE j # i
      BY <1>3, <2>1, <3>2 DEF PassInv, NothingOlder, Ready
    <3> QED
      BY <3>1, <3>2
  <2> QED
    BY <1>1, <2>1, <2>2, <2>3 DEF PassInv, Record, AtFlip
<1>6. FileGoesWithRow'
  <2> SUFFICES ASSUME "fault" \notin events, NEW j \in Ids
               PROVE  /\ rows'[j].status = "evicted" /\ j \notin blind => ~file[j]
                      /\ rows'[j].status = "ready" /\ ~file[j] =>
                            \E q \in Passes : pass[q].pc = "flip" /\ First(pass[q].todo).id = j
    BY <1>1 DEF FileGoesWithRow
  <2>1. CASE j = i
    BY <1>1, <1>3, <2>1
  <2>2. CASE j # i
    BY <1>3, <2>2 DEF EvictionInv, FileGoesWithRow
  <2> QED
    BY <2>1, <2>2
<1> QED
  BY <1>1, <1>4, <1>5, <1>6 DEF EvictionInv

LEMMA RequeueKeeps == ASSUME EvictionInv, NEW i \in Ids, Requeue(i)
                      PROVE  EvictionInv'
<1>1. /\ UNCHANGED <<file, held, clock, policy, events, pass, blind>> /\ RowsInv
  BY DEF EvictionInv, Requeue
<1>2. PICK s \in Sizes : rows' = [rows EXCEPT ![i].size = s]
  BY DEF Requeue
<1>3. /\ \A j \in Ids : rows'[j].status = rows[j].status /\ rows'[j].done = rows[j].done
      /\ rows' \in [Ids -> RowsOf]
  BY <1>1, <1>2, SizesAssumption DEF RowsInv, RowsOf
<1>4. Ready' = Ready
  BY <1>3 DEF Ready
<1>5. RowsInv' /\ FileGoesWithRow'
  BY <1>1, <1>3 DEF RowsInv, EvictionInv, FileGoesWithRow
<1>6. ASSUME NEW q \in Passes PROVE PassInv(q)'
  <2>1. PassInv(q) /\ \A d \in pass[q].todo : d.id \in Ids
    BY DEF EvictionInv, PassInv, Candidates
  <2>2. CandidatesLast(q)'
    BY <1>1, <1>3, <2>1 DEF PassInv, CandidatesLast, Lasts
  <2>3. NothingOlder(q)'
    BY <1>1, <1>3, <1>4, <2>1 DEF PassInv, NothingOlder, Ready
  <2> QED
    BY <1>1, <2>1, <2>2, <2>3 DEF PassInv, Record, AtFlip
<1> QED
  BY <1>1, <1>5, <1>6 DEF EvictionInv

LEMMA TickKeeps == ASSUME EvictionInv, Tick
                   PROVE  EvictionInv'
<1>1. UNCHANGED <<rows, file, held, policy, events, pass, blind>> /\ clock' \in Nat /\ clock' >= clock /\ clock \in Nat
  BY DEF EvictionInv, RowsInv, Tick
<1>2. RowsInv'
  BY <1>1 DEF EvictionInv, RowsInv, RowsOf
<1>3. ASSUME NEW q \in Passes PROVE PassInv(q)'
  <2>1. PassInv(q) /\ \A d \in pass[q].todo : d.done \in Nat
    BY DEF EvictionInv, PassInv, Candidates
  <2>2. CandidatesLast(q)'
    BY <1>1, <2>1 DEF PassInv, CandidatesLast, Lasts
  <2> QED
    BY <1>1, <2>1, <2>2 DEF PassInv, Record, AtFlip, NothingOlder, Ready
<1> QED
  BY <1>1, <1>2, <1>3 DEF EvictionInv, FileGoesWithRow

-----------------------------------------------------------------------------
LEMMA EvictionInit == Init => EvictionInv
<1> SUFFICES ASSUME Init PROVE EvictionInv
  OBVIOUS
<1>1. /\ rows = [i \in Ids |-> Queued] /\ file = [i \in Ids |-> FALSE] /\ clock = 0
      /\ held = {} /\ blind = {}
      /\ pass = [p \in Passes |-> NoPass]
  BY DEF Init
<1>2. RowsInv /\ FileGoesWithRow
  BY <1>1 DEF RowsInv, RowsOf, Queued, FileGoesWithRow
<1>3. \A p \in Passes : PassInv(p)
  BY <1>1 DEF PassInv, Record, NoPass, CandidatesLast, NothingOlder, AtFlip
<1> QED
  BY <1>1, <1>2, <1>3 DEF EvictionInv

LEMMA EvictionStep == ASSUME EvictionInv, [Next]_vars
                      PROVE  EvictionInv'
<1>1. CASE UNCHANGED vars
  BY <1>1 DEF vars, EvictionInv, RowsInv, FileGoesWithRow, PassInv, Record, CandidatesLast,
              Lasts, NothingOlder, AtFlip, Ready
<1>2. ASSUME NEW p \in Passes, SweepTick(p) \/ EvictCommand(p) \/ EvictItem(p) \/ PassStep(p) \/ Abort(p)
      PROVE  EvictionInv'
  BY <1>2, EndsKeep, SelectKeeps, SkipKeeps, RemoveKeeps, FlipKeeps, EvictItemKeeps DEF PassStep
<1>3. ASSUME NEW i \in Ids, Hold(i) \/ Mark(i) \/ Import(i) \/ RecordReady(i) \/ Leave(i) \/ Requeue(i)
      PROVE  EvictionInv'
  BY <1>3, EngineKeeps, RecordReadyKeeps, RequeueKeeps
<1> QED
  BY <1>1, <1>2, <1>3, TickKeeps DEF Next

LEMMA EvictionInvHolds == Spec => []EvictionInv
  BY EvictionInit, EvictionStep, PTL DEF Spec

-----------------------------------------------------------------------------
(* What a pass reckons with, and what is there.                            *)

UsedNow == Total(rows, Ready)

LEMMA UsedNat == ASSUME RowsInv PROVE UsedBytes = UsedNow /\ UsedNow \in Nat /\ IsFiniteSet(Ready)
<1>1. Ready \subseteq Ids /\ IsFiniteSet(Ready) /\ \A i \in Ready : rows[i].size \in Nat
  BY IdAssumption, FS_Subset DEF RowsInv, RowsOf, Ready
<1> QED
  BY <1>1, UsedIsTotal, TotalNat DEF UsedNow

\* A row that is flipped takes its bytes along.
LEMMA UsedAfterFlip ==
    ASSUME RowsInv, NEW i \in Ready, rows' = [rows EXCEPT ![i] = Evicted]
    PROVE  UsedNow' = UsedNow - rows[i].size
<1>1. IsFiniteSet(Ready) /\ Ready \subseteq Ids /\ \A j \in Ready : rows[j].size \in Nat
  BY UsedNat DEF RowsInv, RowsOf, Ready
<1>2. rows'[i] = Evicted /\ \A j \in Ids \ {i} : rows'[j] = rows[j]
  BY <1>1 DEF RowsInv
<1>3. Ready' = Ready \ {i}
  BY <1>1, <1>2 DEF Ready, Evicted
<1>4. Total(rows, Ready) = rows[i].size + Total(rows, Ready \ {i})
  BY <1>1, TotalSplits
<1>5. Total(rows, Ready \ {i}) = Total(rows', Ready \ {i})
  <2> DEFINE rest == Ready \ {i}
  <2>1. IsFiniteSet(rest) /\ \A j \in rest : rows[j].size = rows'[j].size
    BY <1>1, <1>2, FS_Subset
  <2> HIDE DEF rest
  <2>2. Total(rows, rest) = Total(rows', rest)
    BY <2>1, TotalSame
  <2> QED
    BY <2>2 DEF rest
<1>6. Total(rows, Ready \ {i}) \in Nat /\ rows[i].size \in Nat
  BY <1>1, TotalNat
<1> QED
  BY <1>3, <1>4, <1>5, <1>6 DEF UsedNow

\* One that becomes 'ready' only adds to them.
LEMMA UsedAfterRecord ==
    ASSUME RowsInv, NEW i \in Ids, rows[i].status # "ready", NEW s \in Nat,
           rows' = [rows EXCEPT ![i] = [status |-> "ready", size |-> s, done |-> clock]]
    PROVE  UsedNow' \in Int /\ UsedNow' >= UsedNow
<1>1. IsFiniteSet(Ready) /\ Ready \subseteq Ids /\ i \notin Ready /\ UsedNow \in Nat
      /\ \A j \in Ready : rows[j].size \in Nat
  BY UsedNat DEF RowsInv, RowsOf, Ready
<1>2. /\ rows'[i] = [status |-> "ready", size |-> s, done |-> clock]
      /\ \A j \in Ids \ {i} : rows'[j] = rows[j]
  BY DEF RowsInv
<1>3. Ready' = Ready \cup {i} /\ IsFiniteSet(Ready \cup {i}) /\ (Ready \cup {i}) \ {i} = Ready
  BY <1>1, <1>2, FS_AddElement DEF Ready
<1>4. \A j \in Ready \cup {i} : rows'[j].size \in Nat
  BY <1>1, <1>2
<1>5. Total(rows', Ready \cup {i}) = rows'[i].size + Total(rows', (Ready \cup {i}) \ {i})
  <2> DEFINE all == Ready \cup {i}
             new == rows'
  <2>1. i \in all /\ IsFiniteSet(all) /\ \A j \in all : new[j].size \in Nat
    BY <1>3, <1>4
  <2> HIDE DEF all, new
  <2>2. Total(new, all) = new[i].size + Total(new, all \ {i})
    BY <2>1, TotalSplits
  <2> QED
    BY <2>2 DEF all, new
<1>6. Total(rows', Ready) = Total(rows, Ready)
  <2> DEFINE all == Ready
             new == rows'
  <2>1. IsFiniteSet(all) /\ \A j \in all : new[j].size = rows[j].size
    BY <1>1, <1>2
  <2> HIDE DEF all, new
  <2>2. Total(new, all) = Total(rows, all)
    BY <2>1, TotalSame
  <2> QED
    BY <2>2 DEF all, new
<1>7. UsedNow' = s + UsedNow
  BY <1>2, <1>3, <1>5, <1>6 DEF UsedNow
<1> QED
  BY <1>1, <1>7

\* What is left for a lone pass to evict is 'ready' with the size it has read,
\* and what it takes for the bytes in use is no more than they are.
Reckons(p) ==
    /\ p \notin Sweepers => pass[p].pc = "idle"
    /\ pass[p].pc \in {"select", "loop", "flip"} => pass[p].running <= UsedNow /\ pass[p].target = Target(policy)
    /\ pass[p].pc \in {"loop", "flip"} =>
          \A c \in pass[p].todo : rows[c.id].status = "ready" /\ rows[c.id].size = c.size
    /\ pass[p].pc = "flip" => pass[p].running > pass[p].target

ReckonInv ==
    /\ policy \in Policies /\ events \in Settings
    /\ \A p \in Passes : pass[p].running \in Int /\ pass[p].target \in Int
    /\ Alone => \A p \in Passes : Reckons(p)

LEMMA TargetInt == ASSUME NEW caps \in Policies \cup {EnvPolicy} PROVE Target(caps) \in Int
  BY PolicyAssumption DEF Target

\* A step of a pass that leaves the rows alone: the others reckon as they did.
LEMMA ReckonLocal ==
    ASSUME EvictionInv, ReckonInv, NEW p \in Passes,
           UNCHANGED <<rows, policy, events>>, \A q \in Passes \ {p} : pass'[q] = pass[q],
           pass'[p].running \in Int, pass'[p].target \in Int, Alone => Reckons(p)'
    PROVE  ReckonInv'
<1>1. ASSUME Alone, NEW q \in Passes \ {p} PROVE Reckons(q)'
  <2>1. Reckons(q) /\ pass'[q] = pass[q]
    BY <1>1 DEF ReckonInv
  <2>2. UsedNow' = UsedNow
    BY DEF UsedNow, Ready
  <2> QED
    BY <2>1, <2>2 DEF Reckons
<1> QED
  BY <1>1 DEF ReckonInv, Alone

LEMMA ReckonPass ==
    ASSUME EvictionInv, ReckonInv, NEW p \in Passes,
           SweepTick(p) \/ EvictCommand(p) \/ Measure(p) \/ Select(p) \/ Refuse(p) \/ Count(p)
              \/ Remove(p) \/ Finish(p) \/ Abort(p) \/ EvictItem(p)
    PROVE  ReckonInv'
<1> DEFINE c == First(pass[p].todo)
           R(pc, dry, running, target, todo) ==
               [pc |-> pc, dry |-> dry, running |-> running, target |-> target, todo |-> todo]
<1>1. /\ pass[p] = R(pass[p].pc, pass[p].dry, pass[p].running, pass[p].target, pass[p].todo)
      /\ pass = [q \in Passes |-> pass[q]]
      /\ pass[p].todo \subseteq Candidates /\ pass[p].running \in Int /\ pass[p].target \in Int
      /\ UsedBytes = UsedNow /\ UsedNow \in Nat /\ Target(PolicyOf(p)) \in Int
      /\ p \in Sweepers => PolicyOf(p) = policy
      /\ Alone => Reckons(p)
  BY UsedNat, TargetInt, PassAssumption DEF EvictionInv, PassInv, ReckonInv, Record, PolicyOf
<1>2. /\ UNCHANGED <<rows, policy, events>> /\ UsedNow' = UsedNow
      /\ \A q \in Passes \ {p} : pass'[q] = pass[q]
  <2>1. \E r : pass' = [pass EXCEPT ![p] = r]
    BY <1>1 DEF SweepTick, EvictCommand, EvictItem, Measure, Select, Refuse, Count, Remove, Finish, Abort
  <2>2. \A q \in Passes \ {p} : pass'[q] = pass[q]
    BY <1>1, <2>1
  <2> QED
    BY <2>2 DEF SweepTick, EvictCommand, EvictItem, Measure, Select, Refuse, Count, Remove, Finish, Abort,
                UsedNow, Ready
<1>3. pass[p].todo # {} => c \in pass[p].todo /\ c.size \in Nat
  BY <1>1, FirstCandidate DEF Candidates
<1>4. ASSUME NEW pc, NEW dry, NEW running \in Int, NEW target \in Int, NEW todo,
             pass'[p] = R(pc, dry, running, target, todo),
             Alone => /\ p \notin Sweepers => pc = "idle"
                      /\ pc \in {"select", "loop", "flip"} => running <= UsedNow /\ target = Target(policy)
                      /\ pc \in {"loop", "flip"} =>
                            \A d \in todo : rows[d.id].status = "ready" /\ rows[d.id].size = d.size
                      /\ pc = "flip" => running > target
      PROVE  ReckonInv'
  <2>1. Alone => Reckons(p)'
    BY <1>2, <1>4 DEF Reckons
  <2> QED
    BY <1>2, <1>4, <2>1, ReckonLocal
<1>5. NoPass = R("idle", FALSE, 0, 0, {})
  BY DEF NoPass
<1>6. CASE SweepTick(p)
  <2>1. p \in Sweepers /\ pass'[p] = [NoPass EXCEPT !.pc = "measure"]
    BY <1>1, <1>6 DEF SweepTick
  <2>2. pass'[p] = R("measure", FALSE, 0, 0, {})
    BY <1>5, <2>1
  <2> QED
    BY <1>4, <2>1, <2>2
<1>7. CASE EvictCommand(p)
  <2>1. PICK dry \in BOOLEAN : pass'[p] = [[NoPass EXCEPT !.pc = "measure"] EXCEPT !.dry = dry]
    BY <1>1, <1>7 DEF EvictCommand
  <2>2. pass'[p] = R("measure", dry, 0, 0, {})
    BY <1>5, <2>1
  <2>3. ~Alone
    BY <1>7 DEF EvictCommand, Alone
  <2> QED
    BY <1>4, <2>2, <2>3
<1>8. CASE EvictItem(p)
  <2>1. PICK i \in Ids, pc \in {"loop", "flip"} :
           pass'[p] = [NoPass EXCEPT !.pc = pc, !.target = -1, !.todo = {Candidate(i)}]
    BY <1>1, <1>8 DEF EvictItem
  <2>2. pass'[p] = R(pc, FALSE, 0, -1, {Candidate(i)})
    BY <1>5, <2>1
  <2>3. ~Alone
    BY <1>8 DEF EvictItem, Alone
  <2> QED
    BY <1>4, <2>2, <2>3
<1>9. CASE Finish(p) \/ Abort(p)
  <2>1. pass'[p] = NoPass
    BY <1>1, <1>9 DEF Finish, Abort
  <2> QED
    BY <1>4, <1>5, <2>1
<1>10. CASE Measure(p)
  <2>1. /\ pass[p].pc = "measure"
        /\ \/ pass'[p] = NoPass
           \/ pass'[p] = [pass[p] EXCEPT !.pc = "select", !.running = UsedBytes, !.target = Target(PolicyOf(p))]
    BY <1>1, <1>10 DEF Measure
  <2>2. CASE pass'[p] = NoPass
    BY <1>4, <1>5, <2>2
  <2>3. CASE pass'[p] = [pass[p] EXCEPT !.pc = "select", !.running = UsedBytes, !.target = Target(PolicyOf(p))]
    <3>1. pass'[p] = R("select", pass[p].dry, UsedNow, Target(PolicyOf(p)), pass[p].todo)
      BY <1>1, <2>3
    <3>2. Alone => p \in Sweepers
      BY <1>1, <2>1 DEF Reckons
    <3> QED
      BY <1>1, <1>4, <3>1, <3>2
  <2> QED
    BY <2>1, <2>2, <2>3
<1>11. CASE Select(p)
  <2>1. /\ pass[p].pc = "select"
        /\ pass'[p] = [pass[p] EXCEPT !.pc = "loop", !.todo = {Candidate(i) : i \in Ready}]
    BY <1>1, <1>11 DEF Select
  <2>2. pass'[p] = R("loop", pass[p].dry, pass[p].running, pass[p].target, {Candidate(i) : i \in Ready})
    BY <1>1, <2>1
  <2>3. \A d \in {Candidate(i) : i \in Ready} : rows[d.id].status = "ready" /\ rows[d.id].size = d.size
    BY DEF Candidate, Ready
  <2> HIDE DEF R
  <2>4. Alone => p \in Sweepers /\ pass[p].running <= UsedNow /\ pass[p].target = Target(policy)
    BY <1>1, <2>1 DEF Reckons
  <2> QED
    BY <1>1, <1>4, <2>2, <2>3, <2>4
<1>12. ASSUME pass[p].pc = "loop", pass[p].todo # {}, NEW n \in Nat,
              pass'[p] = [pass[p] EXCEPT !.running = @ - n, !.todo = @ \ {c}]
       PROVE  ReckonInv'
  <2>1. pass'[p] = R("loop", pass[p].dry, pass[p].running - n, pass[p].target, pass[p].todo \ {c})
    BY <1>1, <1>12
  <2>2. Alone => /\ p \in Sweepers /\ pass[p].running - n <= UsedNow /\ pass[p].target = Target(policy)
                 /\ \A d \in pass[p].todo : rows[d.id].status = "ready" /\ rows[d.id].size = d.size
    BY <1>1, <1>12 DEF Reckons
  <2> QED
    BY <1>1, <1>4, <2>1, <2>2
<1>13. CASE Refuse(p)
  <2>1. pass'[p] = [pass[p] EXCEPT !.todo = @ \ {c}]
    BY <1>1, <1>13 DEF Refuse
  <2>2. pass[p].running - 0 = pass[p].running
    BY <1>1
  <2>3. [pass[p] EXCEPT !.todo = @ \ {c}] = [pass[p] EXCEPT !.running = pass[p].running, !.todo = @ \ {c}]
    BY <1>1
  <2> QED
    BY <1>12, <1>13, <2>1, <2>2, <2>3 DEF Refuse, More
<1>14. CASE Count(p)
  <2>1. pass'[p] = [pass[p] EXCEPT !.running = @ - c.size, !.todo = @ \ {c}]
    BY <1>1, <1>14 DEF Count
  <2> QED
    BY <1>3, <1>12, <1>14, <2>1 DEF Count, More
<1>15. CASE Remove(p)
  <2>1. /\ pass[p].pc = "loop" /\ pass[p].running > pass[p].target
        /\ pass'[p] = [pass[p] EXCEPT !.pc = "flip"]
    BY <1>1, <1>15 DEF Remove, More
  <2>2. pass'[p] = R("flip", pass[p].dry, pass[p].running, pass[p].target, pass[p].todo)
    BY <1>1, <2>1
  <2>3. Alone => /\ p \in Sweepers /\ pass[p].running <= UsedNow /\ pass[p].target = Target(policy)
                 /\ \A d \in pass[p].todo : rows[d.id].status = "ready" /\ rows[d.id].size = d.size
    BY <1>1, <2>1 DEF Reckons
  <2> QED
    BY <1>1, <1>4, <2>1, <2>2, <2>3
<1> QED
  BY <1>6, <1>7, <1>8, <1>9, <1>10, <1>11, <1>13, <1>14, <1>15

\* The candidate's row is 'ready' with its size, so usage falls by what the pass
\* takes off; the others are idle.
LEMMA ReckonFlip == ASSUME EvictionInv, ReckonInv, NEW p \in Passes, Flip(p) PROVE ReckonInv'
<1> DEFINE c == First(pass[p].todo)
<1>1. /\ pass[p] = Record(p) /\ pass = [q \in Passes |-> pass[q]] /\ pass[p].pc = "flip"
      /\ pass[p].todo \subseteq Candidates /\ pass[p].running \in Int /\ pass[p].target \in Int
      /\ c \in pass[p].todo /\ c.size \in Nat /\ c.id \in Ids /\ pass[p].todo # {}
      /\ UNCHANGED <<policy, events>> /\ rows' = [rows EXCEPT ![c.id] = Evicted]
      /\ CandidatesLast(p) /\ RowsInv /\ (p \notin Handlers => \A d \in pass[p].todo : d.path)
  BY FirstCandidate DEF EvictionInv, PassInv, AtFlip, ReckonInv, Flip, Candidates
<1>2. /\ pass'[p] = [pc |-> "loop", dry |-> pass[p].dry, running |-> pass[p].running - c.size,
                     target |-> pass[p].target, todo |-> pass[p].todo \ {c}]
      /\ \A q \in Passes \ {p} : pass'[q] = pass[q]
  BY <1>1 DEF Flip, Record
<1>3. \A q \in Passes : pass'[q].running \in Int /\ pass'[q].target \in Int
  BY <1>1, <1>2 DEF ReckonInv
<1>4. ASSUME Alone PROVE \A q \in Passes : Reckons(q)'
  <2>1. /\ p \in Sweepers /\ p \notin Handlers /\ \A q \in Passes \ {p} : pass[q].pc = "idle" \/ q \in Sweepers
        /\ pass[p].running <= UsedNow /\ pass[p].target = Target(policy)
        /\ \A d \in pass[p].todo : rows[d.id].status = "ready" /\ rows[d.id].size = d.size
    BY <1>1, <1>4, PassAssumption DEF ReckonInv, Reckons
  <2>2. \A q \in Passes \ {p} : pass'[q].pc = "idle"
    BY <1>2, <1>4, <2>1 DEF Alone
  <2>3. UsedNow' = UsedNow - c.size /\ UsedNow \in Nat
    BY <1>1, <2>1, UsedAfterFlip, UsedNat DEF Ready
  <2>4. ASSUME NEW d \in pass[p].todo \ {c} PROVE rows'[d.id].status = "ready" /\ rows'[d.id].size = d.size
    <3>1. d \in Candidates /\ c \in Candidates /\ rows[d.id].done = d.done /\ rows[c.id].done = c.done
      BY <1>1, <2>1 DEF CandidatesLast, Lasts
    <3>2. d.id # c.id
      BY <2>1, <3>1, <1>1 DEF Candidates
    <3> QED
      BY <1>1, <2>1, <3>1, <3>2 DEF RowsInv, Candidates
  <2>5. Reckons(p)'
    BY <1>1, <1>2, <2>1, <2>3, <2>4 DEF Reckons
  <2> QED
    BY <1>2, <2>2, <2>5 DEF Reckons
<1> QED
  BY <1>1, <1>3, <1>4 DEF ReckonInv, Alone

LEMMA ReckonRecord == ASSUME EvictionInv, ReckonInv, NEW i \in Ids, RecordReady(i) PROVE ReckonInv'
<1>1. UNCHANGED <<clock, policy, events, pass>> /\ i \in held /\ rows[i].status # "ready" /\ RowsInv
  BY DEF EvictionInv, RowsInv, RecordReady
<1>2. PICK s \in Nat : rows' = [rows EXCEPT ![i] = [status |-> "ready", size |-> s, done |-> clock]]
  BY SizesAssumption DEF RecordReady
<1>3. UsedNow' >= UsedNow /\ UsedNow' \in Int /\ UsedNow \in Int
  <2>1. UsedNow' >= UsedNow /\ UsedNow' \in Int
    BY <1>1, <1>2, UsedAfterRecord
  <2> QED
    BY <1>1, <2>1, UsedNat
<1>4. ASSUME Alone, NEW q \in Passes PROVE Reckons(q)'
  <2>1. Reckons(q) /\ pass[q].running \in Int
    BY <1>4 DEF ReckonInv
  <2>2. q \in Sweepers => \A d \in pass[q].todo : d.id \in Ids /\ d.id # i
    BY <1>1, PassAssumption DEF EvictionInv, PassInv, CandidatesLast, Lasts, Candidates
  <2>3. q \in Sweepers => \A d \in pass[q].todo : rows'[d.id] = rows[d.id]
    BY <1>1, <1>2, <2>2 DEF RowsInv
  <2> QED
    BY <1>1, <1>3, <2>1, <2>3 DEF Reckons
<1> QED
  BY <1>1, <1>4 DEF ReckonInv, Alone

\* The engine's other steps leave the 'ready' rows alone.
LEMMA ReckonEngine ==
    ASSUME EvictionInv, ReckonInv, NEW i \in Ids, Hold(i) \/ Mark(i) \/ Import(i) \/ Leave(i)
    PROVE  ReckonInv'
<1>1. /\ UNCHANGED <<policy, events, pass>> /\ RowsInv
      /\ rows' = rows \/ (rows' = [rows EXCEPT ![i] = Queued] /\ rows[i].status # "ready")
  BY DEF EvictionInv, RowsInv, Hold, Mark, Import, Leave
<1>2. Ready' = Ready /\ \A j \in Ready : rows'[j] = rows[j]
  BY <1>1 DEF RowsInv, Ready, Queued
<1>3. UsedNow' = UsedNow
  <2> DEFINE all == Ready
             new == rows'
  <2>1. IsFiniteSet(all) /\ \A j \in all : rows[j].size = new[j].size
    BY <1>1, <1>2, UsedNat
  <2> HIDE DEF all, new
  <2>2. Total(rows, all) = Total(new, all)
    BY <2>1, TotalSame
  <2> QED
    BY <1>2, <2>2 DEF UsedNow, all, new
<1>4. ASSUME Alone, NEW q \in Passes PROVE Reckons(q)'
  <2>1. Reckons(q) /\ \A d \in pass[q].todo : d.id \in Ids
    BY <1>4 DEF ReckonInv, EvictionInv, PassInv, Candidates
  <2>2. \A d \in pass[q].todo : rows[d.id].status = "ready" => rows'[d.id] = rows[d.id]
    BY <1>2, <2>1 DEF Ready
  <2> QED
    BY <1>1, <1>3, <2>1, <2>2 DEF Reckons
<1> QED
  BY <1>1, <1>4 DEF ReckonInv, Alone

LEMMA ReckonStep == ASSUME EvictionInv, ReckonInv, [Next]_vars PROVE ReckonInv'
<1>1. CASE UNCHANGED vars \/ Tick
  BY <1>1 DEF vars, Tick, ReckonInv, Reckons, Alone, UsedNow, Ready
<1>2. ASSUME NEW p \in Passes, SweepTick(p) \/ EvictCommand(p) \/ EvictItem(p) \/ PassStep(p) \/ Abort(p)
      PROVE  ReckonInv'
  BY <1>2, ReckonPass, ReckonFlip DEF PassStep
<1>3. ASSUME NEW i \in Ids, Requeue(i) PROVE ReckonInv'
  <2>1. UNCHANGED <<policy, events, pass>> /\ ~Alone
    BY <1>3 DEF Requeue, Alone
  <2> QED
    BY <2>1 DEF ReckonInv, Alone
<1> QED
  BY <1>1, <1>2, <1>3, ReckonRecord, ReckonEngine DEF Next

LEMMA ReckonInit == Init => ReckonInv
  BY DEF Init, ReckonInv, Reckons, NoPass

LEMMA ReckonHolds == Spec => [](EvictionInv /\ ReckonInv)
  BY EvictionInit, EvictionStep, ReckonInit, ReckonStep, PTL DEF Spec

-----------------------------------------------------------------------------
(* The theorems.                                                           *)

\* Only the UPDATE of a pass evicts.
LEMMA OnlyFlips == ASSUME EvictionInv, [Next]_vars, NEW i \in Ids,
                          rows[i].status = "ready", rows'[i].status = "evicted"
                   PROVE  \E p \in Passes : Flip(p)
<1>1. /\ rows'[i].status # rows[i].status /\ rows' # rows
      /\ rows \in [Ids -> RowsOf]
  BY DEF EvictionInv, RowsInv
<1>2. \A q \in Ids : ~ RecordReady(q)
  <2> SUFFICES ASSUME NEW q \in Ids, RecordReady(q) PROVE FALSE
    OBVIOUS
  <2>1. PICK s \in Sizes : rows' = [rows EXCEPT ![q] = [status |-> "ready", size |-> s, done |-> clock]]
    BY DEF RecordReady
  <2> QED
    BY <1>1, <2>1
<1>3. \A q \in Ids : ~ Requeue(q)
  <2> SUFFICES ASSUME NEW q \in Ids, Requeue(q) PROVE FALSE
    OBVIOUS
  <2>1. PICK s \in Sizes : rows' = [rows EXCEPT ![q].size = s]
    BY DEF Requeue
  <2> QED
    BY <1>1, <2>1
<1>4. \A q \in Ids : ~ (Hold(q) \/ Mark(q) \/ Import(q) \/ Leave(q))
  <2> SUFFICES ASSUME NEW q \in Ids, rows' \in {rows, [rows EXCEPT ![q] = Queued]} PROVE FALSE
    BY DEF Hold, Mark, Import, Leave
  <2> QED
    BY <1>1 DEF Queued
<1> QED
  BY <1>1, <1>2, <1>3, <1>4 DEF Next, PassStep, SweepTick, EvictCommand, EvictItem, Measure, Select,
                          Refuse, Count, Remove, Finish, Abort, Tick, vars

\* The file goes with the row, but for what was loaded before it had a path: any
\* number of passes may hold the same candidates, beside the engine, and an item
\* is still flipped only after its file has gone.
THEOREM FilesGoWithRows == Spec => []FileGoesWithRow
  BY EvictionInvHolds, PTL DEF EvictionInv

\* Oldest first: what a pass evicts is the oldest of all that it may evict, not
\* only of what it has read.
THEOREM OldestGoFirst == Spec => OldestFirst
<1>1. ASSUME EvictionInv, [Next]_vars
      PROVE  [\A i \in Ids : rows[i].status = "ready" /\ rows'[i].status = "evicted" /\ "manual" \notin events =>
                 \A j \in Ready \ Outside : rows[i].done <= rows[j].done]_vars
  <2> SUFFICES ASSUME NEW i \in Ids, rows[i].status = "ready", rows'[i].status = "evicted",
                      "manual" \notin events, NEW j \in Ready \ Outside
               PROVE  rows[i].done <= rows[j].done
    OBVIOUS
  <2>1. /\ i \in Ids /\ rows'[i].status # rows[i].status
        /\ rows \in [Ids -> RowsOf]
    BY <1>1 DEF EvictionInv, RowsInv
  <2>2. PICK p \in Passes : Flip(p)
    BY <1>1, OnlyFlips
  <2> DEFINE c == First(pass[p].todo)
  <2>3. /\ pass[p].pc = "flip" /\ rows' = [rows EXCEPT ![c.id] = Evicted] /\ PassInv(p)
        /\ pass[p].todo # {}
    BY <1>1, <2>2 DEF Flip, EvictionInv, PassInv, AtFlip
  <2>4. i = c.id
    BY <2>1, <2>3
  <2>5. c \in pass[p].todo /\ c \in Candidates /\ \A d \in pass[p].todo : Precedes(c, d)
    BY <1>1, <2>3, FirstCandidate DEF PassInv
  <2>6. p \notin Handlers /\ ~pass[p].dry /\ rows[i].done = c.done
    BY <2>3, <2>4, <2>5 DEF PassInv, AtFlip, CandidatesLast, Lasts
  <2>7. CASE \E d \in pass[p].todo : d.id = j
    <3>1. PICK d \in pass[p].todo : d.id = j
      BY <2>7
    <3>2. d \in Candidates /\ rows[j].done = d.done
      BY <2>3, <2>6, <3>1 DEF PassInv, CandidatesLast, Lasts, Ready
    <3>3. c.done <= d.done
      BY <2>5, <3>1, <3>2 DEF Precedes, Candidates
    <3> QED
      BY <2>6, <3>2, <3>3
  <2>8. CASE \A d \in pass[p].todo : d.done <= rows[j].done
    BY <2>5, <2>6, <2>8
  <2> QED
    BY <2>3, <2>6, <2>7, <2>8 DEF PassInv, NothingOlder
<1> QED
  BY <1>1, EvictionInvHolds, PTL DEF Spec, OldestFirst

\* Rows, files and passes are well-formed: a pass at its UPDATE has a candidate.
THEOREM TypeCorrect == Spec => []TypeOK
<1>1. EvictionInv /\ ReckonInv => TypeOK
  <2> SUFFICES ASSUME EvictionInv, ReckonInv PROVE TypeOK
    OBVIOUS
  <2>1. ASSUME NEW p \in Passes
        PROVE  pass[p] \in [pc : {"idle", "measure", "select", "loop", "flip"}, dry : BOOLEAN,
                            running : Int, target : Int, todo : SUBSET Candidates]
    BY DEF EvictionInv, PassInv, Record, ReckonInv
  <2> QED
    BY <2>1 DEF TypeOK, EvictionInv, RowsInv, PassInv, AtFlip, ReckonInv
<1> QED
  BY <1>1, ReckonHolds, PTL

\* A lone pass stops when it has to, although it never looks at the table again
\* after its SELECT: what it reckons with is never more than what is in use.
THEOREM SweeperStops == Spec => StopsAtTarget
<1>1. EvictionInv /\ ReckonInv /\ [Next]_vars =>
         [\A i \in Ids : Alone /\ rows[i].status = "ready" /\ rows'[i].status = "evicted"
             => UsedBytes > Target(policy)]_vars
  <2> SUFFICES ASSUME EvictionInv, ReckonInv, Next, NEW i \in Ids, Alone,
                      rows[i].status = "ready", rows'[i].status = "evicted"
               PROVE  UsedBytes > Target(policy)
    OBVIOUS
  <2>1. PICK p \in Passes : Flip(p)
    BY OnlyFlips
  <2>2. pass[p].running > pass[p].target /\ pass[p].running <= UsedNow /\ pass[p].target = Target(policy)
        /\ pass[p].running \in Int
    BY <2>1 DEF Flip, ReckonInv, Reckons
  <2>3. UsedBytes = UsedNow /\ UsedNow \in Int /\ Target(policy) \in Int
    BY UsedNat, TargetInt DEF EvictionInv, ReckonInv
  <2> QED
    BY <2>2, <2>3
<1> QED
  BY <1>1, ReckonHolds, PTL DEF Spec, StopsAtTarget
=============================================================================
