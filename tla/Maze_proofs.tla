---------------------------- MODULE Maze_proofs ----------------------------
(***************************************************************************)
(* Proofs about DeadEnds and Maze, for every size of the maze.  First what *)
(* filling dead ends in any order keeps, then that the scan is such a      *)
(* filling, and that it stops only where nothing is left to fill.          *)
(***************************************************************************)
EXTENDS Maze, Recursion, FiniteSetTheorems, TLAPS

LEMMA InteriorIsInside ==
    ASSUME NEW c \in Interior
    PROVE  c \in Cells /\ Around(c) \subseteq Cells
BY GridAssumption DEF Interior, Cells, Around, Below, Above, RightOf, LeftOf

LEMMA FourNeighbours ==
    ASSUME NEW c \in Interior
    PROVE  /\ Below(c) # Above(c) /\ Below(c) # RightOf(c) /\ Below(c) # LeftOf(c)
           /\ Above(c) # RightOf(c) /\ Above(c) # LeftOf(c) /\ RightOf(c) # LeftOf(c)
           /\ c \notin Around(c)
BY GridAssumption DEF Interior, Around, Below, Above, RightOf, LeftOf

(* The abstract filling speaks of the same places.                         *)
LEMMA SamePlaces ==
    /\ Filling!Cells = Cells /\ Filling!Interior = Interior
    /\ \A c : Filling!Around(c) = Around(c)
    /\ \A x : Filling!Open(x) = Open(x)
BY DEF Filling!Cells, Cells, Filling!Interior, Interior, Filling!Around, Around,
       Filling!Below, Below, Filling!Above, Above, Filling!RightOf, RightOf,
       Filling!LeftOf, LeftOf, Filling!Open, Open

(* The four tests of the code say that there is one exit at most.          *)
LEMMA TestsMeanOneExit ==
    ASSUME m \in [Cells -> {0, 1}], NEW c \in Interior
    PROVE  DeadEnd(c) <=> Filling!OneExit(Open(m), c)
<1> DEFINE b == Below(c)  a == Above(c)  r == RightOf(c)  l == LeftOf(c)
<1>1. b \in Cells /\ a \in Cells /\ r \in Cells /\ l \in Cells
  BY InteriorIsInside DEF Around
<1>2. b # a /\ b # r /\ b # l /\ a # r /\ a # l /\ r # l
  BY FourNeighbours
<1>3. Filling!OneExit(Open(m), c) <=>
        \A x, y \in {b, a, r, l} : m[x] = 0 /\ m[y] = 0 => x = y
  <2>1. \A x \in {b, a, r, l} : x \in Open(m) <=> m[x] = 0
    BY <1>1 DEF Open
  <2>2. Filling!Around(c) = {b, a, r, l}
    BY SamePlaces DEF Around
  <2> QED BY <2>1, <2>2 DEF Filling!OneExit
<1>4. m[b] \in {0, 1} /\ m[a] \in {0, 1} /\ m[r] \in {0, 1} /\ m[l] \in {0, 1}
  BY <1>1
<1>5. DeadEnd(c) <=> \/ m[b] + m[a] + m[r] = 3
                     \/ m[b] + m[a] + m[l] = 3
                     \/ m[r] + m[l] + m[b] = 3
                     \/ m[r] + m[l] + m[a] = 3
  BY DEF DeadEnd
<1> HIDE DEF b, a, r, l
<1>6. (\A x, y \in {b, a, r, l} : m[x] = 0 /\ m[y] = 0 => x = y) <=>
        /\ ~(m[b] = 0 /\ m[a] = 0) /\ ~(m[b] = 0 /\ m[r] = 0) /\ ~(m[b] = 0 /\ m[l] = 0)
        /\ ~(m[a] = 0 /\ m[r] = 0) /\ ~(m[a] = 0 /\ m[l] = 0) /\ ~(m[r] = 0 /\ m[l] = 0)
  BY <1>2
<1> QED BY <1>3, <1>4, <1>5, <1>6

----------------------------------------------------------------------------
(* Type correctness of the scan.                                           *)
LEMMA ScannedIsInterior == TypeOK /\ Scanning => <<i, j>> \in Interior
BY GridAssumption DEF TypeOK, Scanning, Interior

LEMMA AdvanceTyped ==
    TypeOK /\ Scanning /\ Advance => i' \in 1 .. Size - 1 /\ j' \in 1 .. Size - 2
BY GridAssumption DEF TypeOK, Scanning, Advance

LEMMA TypeStep == TypeOK /\ [Next]_vars => TypeOK'
<1> SUFFICES ASSUME TypeOK, [Next]_vars PROVE TypeOK'
  OBVIOUS
<1>1. CASE Fill
  <2>1. i' \in 1 .. Size - 1 /\ j' \in 1 .. Size - 2
    BY <1>1, AdvanceTyped DEF Fill
  <2> QED BY <1>1, <2>1 DEF Fill, TypeOK
<1>2. CASE Leave
  <2>1. i' \in 1 .. Size - 1 /\ j' \in 1 .. Size - 2
    BY <1>2, AdvanceTyped DEF Leave
  <2> QED BY <1>2, <2>1 DEF Leave, TypeOK
<1>3. CASE EndPass
  <2>1. m' \in [Cells -> {0, 1}] /\ first' \in [Cells -> {0, 1}] /\ pc' \in {"scan", "done"}
    BY <1>3 DEF EndPass, TypeOK
  <2>2. i' \in 1 .. Size - 1 /\ j' \in 1 .. Size - 2 /\ count' \in Nat
    BY <1>3, GridAssumption DEF EndPass, TypeOK
  <2>3. isChanged' \in BOOLEAN
    BY <1>3 DEF EndPass, TypeOK
  <2> QED BY <2>1, <2>2, <2>3 DEF TypeOK
<1>4. CASE UNCHANGED vars
  BY <1>4 DEF vars, TypeOK
<1> QED BY <1>1, <1>2, <1>3, <1>4 DEF Next

LEMMA TypeInit == Init => TypeOK
<1>1. 1 \in 1 .. Size - 1 /\ 1 \in 1 .. Size - 2 /\ 0 \in Nat
  BY GridAssumption
<1> QED BY <1>1 DEF Init, TypeOK

(* Every variable of the scan keeps its type, for every size.              *)
THEOREM TypeCorrect == Spec => []TypeOK
BY TypeInit, TypeStep, PTL DEF Spec

----------------------------------------------------------------------------
(* What is behind the scan after it has moved on by one place.             *)
LEMMA BehindStep ==
    ASSUME TypeOK, Scanning, Advance, NEW c \in Interior, Behind(c)'
    PROVE  Behind(c) \/ c = <<i, j>>
<1>1. c = <<c[1], c[2]>> /\ c[1] \in 1 .. Size - 2 /\ c[2] \in 1 .. Size - 2
  BY DEF Interior
<1>2. i \in 1 .. Size - 1 /\ j \in 1 .. Size - 2
  BY DEF TypeOK
<1>3. CASE j < Size - 2
  BY <1>1, <1>2, <1>3, GridAssumption DEF Advance, Behind
<1>4. CASE ~(j < Size - 2)
  BY <1>1, <1>2, <1>4, GridAssumption DEF Advance, Behind
<1> QED BY <1>3, <1>4

LEMMA InvInit == Init => IInv
<1> SUFFICES ASSUME Init PROVE IInv
  OBVIOUS
<1>1. TypeOK
  BY TypeInit
<1>2. \A c \in Interior : ~Behind(c)
  BY GridAssumption DEF Init, Interior, Behind
<1> QED BY <1>1, <1>2 DEF IInv, NoneBehind, StopsUnchanged, Init

LEMMA InvStep == IInv /\ [Next]_vars => IInv'
<1> SUFFICES ASSUME IInv, [Next]_vars PROVE IInv'
  OBVIOUS
<1>1. TypeOK /\ TypeOK'
  BY TypeStep DEF IInv
<1>2. NoneBehind'
  <2>1. CASE Fill
    BY <2>1 DEF Fill, NoneBehind
  <2>2. CASE Leave
    <3> SUFFICES ASSUME ~isChanged', NEW c \in Interior, Behind(c)', m'[c] = 0
                 PROVE  ~Filling!OneExit(Open(m)', c)
      BY DEF NoneBehind
    <3>1. m' = m /\ isChanged' = isChanged
      BY <2>2 DEF Leave
    <3>2. Open(m)' = Open(m)
      BY <3>1 DEF Open
    <3>3. CASE Behind(c)
      BY <3>1, <3>2, <3>3 DEF IInv, NoneBehind
    <3>4. CASE c = <<i, j>>
      <4>1. ~DeadEnd(c)
        BY <2>2, <3>1, <3>4 DEF Leave
      <4> QED BY <4>1, <1>1, <3>2, TestsMeanOneExit DEF TypeOK
    <3> QED BY <1>1, <2>2, <3>3, <3>4, BehindStep DEF Leave
  <2>3. CASE EndPass
    <3>1. CASE isChanged
      <4>1. i' = 1 /\ j' = 1
        BY <2>3, <3>1 DEF EndPass
      <4>2. \A c \in Interior : ~Behind(c)'
        BY <4>1, GridAssumption DEF Interior, Behind
      <4> QED BY <4>2 DEF NoneBehind
    <3>2. CASE ~isChanged
      BY <2>3, <3>2 DEF EndPass, IInv, NoneBehind, Behind, Open
    <3> QED BY <3>1, <3>2
  <2>4. CASE UNCHANGED vars
    BY <2>4 DEF vars, IInv, NoneBehind, Behind, Open
  <2> QED BY <2>1, <2>2, <2>3, <2>4 DEF Next
<1>3. StopsUnchanged'
  <2>1. CASE Fill \/ Leave
    BY <2>1 DEF Fill, Leave, Scanning, StopsUnchanged
  <2>2. CASE EndPass
    BY <2>2 DEF EndPass, StopsUnchanged
  <2>3. CASE UNCHANGED vars
    BY <2>3 DEF vars, IInv, StopsUnchanged
  <2> QED BY <2>1, <2>2, <2>3 DEF Next
<1> QED BY <1>1, <1>2, <1>3 DEF IInv

LEMMA MazeInvariant == Spec => []IInv
BY InvInit, InvStep, PTL DEF Spec

(* When solve_dead_end_fill() ends, no dead end is left in the maze.       *)
THEOREM EndsWithoutDeadEnds == Spec => []NoDeadEndLeft
<1>1. IInv => NoDeadEndLeft
  <2> SUFFICES ASSUME IInv, pc = "done", NEW c \in Interior, m[c] = 0
               PROVE  ~Filling!OneExit(Open(m), c)
    BY DEF NoDeadEndLeft
  <2>1. i = Size - 1 /\ ~isChanged
    BY DEF IInv, StopsUnchanged
  <2>2. Behind(c)
    BY <2>1, GridAssumption DEF Behind, Interior
  <2> QED BY <2>1, <2>2 DEF IInv, NoneBehind
<1> QED BY <1>1, MazeInvariant, PTL

----------------------------------------------------------------------------
(* The scan is a filling of dead ends: its first maze is one, and every    *)
(* step walls up one dead end or leaves the maze alone.                    *)
THEOREM ScanFillsDeadEnds == Spec => ImplementsDeadEnds
<1>1. Init => Filling!Init
  BY SamePlaces DEF Init, Filling!Init
<1>2. TypeOK /\ [Next]_vars => [Filling!Next]_m
  <2> SUFFICES ASSUME TypeOK, [Next]_vars PROVE [Filling!Next]_m
    OBVIOUS
  <2>1. CASE Fill
    <3>1. <<i, j>> \in Interior
      BY <2>1, ScannedIsInterior DEF Fill
    <3>2. Filling!OneExit(Open(m), <<i, j>>)
      BY <2>1, <3>1, TestsMeanOneExit DEF Fill, TypeOK
    <3>3. Filling!WallUp(<<i, j>>)
      BY <2>1, <3>2, SamePlaces DEF Fill, Filling!WallUp
    <3> QED BY <3>1, <3>3, SamePlaces DEF Filling!Next
  <2>2. CASE Leave \/ EndPass \/ UNCHANGED vars
    BY <2>2 DEF Leave, EndPass, vars
  <2> QED BY <2>1, <2>2 DEF Next
<1> QED BY <1>1, <1>2, TypeCorrect, PTL DEF Spec, ImplementsDeadEnds, Filling!Spec

----------------------------------------------------------------------------
(* S was open when the maze was read, and still is.                        *)
Kept(S) == S \subseteq Open(first) => S \subseteq Open(m)

(* A step walls up none of the places of a passage.                        *)
LEMMA KeptStep ==
    ASSUME NEW S, Filling!Passage(S), TypeOK, Kept(S), [Next]_vars
    PROVE  Kept(S)'
<1>1. CASE Fill
  <2>1. <<i, j>> \in Interior /\ first' = first
    BY <1>1, ScannedIsInterior DEF Fill
  <2> SUFFICES ASSUME S \subseteq Open(first) PROVE S \subseteq Open(m)'
    BY <2>1 DEF Kept, Open
  <2>2. S \subseteq Open(m)
    BY DEF Kept
  <2>3. Filling!OneExit(Open(m), <<i, j>>)
    BY <1>1, <2>1, TestsMeanOneExit DEF Fill, TypeOK
  <2>4. Filling!OneExit(S, <<i, j>>)
    BY <2>2, <2>3 DEF Filling!OneExit
  <2>5. <<i, j>> \notin S
    BY <2>1, <2>4, SamePlaces DEF Filling!Passage
  <2>6. \A c \in S : m'[c] = m[c]
    BY <1>1, <2>2, <2>5 DEF Fill, TypeOK, Open
  <2> QED BY <2>2, <2>6 DEF Open
<1>2. CASE Leave \/ EndPass \/ UNCHANGED vars
  BY <1>2 DEF Leave, EndPass, vars, Kept, Open
<1> QED BY <1>1, <1>2 DEF Next

(* No way through the maze is lost: a set of places each of which has two  *)
(* exits within it, a path from one side to another or a loop, stays open  *)
(* from the first pass to the last.                                        *)
THEOREM PassagesStayOpen ==
    ASSUME NEW S, Filling!Passage(S)
    PROVE  Spec => []Kept(S)
<1>1. Init => Kept(S)
  BY DEF Init, Kept
<1>2. TypeOK /\ Kept(S) /\ [Next]_vars => Kept(S)'
  BY KeptStep
<1> QED BY <1>1, <1>2, TypeCorrect, PTL DEF Spec

----------------------------------------------------------------------------
(* The core of a maze is its greatest passage: what the pruning of the     *)
(* reference ends with, and all that filling in any order leaves.          *)

(* Counting the exits, as the reference does.                              *)
LEMMA TwoExits ==
    ASSUME NEW S, NEW c \in Interior
    PROVE  Exits(S, c) >= 2 <=> ~Filling!OneExit(S, c)
<1> DEFINE A == Around(c) \cap S
<1>1. IsFiniteSet(A)
  <2>1. IsFiniteSet({Below(c)})
    BY FS_Singleton
  <2>2. IsFiniteSet({Below(c)} \cup {Above(c)})
    BY <2>1, FS_AddElement
  <2>3. IsFiniteSet({Below(c)} \cup {Above(c)} \cup {RightOf(c)})
    BY <2>2, FS_AddElement
  <2>4. IsFiniteSet({Below(c)} \cup {Above(c)} \cup {RightOf(c)} \cup {LeftOf(c)})
    BY <2>3, FS_AddElement
  <2>5. A \subseteq {Below(c)} \cup {Above(c)} \cup {RightOf(c)} \cup {LeftOf(c)}
    BY DEF Around
  <2> HIDE DEF A
  <2> QED BY <2>4, <2>5, FS_Subset
<1>2. Filling!OneExit(S, c) <=> \A x, y \in A : x = y
  BY SamePlaces DEF Filling!OneExit
<1>3. Exits(S, c) = Cardinality(A)
  BY DEF Exits
<1> HIDE DEF A
<1>4. CASE \A x, y \in A : x = y
  <2>1. A = {} \/ \E x : A = {x}
    BY <1>4
  <2>2. Cardinality(A) \in {0, 1}
    BY <2>1, FS_EmptySet, FS_Singleton
  <2> QED BY <1>2, <1>3, <1>4, <2>2
<1>5. ASSUME NEW x \in A, NEW y \in A, x # y
      PROVE  Cardinality(A) >= 2
  <2>1. IsFiniteSet({x}) /\ Cardinality({x}) = 1
    BY FS_Singleton
  <2>2. Cardinality({x} \cup {y}) = 2
    <3>1. y \notin {x}
      BY <1>5
    <3>2. Cardinality({x} \cup {y}) = 1 + 1
      BY <2>1, <3>1, FS_AddElement
    <3> QED BY <3>2
  <2>3. {x} \cup {y} \subseteq A
    OBVIOUS
  <2>4. Cardinality({x} \cup {y}) <= Cardinality(A)
    BY <1>1, <2>3, FS_Subset
  <2> QED BY <1>1, <2>2, <2>4, FS_CardinalityType
<1> QED BY <1>2, <1>3, <1>4, <1>5

LEMMA PrunedPlaces ==
    ASSUME NEW S
    PROVE  /\ Pruned(S) \subseteq S
           /\ \A c \in S : c \in Pruned(S) <=> (c \in Interior => ~Filling!OneExit(S, c))
BY TwoExits DEF Pruned

(* The sets that the recursion in Core goes through.                       *)
LEMMA CoreIsPruned ==
    ASSUME NEW S \in SUBSET Cells
    PROVE  \E f \in [Nat -> SUBSET Cells] :
              /\ f[0] = S
              /\ \A n \in Nat : f[n + 1] = Pruned(f[n])
              /\ Core(S) = f[Cardinality(Interior)]
<1> DEFINE Eq(g) == g = [n \in Nat |-> IF n = 0 THEN S ELSE Pruned(g[n - 1])]
           F == [n \in Nat |-> [T \in SUBSET Cells |-> Pruned(T)]]
           g == CHOOSE g : Eq(g)
<1>1. F \in [Nat -> [SUBSET Cells -> SUBSET Cells]]
  BY PrunedPlaces
<1>2. PICK f \in [Nat -> SUBSET Cells] : f[0] = S /\ \A k \in Nat : f[k + 1] = F[k][f[k]]
  <2>1. \E f : Iterates(f, SUBSET Cells, S, F)
    <3> HIDE DEF F
    <3> QED BY <1>1, SequenceExists
  <2> QED BY <2>1 DEF Iterates
<1>3. \A k \in Nat : f[k + 1] = Pruned(f[k])
  BY <1>2
<1>4. \A n \in Nat : f[n] = IF n = 0 THEN S ELSE Pruned(f[n - 1])
  <2> SUFFICES ASSUME NEW n \in Nat, n # 0 PROVE f[n] = Pruned(f[n - 1])
    BY <1>2
  <2>1. n - 1 \in Nat /\ (n - 1) + 1 = n
    OBVIOUS
  <2> QED BY <1>3, <2>1
<1>5. f = [n \in Nat |-> IF n = 0 THEN S ELSE Pruned(f[n - 1])]
  BY <1>2, <1>4
<1>6. Eq(g)
  <2>1. Eq(f)
    BY <1>5
  <2> HIDE DEF Eq
  <2> QED BY <2>1
<1>7. Core(S) = g[Cardinality(Interior)]
  BY DEF Core
<1> HIDE DEF g
<1>8. g[0] = S /\ \A n \in Nat : g[n + 1] = Pruned(g[n])
  <2>1. g[0] = S
    BY <1>6
  <2>2. ASSUME NEW n \in Nat PROVE g[n + 1] = Pruned(g[n])
    <3>1. n + 1 \in Nat /\ n + 1 # 0 /\ (n + 1) - 1 = n
      OBVIOUS
    <3> QED BY <1>6, <3>1
  <2> QED BY <2>1, <2>2
<1>9. \A n \in Nat : g[n] \in SUBSET Cells
  <2> DEFINE P == {n \in Nat : g[n] \in SUBSET Cells}
  <2>1. 0 \in P
    BY <1>8
  <2>2. \A n \in Nat : n \in P => n + 1 \in P
    BY <1>8, PrunedPlaces
  <2> HIDE DEF P
  <2>3. \A n \in Nat : n \in P
    BY <2>1, <2>2, Induction
  <2> QED BY <2>3 DEF P
<1>10. g \in [Nat -> SUBSET Cells]
  BY <1>6, <1>9
<1> QED BY <1>7, <1>8, <1>10

(* Every pruning that changes anything takes a place out of the inside, so *)
(* as many as there are places inside are enough to change nothing more.   *)
LEMMA PruningEnds ==
    ASSUME NEW S \in SUBSET Cells
    PROVE  Core(S) \subseteq S /\ Pruned(Core(S)) = Core(S)
<1>1. PICK f \in [Nat -> SUBSET Cells] :
              /\ f[0] = S
              /\ \A n \in Nat : f[n + 1] = Pruned(f[n])
              /\ Core(S) = f[Cardinality(Interior)]
  BY CoreIsPruned
<1> DEFINE N == Cardinality(Interior)
           Gone(n) == Interior \ f[n]
           P == {n \in Nat : f[n] \subseteq S /\ (Pruned(f[n]) = f[n] \/ Cardinality(Gone(n)) >= n)}
<1>2. IsFiniteSet(Interior) /\ N \in Nat
  <2>1. IsFiniteSet(1 .. Size - 2)
    BY FS_Interval, GridAssumption
  <2>2. IsFiniteSet(Interior)
    BY <2>1, FS_Product DEF Interior
  <2> QED BY <2>2, FS_CardinalityType
<1>3. ASSUME NEW n \in Nat
      PROVE  IsFiniteSet(Gone(n)) /\ Cardinality(Gone(n)) \in Nat
  BY <1>2, FS_Subset, FS_CardinalityType
<1>4. 0 \in P
  <2>1. f[0] \subseteq S
    BY <1>1
  <2>2. Cardinality(Gone(0)) >= 0
    <3> HIDE DEF Gone
    <3>1. Cardinality(Gone(0)) \in Nat
      BY <1>3
    <3> QED BY <3>1
  <2> HIDE DEF Gone
  <2> QED BY <2>1, <2>2
<1>5. ASSUME NEW n \in Nat, n \in P PROVE n + 1 \in P
  <2>1. f[n + 1] = Pruned(f[n]) /\ f[n] \subseteq S /\ n + 1 \in Nat
    BY <1>1, <1>5
  <2>2. f[n + 1] \subseteq f[n] /\ f[n + 1] \subseteq S
    BY <2>1, PrunedPlaces
  <2>3. CASE Pruned(f[n]) = f[n]
    BY <2>1, <2>2, <2>3
  <2>4. CASE Pruned(f[n]) # f[n]
    <3>1. PICK c \in f[n] : c \notin f[n + 1]
      BY <2>1, <2>2, <2>4
    <3>2. c \in Interior
      BY <2>1, <3>1, PrunedPlaces
    <3>3. Gone(n) \cup {c} \subseteq Gone(n + 1) /\ c \notin Gone(n)
      BY <2>2, <3>1, <3>2
    <3>4. Cardinality(Gone(n) \cup {c}) = Cardinality(Gone(n)) + 1
      <4> HIDE DEF Gone
      <4> QED BY <1>3, <3>3, FS_AddElement
    <3>5. Cardinality(Gone(n) \cup {c}) <= Cardinality(Gone(n + 1))
      <4> HIDE DEF Gone
      <4> QED BY <1>3, <2>1, <3>3, FS_Subset
    <3>6. Cardinality(Gone(n)) >= n
      BY <1>5, <2>4
    <3>7. Cardinality(Gone(n + 1)) >= n + 1
      <4> HIDE DEF Gone
      <4> QED BY <1>3, <2>1, <3>4, <3>5, <3>6
    <3> QED BY <2>1, <2>2, <3>7
  <2> QED BY <2>3, <2>4
<1>6. N \in P
  <2> HIDE DEF P, N
  <2> QED BY <1>2, <1>4, <1>5, Induction
<1>7. CASE Pruned(f[N]) = f[N]
  BY <1>1, <1>6, <1>7
<1>8. CASE Cardinality(Gone(N)) >= N
  <2>1. Gone(N) \subseteq Interior
    OBVIOUS
  <2>2. Gone(N) = Interior
    <3>1. Cardinality(Gone(N)) <= N /\ (Cardinality(Gone(N)) = N => Gone(N) = Interior)
      BY <1>2, <2>1, FS_Subset
    <3> HIDE DEF Gone
    <3> QED BY <1>2, <1>3, <1>8, <3>1
  <2>3. Pruned(f[N]) = f[N]
    BY <2>2, PrunedPlaces
  <2> QED BY <1>1, <1>6, <2>3
<1> QED BY <1>6, <1>7, <1>8

(* The core is a passage, and every passage of the maze is within it.      *)
THEOREM CoreIsGreatestPassage ==
    ASSUME NEW S \in SUBSET Cells
    PROVE  /\ Filling!Passage(Core(S)) /\ Core(S) \subseteq S
           /\ \A T \in SUBSET S : Filling!Passage(T) => T \subseteq Core(S)
<1>1. Core(S) \subseteq S /\ Pruned(Core(S)) = Core(S)
  BY PruningEnds
<1>2. Filling!Passage(Core(S))
  BY <1>1, PrunedPlaces, SamePlaces DEF Filling!Passage
<1>3. ASSUME NEW T \in SUBSET S, Filling!Passage(T) PROVE T \subseteq Core(S)
  <2>1. PICK f \in [Nat -> SUBSET Cells] :
              /\ f[0] = S
              /\ \A n \in Nat : f[n + 1] = Pruned(f[n])
              /\ Core(S) = f[Cardinality(Interior)]
    BY CoreIsPruned
  <2> DEFINE P == {n \in Nat : T \subseteq f[n]}
  <2>2. 0 \in P
    BY <2>1
  <2>3. ASSUME NEW n \in Nat, n \in P PROVE n + 1 \in P
    <3>1. \A c \in T \cap Interior : ~Filling!OneExit(f[n], c)
      BY <1>3, <2>3, SamePlaces DEF Filling!Passage, Filling!OneExit
    <3> QED BY <2>1, <2>3, <3>1, PrunedPlaces
  <2>4. \A n \in Nat : n \in P
    <3> HIDE DEF P
    <3> QED BY <2>2, <2>3, Induction
  <2>5. Cardinality(Interior) \in Nat
    <3>1. IsFiniteSet(1 .. Size - 2)
      BY FS_Interval, GridAssumption
    <3>2. IsFiniteSet(Interior)
      BY <3>1, FS_Product DEF Interior
    <3> QED BY <3>2, FS_CardinalityType
  <2> QED BY <2>1, <2>4, <2>5
<1> QED BY <1>1, <1>2, <1>3

(* Nothing that was a wall is opened.                                      *)
OpenShrinks == Open(m) \subseteq Open(first)

LEMMA ShrinksInit == Init => OpenShrinks
BY DEF Init, OpenShrinks

LEMMA ShrinksStep == TypeOK /\ OpenShrinks /\ [Next]_vars => OpenShrinks'
<1> SUFFICES ASSUME TypeOK, OpenShrinks, [Next]_vars PROVE OpenShrinks'
  OBVIOUS
<1>1. first' = first /\ \A c \in Cells : m'[c] = 0 => m[c] = 0
  BY DEF Next, Fill, Leave, EndPass, vars, TypeOK
<1> QED BY <1>1 DEF Open, OpenShrinks

(* main.c:49-74.  In every maze of every size, what the loop leaves open   *)
(* is what the reference leaves: neither the order of the scan nor its     *)
(* working in place makes a difference.                                    *)
THEOREM OnlyTheCoreIsLeft == Spec => []LeavesTheCore
<1> DEFINE Between == OpenShrinks /\ \A T : Filling!Passage(T) => Kept(T)
<1>1. Init => Between
  BY ShrinksInit DEF Init, Kept
<1>2. TypeOK /\ Between /\ [Next]_vars => Between'
  <2> SUFFICES ASSUME TypeOK, Between, [Next]_vars PROVE Between'
    OBVIOUS
  <2>1. \A T : Filling!Passage(T) => Kept(T)'
    BY KeptStep
  <2> QED BY <2>1, ShrinksStep
<1>3. TypeOK /\ Between /\ NoDeadEndLeft => LeavesTheCore
  <2> SUFFICES ASSUME TypeOK, Between, NoDeadEndLeft, pc = "done"
               PROVE  Open(m) = Core(Open(first))
    BY DEF LeavesTheCore
  <2>1. Open(first) \in SUBSET Cells /\ Open(m) \in SUBSET Open(first)
    BY DEF Open, OpenShrinks
  <2>2. Filling!Passage(Open(m))
    BY SamePlaces DEF NoDeadEndLeft, Filling!Passage, Open
  <2>3. Open(m) \subseteq Core(Open(first))
    BY <2>1, <2>2, CoreIsGreatestPassage
  <2>4. Kept(Core(Open(first))) /\ Core(Open(first)) \subseteq Open(first)
    BY <2>1, CoreIsGreatestPassage
  <2> QED BY <2>3, <2>4 DEF Kept
<1> QED BY <1>1, <1>2, <1>3, TypeCorrect, EndsWithoutDeadEnds, PTL DEF Spec

(* DeadEnds alone: in whatever order the dead ends of a maze with the open  *)
(* places S are walled up, the same places are left when none remains.     *)
THEOREM OrderDoesNotMatter ==
    ASSUME NEW S \in SUBSET Cells
    PROVE  Open(m) = S /\ Filling!Spec =>
             []((\A c \in Interior : m[c] = 0 => ~Filling!OneExit(Open(m), c)) => Open(m) = Core(S))
<1>. DEFINE K == Core(S)
            Left == m \in [Cells -> {0, 1}] /\ Open(m) \subseteq S /\ K \subseteq Open(m)
            NoneLeft == \A c \in Interior : m[c] = 0 => ~Filling!OneExit(Open(m), c)
<1>1. Filling!Passage(K) /\ K \subseteq S /\ \A T \in SUBSET S : Filling!Passage(T) => T \subseteq K
  BY CoreIsGreatestPassage
<1>. HIDE DEF K
<1>2. Open(m) = S /\ Filling!Init => Left
  BY <1>1, SamePlaces DEF Filling!Init
<1>3. Left /\ [Filling!Next]_m => Left'
  <2>. SUFFICES ASSUME Left, [Filling!Next]_m PROVE Left'
    OBVIOUS
  <2>1. CASE UNCHANGED m
    BY <2>1 DEF Open
  <2>2. CASE Filling!Next
    <3>1. PICK c \in Interior : Filling!WallUp(c)
      BY <2>2, SamePlaces DEF Filling!Next
    <3>2. /\ c \in Cells /\ m[c] = 0 /\ Filling!OneExit(Open(m), c) /\ m' = [m EXCEPT ![c] = 1]
      BY <3>1, InteriorIsInside, SamePlaces DEF Filling!WallUp
    <3>3. c \notin K
      <4>. SUFFICES ASSUME c \in K PROVE FALSE
        OBVIOUS
      <4>1. ~Filling!OneExit(K, c)
        BY <1>1, SamePlaces DEF Filling!Passage
      <4>. QED BY <3>2, <4>1 DEF Filling!OneExit
    <3>4. m' \in [Cells -> {0, 1}] /\ Open(m') = Open(m) \ {c}
      BY <3>2 DEF Open
    <3>. QED BY <3>3, <3>4
  <2>. QED BY <2>1, <2>2
<1>4. Left /\ NoneLeft => Open(m) = K
  <2>. SUFFICES ASSUME Left, NoneLeft PROVE Open(m) = K
    OBVIOUS
  <2>1. Filling!Passage(Open(m)) /\ Open(m) \in SUBSET S
    BY SamePlaces DEF Filling!Passage, Open
  <2>. QED BY <1>1, <2>1
<1>. HIDE DEF Left, NoneLeft
<1>5. Open(m) = S /\ Filling!Spec => [](NoneLeft => Open(m) = K)
  BY <1>2, <1>3, <1>4, PTL DEF Filling!Spec
<1>. QED BY <1>5 DEF NoneLeft, K

-----------------------------------------------------------------------------
(* How often the scan is repeated.                                         *)

(* What has been walled up since the maze was read.                        *)
WalledUp == Open(first) \ Open(m)

(* A pass that has changed something has walled up a place of its own.     *)
PassesInv ==
    /\ IsFiniteSet(WalledUp)
    /\ pc = "scan" => count + (IF isChanged THEN 1 ELSE 0) <= Cardinality(WalledUp)
    /\ PassesBounded

LEMMA PassesInit == Init => PassesInv
<1>. SUFFICES ASSUME Init PROVE PassesInv
  OBVIOUS
<1>1. WalledUp = {}
  BY DEF Init, WalledUp
<1>2. IsFiniteSet(WalledUp) /\ Cardinality(WalledUp) = 0
  BY <1>1, FS_EmptySet
<1>. QED BY <1>2 DEF Init, PassesInv, PassesBounded, WalledUp

LEMMA PassesStep == TypeOK /\ OpenShrinks /\ PassesInv /\ [Next]_vars => PassesInv'
<1>. SUFFICES ASSUME TypeOK, OpenShrinks, PassesInv, [Next]_vars PROVE PassesInv'
  OBVIOUS
<1>. DEFINE n == Cardinality(WalledUp)
<1>1. n \in Nat /\ count \in Nat /\ isChanged \in BOOLEAN
  BY FS_CardinalityType DEF PassesInv, TypeOK
<1>2. CASE Fill
  <2>1. pc = "scan" /\ pc' = "scan" /\ count' = count /\ isChanged' = TRUE
    BY <1>2 DEF Fill, Scanning
  <2>2. WalledUp' = WalledUp \cup {<<i, j>>} /\ <<i, j>> \notin WalledUp
    <3>1. /\ <<i, j>> \in Cells /\ m[<<i, j>>] = 0 /\ first' = first
          /\ m' = [m EXCEPT ![<<i, j>>] = 1] /\ m \in [Cells -> {0, 1}]
      BY <1>2, ScannedIsInterior, InteriorIsInside DEF Fill, TypeOK
    <3>2. Open(m)' = Open(m) \ {<<i, j>>} /\ <<i, j>> \in Open(m)
      BY <3>1 DEF Open
    <3>3. Open(first)' = Open(first) /\ <<i, j>> \in Open(first)
      BY <3>1, <3>2 DEF Open, OpenShrinks
    <3>. QED BY <3>2, <3>3 DEF WalledUp
  <2>3. IsFiniteSet(WalledUp') /\ Cardinality(WalledUp') = n + 1
    BY <2>2, FS_AddElement DEF PassesInv
  <2>4. count + 1 <= n + 1
    BY <1>1, <2>1 DEF PassesInv
  <2>. QED BY <1>1, <2>1, <2>3, <2>4 DEF PassesInv, PassesBounded, WalledUp
<1>3. CASE Leave
  <2>1. /\ pc = "scan" /\ pc' = pc /\ count' = count /\ isChanged' = isChanged
        /\ WalledUp' = WalledUp /\ PassesBounded' = PassesBounded
    BY <1>3 DEF Leave, Scanning, WalledUp, PassesBounded
  <2>. QED BY <2>1 DEF PassesInv
<1>4. CASE EndPass
  <2>1. /\ pc = "scan" /\ count' = count + 1 /\ m' = m /\ first' = first
        /\ IF isChanged THEN isChanged' = FALSE /\ pc' = pc ELSE pc' = "done"
    BY <1>4 DEF EndPass
  <2>2. WalledUp' = WalledUp
    BY <2>1 DEF WalledUp
  <2>3. count + (IF isChanged THEN 1 ELSE 0) <= n
    BY <2>1 DEF PassesInv
  <2>. QED BY <1>1, <2>1, <2>2, <2>3 DEF PassesInv, PassesBounded, WalledUp
<1>5. CASE UNCHANGED vars
  BY <1>5 DEF vars, PassesInv, PassesBounded, WalledUp
<1>. QED BY <1>2, <1>3, <1>4, <1>5 DEF Next

(* The scan of a maze of any size is repeated no more often than there are *)
(* places to wall up: each pass but the last has walled up one.            *)
THEOREM PassesAreBounded == Spec => []PassesBounded
<1>1. PassesInv => PassesBounded
  BY DEF PassesInv
<1>. QED BY <1>1, TypeInit, TypeStep, ShrinksInit, ShrinksStep, PassesInit, PassesStep, PTL DEF Spec
=============================================================================
