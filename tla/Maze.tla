-------------------------------- MODULE Maze --------------------------------
(***************************************************************************)
(* solve_dead_end_fill() of maze/main.c: passes over the inner places, row *)
(* by row, each walling up the dead ends it meets in the same array it     *)
(* goes on reading, until a pass changes nothing.                          *)
(***************************************************************************)
EXTENDS MazeGrid, FiniteSets

VARIABLES m, i, j,
          isChanged,   \* whether this pass has walled up a place
          count,       \* passes done
          pc,          \* "scan" | "done"
          first        \* history: the maze as it was read

vars == <<m, i, j, isChanged, count, pc, first>>

(* What main() reads: any walls, but the line's newline is the last column *)
(* and the NUL is in column Cut.  The last row is the blank of the read    *)
(* that finds the end of the file, or a line that lacks its newline.       *)
Readable(maze) == \A c \in Cells : c[2] \in {Size - 1, Cut} => maze[c] = 0

Init ==
    /\ m \in [Cells -> {0, 1}]
    /\ Readable(m)
    /\ first = m
    /\ i = 1 /\ j = 1
    /\ isChanged = FALSE
    /\ count = 0
    /\ pc = "scan"

----------------------------------------------------------------------------
(* Mutant: a corner is taken for a dead end.                               *)
Corner(c) == m[Below(c)] + m[RightOf(c)] = 2

(* The four tests of the loop body, each on three of the four neighbours.  *)
DeadEnd(c) ==
    \/ m[Below(c)] + m[Above(c)] + m[RightOf(c)] = 3
    \/ m[Below(c)] + m[Above(c)] + m[LeftOf(c)] = 3
    \/ m[RightOf(c)] + m[LeftOf(c)] + m[Below(c)] = 3
    \/ m[RightOf(c)] + m[LeftOf(c)] + m[Above(c)] = 3

(* The steps of the two inner loops.                                       *)
Advance ==
    IF j < Size - 2 THEN j' = j + 1 /\ i' = i
                    ELSE j' = 1 /\ i' = i + 1

Scanning == pc = "scan" /\ i < Size - 1

(* Mutant: the fill is not recorded.                                       *)
FillQuietly ==
    /\ Scanning
    /\ m[<<i, j>>] = 0 /\ DeadEnd(<<i, j>>)
    /\ m' = [m EXCEPT ![<<i, j>>] = 1]
    /\ Advance
    /\ UNCHANGED <<isChanged, count, pc, first>>

Fill ==
    /\ Scanning
    /\ m[<<i, j>>] = 0 /\ DeadEnd(<<i, j>>)
    /\ m' = [m EXCEPT ![<<i, j>>] = 1]
    /\ isChanged' = TRUE
    /\ Advance
    /\ UNCHANGED <<count, pc, first>>

Leave ==
    /\ Scanning
    /\ ~(m[<<i, j>>] = 0 /\ DeadEnd(<<i, j>>))
    /\ Advance
    /\ UNCHANGED <<m, isChanged, count, pc, first>>

(* Mutants: the next pass starts at the border; isChanged is not reset.    *)
RestartAtBorder ==
    /\ pc = "scan" /\ i = Size - 1
    /\ count' = count + 1
    /\ IF isChanged THEN i' = 0 /\ j' = 1 /\ isChanged' = FALSE /\ pc' = pc
                    ELSE pc' = "done" /\ UNCHANGED <<i, j, isChanged>>
    /\ UNCHANGED <<m, first>>

NoReset ==
    /\ pc = "scan" /\ i = Size - 1 /\ count < Size * Size
    /\ count' = count + 1
    /\ IF isChanged THEN i' = 1 /\ j' = 1 /\ pc' = pc
                    ELSE pc' = "done" /\ UNCHANGED <<i, j>>
    /\ UNCHANGED <<m, isChanged, first>>

EndPass ==
    /\ pc = "scan" /\ i = Size - 1
    /\ count' = count + 1
    /\ IF isChanged THEN i' = 1 /\ j' = 1 /\ isChanged' = FALSE /\ pc' = pc
                    ELSE pc' = "done" /\ UNCHANGED <<i, j, isChanged>>
    /\ UNCHANGED <<m, first>>

Next == Fill \/ Leave \/ EndPass

Spec == Init /\ [][Next]_vars

FairSpec == Spec /\ WF_vars(Next)

----------------------------------------------------------------------------
(* Every variable keeps its type, and the scan stays off the border.       *)
TypeOK ==
    /\ m \in [Cells -> {0, 1}]
    /\ first \in [Cells -> {0, 1}]
    /\ i \in 1 .. Size - 1
    /\ j \in 1 .. Size - 2
    /\ isChanged \in BOOLEAN
    /\ count \in Nat
    /\ pc \in {"scan", "done"}

Filling == INSTANCE DeadEnds

(* Every step walls up one dead end of the abstract filling, or nothing.   *)
ImplementsDeadEnds == Filling!Spec

(* Where the scan has been in this pass.                                   *)
Behind(c) == c[1] < i \/ (c[1] = i /\ c[2] < j)

(* As long as a pass has changed nothing, there is no dead end behind it.  *)
NoneBehind ==
    ~isChanged => \A c \in Interior :
                    Behind(c) /\ m[c] = 0 => ~Filling!OneExit(Open(m), c)

(* The scan stops only at the end of a pass that has changed nothing.      *)
StopsUnchanged == pc = "done" => i = Size - 1 /\ ~isChanged

IInv == TypeOK /\ NoneBehind /\ StopsUnchanged

(* main.c:49-74.  When the loop ends no dead end is left anywhere, the     *)
(* ones a fill behind the scan has made included.                          *)
NoDeadEndLeft ==
    pc = "done" => \A c \in Interior : m[c] = 0 => ~Filling!OneExit(Open(m), c)

(* The reference: all dead ends of a maze removed at once, again and again.*)
Exits(S, c) == Cardinality(Around(c) \cap S)

Pruned(S) == {c \in S : c \in Interior => Exits(S, c) >= 2}

Core(S) ==
    LET pruned[n \in Nat] == IF n = 0 THEN S ELSE Pruned(pruned[n - 1])
    IN  pruned[Cardinality(Interior)]

(* The result does not depend on the order of the scan or on its working   *)
(* in place: it is what the reference leaves.                              *)
LeavesTheCore == pc = "done" => Open(m) = Core(Open(first))

(* main.c:49-76.  Every pass but the last has walled up a place that was   *)
(* open when the maze was read.                                            *)
PassesBounded ==
    count <= Cardinality(Open(first) \ Open(m)) + (IF pc = "done" THEN 1 ELSE 0)

(* The loop ends.                                                          *)
Terminates == <>(pc = "done")
=============================================================================
