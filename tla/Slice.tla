------------------------------- MODULE Slice -------------------------------
(***************************************************************************)
(* slice.cpp: the fewest straight cuts, each along a whole piece, that     *)
(* take a board of m by n apart into unit squares.  The table M is filled  *)
(* row by row, each entry from entries filled before it.                   *)
(***************************************************************************)
EXTENDS Integers, FiniteSetsExt

CONSTANTS
    MAX,    \* the table has MAX rows and columns, the first of each unused
    INF,    \* more cuts than any board of the table needs
    Sides   \* the numbers that may be typed in

ASSUME SliceAssumption ==
    /\ MAX \in Nat \ {0}
    /\ INF \in Nat /\ MAX * MAX <= INF
    /\ Sides \subseteq Int

VARIABLES
    M,          \* the table
    row, col,   \* the entry the loops of main() are at: i and j
    asked,      \* the board asked for; NoBoard: none yet
    answer      \* what is printed, in brackets; Garbage: read outside the table

sliceVars == <<M, row, col, asked, answer>>

NoBoard == <<>>
Garbage == <<>>
Index == 0 .. MAX - 1

SliceInit ==
    /\ M = [a \in Index |-> [b \in Index |-> 0]]
    /\ row = 1
    /\ col = 1
    /\ asked = NoBoard
    /\ answer = Garbage

(* Mutant: the loops of actualize() start at 0 as those over arrays do.    *)
CutRowsFromZero(x, y) == {M[k][y] + M[x - k][y] + 1 : k \in 0 .. x - 1}

(* What the two loops of actualize() take the minimum of.                  *)
CutRows(x, y) == {M[k][y] + M[x - k][y] + 1 : k \in 1 .. x - 1}
CutColumns(x, y) == {M[x][k] + M[x][y - k] + 1 : k \in 1 .. y - 1}

actualize(x, y) == [M EXCEPT ![x][y] = Min({INF} \cup CutRows(x, y) \cup CutColumns(x, y))]

Filling == row < MAX

FillEntry ==
    /\ Filling
    /\ M' = IF row = 1 /\ col = 1 THEN M ELSE actualize(row, col)
    /\ col' = IF col + 1 < MAX THEN col + 1 ELSE 1
    /\ row' = IF col + 1 < MAX THEN row ELSE row + 1
    /\ UNCHANGED <<asked, answer>>

(* m and n are used as they are typed.                                     *)
Ask ==
    /\ ~Filling
    /\ asked = NoBoard
    /\ \E m, n \in Sides :
        /\ asked' = <<m, n>>
        /\ answer' = IF m \in Index /\ n \in Index THEN <<M[m][n]>> ELSE Garbage
    /\ UNCHANGED <<M, row, col>>

SliceNext == FillEntry \/ Ask

SliceSpec == SliceInit /\ [][SliceNext]_sliceVars

----------------------------------------------------------------------------
Filled(x, y) == x < row \/ (x = row /\ y < col)
Board == 1 .. MAX - 1

(* slice.cpp:11.  Every cut makes one piece more, so a board of x by y     *)
(* takes x * y - 1 cuts in whatever order: each entry that has been filled *)
(* holds that, and so does the answer for a board the table has.           *)
FewestCuts ==
    /\ \A x, y \in Board : Filled(x, y) => M[x][y] = x * y - 1
    /\ \A m, n \in Board : asked = <<m, n>> => answer = <<m * n - 1>>
=============================================================================
