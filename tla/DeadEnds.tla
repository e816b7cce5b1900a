------------------------------ MODULE DeadEnds ------------------------------
(***************************************************************************)
(* What solve_dead_end_fill() promises: open places with one exit at most  *)
(* are walled up, in any order, and nothing else changes.                  *)
(***************************************************************************)
EXTENDS MazeGrid

VARIABLE m

(* At most one of the places around c is in S.                             *)
OneExit(S, c) == \A a, b \in Around(c) \cap S : a = b

Init == m \in [Cells -> {0, 1}]

WallUp(c) ==
    /\ m[c] = 0
    /\ OneExit(Open(m), c)
    /\ m' = [m EXCEPT ![c] = 1]

Next == \E c \in Interior : WallUp(c)

Spec == Init /\ [][Next]_m

(* A set of places one can walk on for ever: each of them that is not on   *)
(* the border has two exits within the set.  A path from border to border  *)
(* is one, and so is a loop.                                               *)
Passage(S) ==
    /\ S \subseteq Cells
    /\ \A c \in S \cap Interior : ~OneExit(S, c)
=============================================================================
