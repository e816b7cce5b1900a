------------------------------ MODULE MazeGrid ------------------------------
(* The square of characters that maze/main.c works on, and its neighbours. *)
EXTENDS Integers

CONSTANTS Size,   \* what getline() returns: the width of a line, newline included
          Cut     \* the column main() writes a NUL to in every line: 63

(* In a narrower maze that NUL is written past the line: not modelled.     *)
ASSUME GridAssumption == Size \in Nat /\ Size >= 3 /\ Cut \in 0 .. Size - 1

Cells == (0 .. Size - 1) \X (0 .. Size - 1)
Interior == (1 .. Size - 2) \X (1 .. Size - 2)

Below(c) == <<c[1] + 1, c[2]>>
Above(c) == <<c[1] - 1, c[2]>>
RightOf(c) == <<c[1], c[2] + 1>>
LeftOf(c) == <<c[1], c[2] - 1>>

Around(c) == {Below(c), Above(c), RightOf(c), LeftOf(c)}

(* m[c] is 1 for a wall.                                                   *)
Open(m) == {c \in Cells : m[c] = 0}
=============================================================================
