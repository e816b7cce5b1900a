------------------------------- MODULE MCMaze -------------------------------
(* Maze on every maze of four by four characters that has one way in, at   *)
(* most: through its top row or its left column over a blank last row, or  *)
(* through a last row that the file has a line for.                        *)
EXTENDS Maze

Border == {c \in Cells : (c[1] = 0 \/ c[2] = 0) /\ c[1] < Size - 1 /\ c[2] < Size - 1}
LastRow == {c \in Cells : c[1] = Size - 1}
Outside == {c \in Cells : c[2] \in {Size - 1, Cut}}

AtMostOne(S) == {{}} \cup {{c} : c \in S}
MazeOf(open) == [c \in Cells |-> IF c \in open \cup Outside THEN 0 ELSE 1]

MCMazes ==
    {MazeOf(inside \cup way) : inside \in SUBSET Interior,
         way \in {w \cup LastRow : w \in AtMostOne(Border)} \cup AtMostOne(LastRow \ Outside)}

MCInit == m \in MCMazes /\ Init

MCSpec == MCInit /\ [][Next]_vars /\ WF_vars(Next)
=============================================================================
