-------------------------- MODULE MCMultiTransfer --------------------------
(* MultiTransfer on small instances: the files and the ether types they   *)
(* are sent with.  Sizes are bytes.                                        *)
EXTENDS MultiTransfer, SequencesExt

CONSTANTS newaa, newab, short, longer, eight, third

(* newaa, newab: the halves of one file, 3250 bytes cut by 1000.           *)
(* short, longer: the halves of 2001 bytes, in one and in two fragments.   *)
(* eight: enough fragments for a reallocated table to keep some of them.   *)
(* third: sent on the third ether type.                                    *)
MCSizes ==
    newaa :> <<1000, 625>> @@ newab :> <<1000, 625>> @@ short :> <<1000>> @@
    longer :> <<1000, 1>> @@
    eight :> [i \in 1 .. 8 |-> 100] @@ third :> <<1000>>

MC_fragment_size == [f \in Files |-> MCSizes[f]]
MC_fragment_count == [f \in Files |-> Len(MCSizes[f])]
MC_file_size == [f \in Files |-> FoldSeq(LAMBDA x, y : x + y, 0, MCSizes[f])]
(* eight is sent in two orders only: its 40320 shuffles are too many.       *)
MC_shuffles == [f \in Files |->
    IF f = eight THEN {[i \in 1 .. 8 |-> i], [i \in 1 .. 8 |-> 9 - i]} ELSE SetToSeqs(1 .. MC_fragment_count[f])]
MC_socket_of == [f \in Files |-> CASE f \in {newab, longer, eight} -> 1 [] f = third -> 2 [] OTHER -> 0]

AllSenders == {Files}
=============================================================================
