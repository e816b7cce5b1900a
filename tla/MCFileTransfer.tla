--------------------------- MODULE MCFileTransfer ---------------------------
(* FileTransfer on small instances.  Sizes are bytes, as tx_file cuts them. *)
EXTENDS FileTransfer, SequencesExt

CONSTANTS three, one, jumbo, exact, eth0

(* three: 2500 bytes cut by 1000.  one: a single fragment.                 *)
(* jumbo: 3150 bytes cut by 1600, on a link that carries such frames; its  *)
(* first fragment is over the size limit, its second is cut by recv.       *)
(* exact: 1000 bytes cut by 500, with the empty fragment tx_file adds.     *)
MCSizes ==
    three :> <<1000, 1000, 500>> @@ one :> <<400>> @@
    jumbo :> <<1600, 1550>>      @@ exact :> <<500, 500, 0>>

MC_fragment_size == [f \in Files |-> MCSizes[f]]
MC_fragment_count == [f \in Files |-> Len(MCSizes[f])]
MC_file_size == [f \in Files |-> FoldSeq(LAMBDA x, y : x + y, 0, MCSizes[f])]
MC_shuffles == [f \in Files |-> SetToSeqs(1 .. MC_fragment_count[f])]
MC_socket_of == [f \in Files |-> eth0]

(* One sender at a time.                                                   *)
OneSender == {{f} : f \in Files}

(* Two senders on the same ether type, or one alone.                       *)
AnySenders == {{f, g} : f, g \in Files}
=============================================================================
