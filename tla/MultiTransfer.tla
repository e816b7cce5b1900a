--------------------------- MODULE MultiTransfer ---------------------------
(***************************************************************************)
(* MultiCapture behind its raw sockets: one tx_file sender per ether type, *)
(* the wire and the socket queues of TxFile, and capture_file() blocking   *)
(* on one socket at a time.                                                *)
(***************************************************************************)
EXTENDS MultiCapture, TxFile

CONSTANT LinkMayDrop  \* TRUE: the interface may go down, failing recv

ASSUME TransferAssumption ==
    /\ Sockets = Channels
    /\ LinkMayDrop \in BOOLEAN

tvars == <<vars, txVars>>

TransferInit == Init /\ TxInit

(* recv takes the head of the queue of socket k, or blocks.                *)
Receive ==
    /\ k \in Channels
    /\ \E fr \in Frames : Take(k, fr) /\ Recv(fr)

(* The interface is down: recv returns -1 with ENETDOWN.                   *)
LinkDown ==
    /\ LinkMayDrop
    /\ ScanFails \/ RecvFails
    /\ UNCHANGED txVars

Conclude == WriteFile /\ UNCHANGED txVars

Environment == TxNext /\ UNCHANGED vars

TransferNext == Receive \/ LinkDown \/ Conclude \/ Environment

TransferSpec == TransferInit /\ [][TransferNext]_tvars

(* The receiver runs whenever the socket it reads has a frame.  A sender   *)
(* keeps sending, and the wire may lose or damage a fragment any number of *)
(* times but not for ever.                                                 *)
GoodSend(f, i) == Next_index(f) = i /\ Send(f, "intact") /\ UNCHANGED vars

AnySend(f) ==
    /\ \E d \in {"intact", "garbled"} : Send(f, d) \/ Lose(f) \/ ExitOnEmpty(f)
    /\ UNCHANGED vars

FairTransferSpec ==
    /\ TransferSpec
    /\ WF_tvars(Receive \/ Conclude)
    /\ \A f \in Files : WF_tvars(AnySend(f))
    /\ \A f \in Files : \A i \in 1 .. fragment_count[f] : SF_tvars(GoodSend(f, i))

----------------------------------------------------------------------------
(* The file written is the concatenation of the files sent, in the order   *)
(* of the ether types on the command line: every fragment of each, in its  *)
(* place.                                                                  *)
ConcatenatesTheFiles ==
    pc = "completed" =>
        \A c \in Channels : \E f \in Files :
            /\ socket_of[f] = c
            /\ DOMAIN out[c] = 1 .. fragment_count[f]
            /\ \A i \in DOMAIN out[c] : out[c][i].filename = f /\ out[c][i].index = i

(* Once the first frame is in, a download whose senders keep sending ends  *)
(* with the file written.                                                  *)
TransferEnds == pc = "loop" ~> pc = "completed"

(* README.txt: "utilize poll to get data from both side".  A frame that    *)
(* reached a socket is read, whatever happens on the other socket.         *)
ReadsEverySide ==
    \A s \in Channels : queue[s] # <<>> ~> (queue[s] = <<>> \/ pc \notin {"scan", "loop"})

(* README.txt: the md5sum of the outcome is that of the file that was      *)
(* split.  Every fragment written is the fragment sent.                    *)
OutcomeIntact ==
    pc = "completed" =>
        \A c \in Channels : \A i \in DOMAIN out[c] :
            \E f \in Files : socket_of[f] = c /\ out[c][i] = Original(f, i)

(* README.txt: the halves made by split -n 2, sent on two ether types, are *)
(* received.  No sequence of frames of the two senders makes the receiver  *)
(* leave its memory.                                                       *)
StaysInBounds == pc # "undefined"
=============================================================================
