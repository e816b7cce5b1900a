---------------------------- MODULE FileTransfer ----------------------------
(***************************************************************************)
(* FileCapture behind its raw socket: tx_file senders, the wire and the    *)
(* socket queue of TxFile, and capture_file() reading from that queue.     *)
(***************************************************************************)
EXTENDS FileCapture, TxFile

CONSTANT Socket,      \* the one raw socket
         LinkMayDrop  \* TRUE: the interface may go down, failing recv

ASSUME SocketAssumption == Sockets = {Socket} /\ LinkMayDrop \in BOOLEAN

tvars == <<vars, txVars>>

TransferInit == Init /\ TxInit

(* recv takes the head of the queue, or blocks.                            *)
Receive ==
    \E fr \in Frames : Take(Socket, fr) /\ Recv(fr)

(* The interface is down: recv returns -1 with ENETDOWN.                   *)
LinkDown ==
    /\ LinkMayDrop
    /\ FirstRecvFails \/ RecvFails
    /\ UNCHANGED txVars

Conclude == Finish /\ UNCHANGED txVars

Environment == TxNext /\ UNCHANGED vars

TransferNext == Receive \/ LinkDown \/ Conclude \/ Environment

TransferSpec == TransferInit /\ [][TransferNext]_tvars

(* The receiver runs whenever its socket has a frame.  A sender keeps      *)
(* sending, and the wire may lose or damage a fragment any number of times *)
(* but not for ever.                                                       *)
GoodSend(f, i) == Next_index(f) = i /\ Send(f, "intact") /\ UNCHANGED vars

AnySend(f) ==
    /\ \E d \in {"intact", "garbled"} : Send(f, d) \/ Lose(f) \/ ExitOnEmpty(f)
    /\ UNCHANGED vars

FairTransferSpec ==
    /\ TransferSpec
    /\ WF_tvars(Receive \/ Conclude)
    /\ \A f \in Files : WF_tvars(AnySend(f))
    /\ \A f \in Files : \A i \in 1 .. fragment_count[f] : SF_tvars(GoodSend(f, i))

----------------------------------------------------------------------------
(* fileCapture.c:92-170.  The output of a transfer with one sender is that *)
(* sender's file: its name and every fragment at its own place, all of     *)
(* them as sent but for the one that came first, which nothing checks and  *)
(* which may be damaged or cut.  The check of the size after the loop      *)
(* never turns a complete transfer away.                                   *)
OutputIsTheFile ==
    pc \in {"completed", "size_error"} =>
        /\ pc = "completed"
        /\ \E f \in Files : \E first \in 1 .. fragment_count[f] :
               /\ out.name = f
               /\ DOMAIN out.content = 1 .. fragment_count[f]
               /\ out.content[first].filename = f /\ out.content[first].index = first
               /\ \A i \in DOMAIN out.content \ {first} : out.content[i] = Original(f, i)

(* Once the first frame is in, a transfer whose sender keeps sending ends  *)
(* with the file written.  It takes one frame more than the file has       *)
(* fragments, which the sender's next round provides.                      *)
TransferEnds == pc = "loop" ~> pc = "completed"
=============================================================================
