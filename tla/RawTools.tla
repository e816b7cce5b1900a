------------------------------ MODULE RawTools ------------------------------
(***************************************************************************)
(* The three tools of Examples/ on raw sockets: tx_raw repeats a message,  *)
(* rx_raw prints what arrives with one ether type, rx_poll with two.       *)
(*                                                                         *)
(* Sender and receiver run on two hosts.  An interface may go up or down   *)
(* at any time, so what the helpers of myether.c find is not determined;   *)
(* going down leaves an error on every socket bound to it, which the next  *)
(* send() or recv() returns.  What is sent may arrive late, more than once *)
(* or never.  Padding of short frames follows the NUL and is left out.     *)
(***************************************************************************)
EXTENDS Integers, Sequences, SequencesExt

CONSTANTS
    Arguments,    \* of tx_raw: [text: the message, type: the digits typed, or Absent]
    Strays,       \* frames of other senders: [ether_type, data]
    MaxBacklog,   \* frames the kernel keeps for a socket
    BufferSize,   \* characters after the header that RX_BUF_SIZE has room for
    NUL, Unset    \* the end of a string; what malloc() left in the buffer

ASSUME RawAssumption ==
    /\ MaxBacklog \in Nat \ {0} /\ BufferSize \in Nat \ {0}
    /\ \A a \in Arguments : a.text \in Seq(STRING \ {NUL, Unset})
    /\ NUL \in STRING /\ Unset \in STRING
    /\ \A f \in Strays : f.data \in Seq(STRING)

VARIABLES
    tx_pc, arg, hdr,        \* tx_raw: its place, arguments and frame
    sent,                   \* the frames it has sent
    tool, rx_pc,            \* the receiver: rx_raw or rx_poll, and its place
    sock,                   \* its sockets, in the order opened: [queue, err]
    second_events,          \* ufds[1].events has POLLIN
    revents,                \* ufds[k].revents has POLLIN
    buffer,                 \* the characters after the header
    printed                 \* the data last received and what "%s" made of them

txVars == <<tx_pc, arg, hdr, sent>>
rxVars == <<tool, rx_pc, sock, second_events, revents, buffer, printed>>
rawVars == <<txVars, rxVars>>

Absent == <<>>
Nothing == <<>>
ETHER_TYPE_1 == 4660     \* 0x1234, ETHER_TYPE of tx_raw and rx_raw
ETHER_TYPE_2 == 17185    \* 0x4321

RawInit ==
    /\ tx_pc = "check" /\ arg \in Arguments /\ hdr = Nothing /\ sent = {}
    /\ tool \in {"rx_raw", "rx_poll"} /\ rx_pc = "check" /\ sock = <<>>
    /\ second_events \in BOOLEAN
    /\ revents \in [1 .. 2 -> BOOLEAN]
    /\ buffer = [c \in 1 .. BufferSize |-> Unset]
    /\ printed = Nothing

(* The results of the helpers.  A flag that cannot be read counts as up,   *)
(* -1 being true; a socket may be bound to an interface that is down.      *)
net_device_up == {"up", "down", "failed"}
net_get_iface_mac == {"mac", "failed"}
net_create_raw_socket == {"bound", "bound to down", "failed"}

----------------------------------------------------------------------------
(* A digit is 0 .. 15; any other character is 16 and counts as 0.          *)
trans(c) == IF c = 16 THEN 0 ELSE c
hex_to_uint16(s) == FoldLeft(LAMBDA v, c : (16 * v + trans(c)) % 65536, 0, s)

arg_ether == IF arg.type = Absent THEN ETHER_TYPE_1 ELSE hex_to_uint16(arg.type)

TxCheck ==
    /\ tx_pc = "check"
    /\ \E up \in net_device_up : tx_pc' = IF up = "down" THEN "gone" ELSE "open"
    /\ UNCHANGED <<arg, hdr, sent, rxVars>>

TxOpen ==
    /\ tx_pc = "open"
    /\ \E sfd \in net_create_raw_socket : tx_pc' = IF sfd = "failed" THEN "gone" ELSE "fill"
    /\ UNCHANGED <<arg, hdr, sent, rxVars>>

(* Mutant: the size leaves out the NUL.                                    *)
TxFillNoNul ==
    /\ tx_pc = "fill"
    /\ \E mac \in net_get_iface_mac :
        hdr' = [ether_shost |-> mac, ether_type |-> arg_ether, data |-> arg.text]
    /\ tx_pc' = "send"
    /\ UNCHANGED <<arg, sent, rxVars>>

(* Without a MAC address ether_shost keeps what malloc() left there.       *)
TxFill ==
    /\ tx_pc = "fill"
    /\ \E mac \in net_get_iface_mac :
        hdr' = [ether_shost |-> mac, ether_type |-> arg_ether, data |-> Append(arg.text, NUL)]
    /\ tx_pc' = "send"
    /\ UNCHANGED <<arg, sent, rxVars>>

TxSend ==
    /\ tx_pc = "send"
    /\ sent' = sent \cup {hdr}
    /\ UNCHANGED <<tx_pc, arg, hdr, rxVars>>

(* malloc() or send() fails.                                               *)
TxBail ==
    /\ tx_pc \in {"fill", "send"}
    /\ tx_pc' = "gone"
    /\ UNCHANGED <<arg, hdr, sent, rxVars>>

TxNext == TxCheck \/ TxOpen \/ TxFill \/ TxSend \/ TxBail

----------------------------------------------------------------------------
Types == IF tool = "rx_poll" THEN <<ETHER_TYPE_1, ETHER_TYPE_2>> ELSE <<ETHER_TYPE_1>>

(* The kernel: a frame joins the queue of the socket of its type, or is    *)
(* dropped when that is full.                                              *)
Arrive ==
    \E k \in DOMAIN sock : \E f \in sent \cup Strays :
        /\ f.ether_type = Types[k]
        /\ Len(sock[k].queue) < MaxBacklog
        /\ sock' = [sock EXCEPT ![k].queue = Append(@, f.data)]
        /\ UNCHANGED <<txVars, tool, rx_pc, second_events, revents, buffer, printed>>

InterfaceDown ==
    /\ sock # <<>>
    /\ sock' = [k \in DOMAIN sock |-> [sock[k] EXCEPT !.err = TRUE]]
    /\ UNCHANGED <<txVars, tool, rx_pc, second_events, revents, buffer, printed>>

(* bail: the process ends and its sockets are closed.                      *)
Bail == rx_pc' = "gone" /\ sock' = <<>>

RxCheck ==
    /\ rx_pc = "check"
    /\ \E up \in net_device_up : rx_pc' = IF up = "down" THEN "gone" ELSE "open"
    /\ UNCHANGED <<txVars, tool, sock, second_events, revents, buffer, printed>>

RxOpen ==
    /\ rx_pc = "open"
    /\ \E s \in net_create_raw_socket :
        IF s = "failed" THEN Bail
        ELSE /\ sock' = Append(sock, [queue |-> <<>>, err |-> s = "bound to down"])
             /\ rx_pc' = IF Len(sock') = Len(Types) THEN "malloc" ELSE "open"
    /\ UNCHANGED <<txVars, tool, second_events, revents, buffer, printed>>

Malloc ==
    /\ rx_pc = "malloc"
    /\ (rx_pc' = "loop" /\ UNCHANGED sock) \/ Bail
    /\ UNCHANGED <<txVars, tool, second_events, revents, buffer, printed>>

(* "%s" prints up to the first NUL, wherever that is.                      *)
AsString(chars) ==
    IF \E c \in DOMAIN chars : chars[c] = NUL
    THEN SubSeq(chars, 1, (CHOOSE c \in DOMAIN chars :
             chars[c] = NUL /\ \A b \in 1 .. c - 1 : chars[b] # NUL) - 1)
    ELSE Append(chars, Unset)

Received(data) == [c \in 1 .. BufferSize |-> IF c <= Len(data) THEN data[c] ELSE buffer[c]]

(* recv() and the two messages; an error comes before a frame.             *)
RecvAndPrint(k, next) ==
    \/ /\ sock[k].err
       /\ Bail
       /\ UNCHANGED <<buffer, printed>>
    \/ /\ ~sock[k].err /\ sock[k].queue # <<>>
       /\ buffer' = Received(Head(sock[k].queue))
       /\ printed' = [data |-> Head(sock[k].queue), text |-> AsString(buffer')]
       /\ sock' = [sock EXCEPT ![k].queue = Tail(@)]
       /\ rx_pc' = next

(* rx_raw waits in recv().                                                 *)
RxRaw ==
    /\ tool = "rx_raw" /\ rx_pc = "loop"
    /\ RecvAndPrint(1, "loop")
    /\ UNCHANGED <<txVars, tool, second_events, revents>>

(* The line that means to set ufds[1].events sets ufds[0].events again.    *)
Events(k) == k = 1 \/ second_events

(* Mutant: the loop goes on after poll() has failed.                       *)
PollGoesOn ==
    /\ tool = "rx_poll" /\ rx_pc = "loop"
    /\ revents' \in {revents, [k \in 1 .. 2 |-> Events(k) /\ sock[k].queue # <<>>]}
    /\ rx_pc' = "first"
    /\ UNCHANGED <<txVars, tool, sock, second_events, buffer, printed>>

(* poll() returns 0 when its second is over, and when it fails, revents as *)
(* they were, is called again at once.  POLLERR is not looked at.          *)
Poll ==
    /\ tool = "rx_poll" /\ rx_pc = "loop"
    /\ revents' = [k \in 1 .. 2 |-> Events(k) /\ sock[k].queue # <<>>]
    /\ rx_pc' = "first"
    /\ UNCHANGED <<txVars, tool, sock, second_events, buffer, printed>>

PollFails ==
    /\ tool = "rx_poll" /\ rx_pc = "loop"
    /\ UNCHANGED rawVars

ReadFirst ==
    /\ rx_pc = "first"
    /\ IF revents[1]
       THEN RecvAndPrint(1, "second")
       ELSE rx_pc' = "second" /\ UNCHANGED <<sock, buffer, printed>>
    /\ UNCHANGED <<txVars, tool, second_events, revents>>

(* Mutant: else if.                                                        *)
ReadSecondElse ==
    /\ rx_pc = "second"
    /\ IF revents[2] /\ ~revents[1]
       THEN RecvAndPrint(2, "loop")
       ELSE rx_pc' = "loop" /\ UNCHANGED <<sock, buffer, printed>>
    /\ UNCHANGED <<txVars, tool, second_events, revents>>

ReadSecond ==
    /\ rx_pc = "second"
    /\ IF revents[2]
       THEN RecvAndPrint(2, "loop")
       ELSE rx_pc' = "loop" /\ UNCHANGED <<sock, buffer, printed>>
    /\ UNCHANGED <<txVars, tool, second_events, revents>>

Receiver == RxCheck \/ RxOpen \/ Malloc \/ RxRaw \/ Poll \/ ReadFirst \/ ReadSecond

RawNext == TxNext \/ Arrive \/ InterfaceDown \/ Receiver \/ PollFails

(* The receiver's process is scheduled, and signals do not end every       *)
(* call of poll().                                                         *)
RawFairness == WF_rawVars(Receiver)

RawSpec == RawInit /\ [][RawNext]_rawVars /\ RawFairness

----------------------------------------------------------------------------
(* rx_poll.c:104-122.  rx_poll calls recv() on a socket only while it has  *)
(* a frame or an error to return, so it never waits there for one ether    *)
(* type while frames of the other arrive.                                  *)
Returns(k) == sock[k].err \/ sock[k].queue # <<>>

RecvNeverBlocks ==
    /\ (rx_pc = "first" /\ revents[1]) => Returns(1)
    /\ (rx_pc = "second" /\ revents[2]) => Returns(2)

(* tx_raw.c:89 and rx_raw.c:93.  A message of tx_raw that fits the buffer  *)
(* is printed as it was typed, whatever longer text the buffer held.       *)
Fits == Len(arg.text) < BufferSize

PrintsTheMessage ==
    (printed # Nothing /\ hdr # Nothing /\ printed.data = hdr.data /\ Fits) => printed.text = arg.text

(* rx_poll.c:109-120.  While both sockets are polled, neither type keeps   *)
(* the other waiting: a full queue gets room again, or rx_poll ends.       *)
QueuesDrain ==
    \A k \in 1 .. 2 :
        (k \in DOMAIN sock /\ rx_pc \in {"loop", "first", "second"} /\ Events(k) /\ Len(sock[k].queue) = MaxBacklog)
            ~> (k \notin DOMAIN sock \/ Len(sock[k].queue) < MaxBacklog)
=============================================================================
