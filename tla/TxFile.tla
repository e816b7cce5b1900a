------------------------------- MODULE TxFile -------------------------------
(***************************************************************************)
(* The senders (tx_file, shipped as a binary, modelled from its behaviour) *)
(* and what lies between them and a receiver: a wire that damages or loses *)
(* frames and one bounded receive queue per raw socket.                    *)
(*                                                                         *)
(* A sender shuffles its fragment indices once and then sends the file     *)
(* over and over in that order, a millisecond apart.                       *)
(***************************************************************************)
EXTENDS CaptureFormat, Sequences

CONSTANTS
    Sockets,     \* the receiver's raw sockets, one per ether type
    shuffles,    \* [Files -> the orders in which its fragments may be sent]
    socket_of,   \* [Files -> Sockets]: where the frames of a file arrive
    SendingSets, \* the sets of files that may be sent together
    MaxBacklog,  \* frames a socket queue holds
    KeepsUp,     \* TRUE: no frame finds its socket queue full
    StrayTraffic,\* TRUE: another program sends short frames of the same type
    Stoppable    \* the files whose sender may be stopped by hand

(* The orders a shuffle of n indices can give.                             *)
IsShuffle(p, n) ==
    /\ p \in [1 .. n -> 1 .. n]
    /\ \A i, m \in 1 .. n : p[i] = p[m] => i = m

ASSUME SendersAssumption ==
    /\ \A f \in Files : \A p \in shuffles[f] : IsShuffle(p, fragment_count[f])
    /\ socket_of \in [Files -> Sockets]
    /\ SendingSets \subseteq (SUBSET Files) \ {{}}
    /\ MaxBacklog \in Nat \ {0}
    /\ {KeepsUp, StrayTraffic} \subseteq BOOLEAN
    /\ Stoppable \subseteq Files

VARIABLES
    order,    \* order[f]: the shuffled fragment indices of f
    pos,      \* pos[f]: the place in order[f] to be sent next
    sending,  \* the files whose sender is running
    queue     \* queue[s]: frames waiting in socket s

txVars == <<order, pos, sending, queue>>

TxInit ==
    /\ order \in { o \in [Files -> UNION {shuffles[f] : f \in Files}] :
                     \A f \in Files : o[f] \in shuffles[f] }
    /\ pos = [f \in Files |-> 1]
    /\ sending \in SendingSets
    /\ queue = [s \in Sockets |-> <<>>]

Next_index(f) == order[f][pos[f]]

Advance(f) == pos' = [pos EXCEPT ![f] = (pos[f] % fragment_count[f]) + 1]

HasRoom(s) == Len(queue[s]) < MaxBacklog

(* The next fragment of f is read, sent and queued at the receiver.        *)
Send(f, data) ==
    /\ f \in sending
    /\ Next_index(f) \in SentIndices(f)
    /\ HasRoom(socket_of[f])
    /\ queue' = [queue EXCEPT ![socket_of[f]] =
                    Append(@, SenderFrame(f, Next_index(f), data))]
    /\ Advance(f)
    /\ UNCHANGED <<order, sending>>

(* It is lost on the wire, or dropped by a full socket queue.  A failing   *)
(* send is only reported by the sender, which goes on.                     *)
Lose(f) ==
    /\ f \in sending
    /\ Next_index(f) \in SentIndices(f)
    /\ HasRoom(socket_of[f]) \/ ~KeepsUp
    /\ Advance(f)
    /\ UNCHANGED <<order, sending, queue>>

(* A file of a whole number of fragments is given one more, empty: reading *)
(* it returns 0 bytes and the sender exits.                                *)
ExitOnEmpty(f) ==
    /\ f \in sending
    /\ Next_index(f) \notin SentIndices(f)
    /\ sending' = sending \ {f}
    /\ UNCHANGED <<order, pos, queue>>

Stop(f) ==
    /\ f \in sending \cap Stoppable
    /\ sending' = sending \ {f}
    /\ UNCHANGED <<order, pos, queue>>

Stray(s) ==
    /\ StrayTraffic
    /\ HasRoom(s)
    /\ queue' = [queue EXCEPT ![s] = Append(@, StrayFrame)]
    /\ UNCHANGED <<order, pos, sending>>

TxNext ==
    \/ \E f \in Files, d \in {"intact", "garbled"} : Send(f, d)
    \/ \E f \in Files : Lose(f) \/ ExitOnEmpty(f) \/ Stop(f)
    \/ \E s \in Sockets : Stray(s)

(* The receiver's recv on s takes fr from the queue.                       *)
Take(s, fr) ==
    /\ queue[s] # <<>>
    /\ fr = Head(queue[s])
    /\ queue' = [queue EXCEPT ![s] = Tail(@)]
    /\ UNCHANGED <<order, pos, sending>>
=============================================================================
