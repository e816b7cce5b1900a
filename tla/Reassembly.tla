----------------------------- MODULE Reassembly -----------------------------
(***************************************************************************)
(* What a capture program promises, whatever arrives: it lays out a slot   *)
(* for every fragment of every channel, fills each slot at most once, and  *)
(* delivers only when no slot is missing, all slots in their places.  The  *)
(* first fragment may be damaged, every later one is good.                 *)
(*                                                                         *)
(* FileCapture (one channel) and MultiCapture (one channel per ether type) *)
(* implement this specification.                                           *)
(***************************************************************************)
EXTENDS Naturals

CONSTANTS
    Channels,   \* the channels a file arrives on
    Counts      \* the numbers of fragments it may be cut into

VARIABLES
    slots,      \* slots[c][i]: what is held for fragment i of channel c
    delivered,  \* the slots handed over, or Nothing
    verdict     \* "open", "delivered" or "abandoned"

rvars == <<slots, delivered, verdict>>

NoSlots == [i \in {} |-> "missing"]
Closed == [c \in Channels |-> NoSlots]   \* no slots laid out
Nothing == Closed

Missing(c) == {i \in DOMAIN slots[c] : slots[c][i] = "missing"}

Init ==
    /\ slots = Closed
    /\ delivered = Nothing
    /\ verdict = "open"

(* The first fragment lays out n slots per channel and takes one of them,  *)
(* unverified.                                                             *)
Begin(n, c, i, quality) ==
    /\ verdict = "open"
    /\ slots = Closed
    /\ slots' = [d \in Channels |->
                    [k \in 1 .. n |-> IF d = c /\ k = i THEN quality ELSE "missing"]]
    /\ UNCHANGED <<delivered, verdict>>

Fill(c, i) ==
    /\ verdict = "open"
    /\ i \in Missing(c)
    /\ slots' = [slots EXCEPT ![c][i] = "good"]
    /\ UNCHANGED <<delivered, verdict>>

Deliver ==
    /\ verdict = "open"
    /\ slots # Closed
    /\ \A c \in Channels : Missing(c) = {}
    /\ delivered' = slots
    /\ verdict' = "delivered"
    /\ UNCHANGED slots

Abandon ==
    /\ verdict = "open"
    /\ slots = Closed
    /\ verdict' = "abandoned"
    /\ UNCHANGED <<slots, delivered>>

Next ==
    \/ \E n \in Counts, c \in Channels, quality \in {"good", "bad"} :
           \E i \in 1 .. n : Begin(n, c, i, quality)
    \/ \E c \in Channels : \E i \in DOMAIN slots[c] : Fill(c, i)
    \/ Deliver
    \/ Abandon

Spec == Init /\ [][Next]_rvars
=============================================================================
