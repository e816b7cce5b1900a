-------------------------------- MODULE Mqtt --------------------------------
(***************************************************************************)
(* Mosquito_client: publishers that each send one message with QoS 1, and  *)
(* subscribers that each print ten.  The Paho library, TCP and the broker  *)
(* are as the programs use them: clean sessions, an acknowledgement for a  *)
(* message the broker has taken, one connection at most for a client ID.   *)
(*                                                                         *)
(* `online' is the broker's view.  A client notices later that it has lost *)
(* its connection, and reads first what had reached it by then.            *)
(***************************************************************************)
EXTENDS Integers, Sequences, SequencesExt

CONSTANTS
    Publishers, Subscribers,   \* processes
    Topics,                    \* what may follow -t
    IllegalTopics,             \* those the library refuses
    Wanted,                    \* messages a subscriber prints: 10
    MaxLosses                  \* connections lost, but for those taken over

ASSUME MqttAssumption ==
    /\ Publishers \cap Subscribers = {}
    /\ Wanted \in Nat /\ MaxLosses \in Nat

VARIABLES
    topic,        \* the topic of each process
    at,           \* its place
    rc,           \* what a publisher returned
    online,       \* clients connected to the broker
    outbound,     \* publishers whose message awaits its acknowledgement
    inflight,     \* publishers whose message is on its way to the broker
    acked,        \* publishers whose acknowledgement is on its way back
    log,          \* the publishers whose messages the broker has taken
    subscribed,   \* subscribers the broker forwards to
    since,        \* Len(log) when a subscriber subscribed
    outbox,       \* places in log, on their way to a subscriber
    shown,        \* places in log, printed by a subscriber
    counted,      \* the "i" of a subscriber's loop
    losses

mqttVars == <<topic, at, rc, online, outbound, inflight, acked, log, subscribed, since, outbox, shown, counted, losses>>

Clients == Publishers \cup Subscribers
MQTTCLIENT_SUCCESS == 0
MQTTCLIENT_FAILURE == -1

MqttInit ==
    /\ topic \in [Clients -> Topics]
    /\ at = [c \in Clients |-> "started"]
    /\ rc = [p \in Publishers |-> MQTTCLIENT_FAILURE]
    /\ online = {} /\ outbound = {} /\ inflight = {} /\ acked = {}
    /\ log = <<>>
    /\ subscribed = {}
    /\ since = [s \in Subscribers |-> 0]
    /\ outbox = [s \in Subscribers |-> <<>>]
    /\ shown = [s \in Subscribers |-> <<>>]
    /\ counted = [s \in Subscribers |-> 0]
    /\ losses = 0

CLIENTID(c) == IF c \in Publishers THEN "ExampleClientPub" ELSE "EmreBSubs"

(* The broker's end of a connection: what it had not taken is lost.        *)
Disconnect(cs) ==
    /\ inflight' = inflight \ cs
    /\ subscribed' = subscribed \ cs

Connect(c) ==
    /\ at[c] = "started"
    /\ LET same == {d \in online : CLIENTID(d) = CLIENTID(c)}
       IN  \/ /\ Disconnect(same)
              /\ online' = (online \ same) \cup {c}
              /\ at' = [at EXCEPT ![c] = "connected"]
           \/ /\ at' = [at EXCEPT ![c] = "failed"]
              /\ UNCHANGED <<online, inflight, subscribed>>
    /\ UNCHANGED <<topic, rc, outbound, acked, log, since, outbox, shown, counted, losses>>

LoseConnection(c) ==
    /\ c \in online /\ losses < MaxLosses
    /\ Disconnect({c})
    /\ online' = online \ {c}
    /\ losses' = losses + 1
    /\ UNCHANGED <<topic, at, rc, outbound, acked, log, since, outbox, shown, counted>>

----------------------------------------------------------------------------
(* Mutant: QoS 0, which is never acknowledged.                             *)
publishMessageAtMostOnce(p) ==
    /\ at[p] = "connected"
    /\ at' = [at EXCEPT ![p] = "waiting"]
    /\ inflight' = IF p \in online /\ topic[p] \notin IllegalTopics THEN inflight \cup {p} ELSE inflight
    /\ UNCHANGED <<topic, rc, online, outbound, acked, log, subscribed, since, outbox, shown, counted, losses>>

(* The result is not looked at.  A topic the library refuses leaves the    *)
(* token unset and nothing to wait for.                                    *)
publishMessage(p) ==
    /\ at[p] = "connected"
    /\ at' = [at EXCEPT ![p] = "waiting"]
    /\ outbound' = IF topic[p] \notin IllegalTopics THEN outbound \cup {p} ELSE outbound
    /\ inflight' = IF p \in online /\ topic[p] \notin IllegalTopics THEN inflight \cup {p} ELSE inflight
    /\ UNCHANGED <<topic, rc, online, acked, log, subscribed, since, outbox, shown, counted, losses>>

BrokerTakes(p) ==
    /\ p \in inflight
    /\ inflight' = inflight \ {p}
    /\ acked' = acked \cup {p}
    /\ log' = Append(log, p)
    /\ outbox' = [s \in Subscribers |->
                     IF s \in subscribed /\ topic[s] = topic[p] THEN Append(outbox[s], Len(log')) ELSE outbox[s]]
    /\ UNCHANGED <<topic, at, rc, online, outbound, subscribed, since, shown, counted, losses>>

Acknowledged(p) ==
    /\ at[p] = "waiting" /\ p \in acked
    /\ acked' = acked \ {p}
    /\ outbound' = outbound \ {p}
    /\ UNCHANGED <<topic, at, rc, online, inflight, log, subscribed, since, outbox, shown, counted, losses>>

(* Success is that no such message is waiting; otherwise the connection is *)
(* found lost, or ten seconds are over.  Either way the message is said to *)
(* be delivered, the client sends its DISCONNECT, and the process ends.    *)
waitForCompletion(p) ==
    /\ at[p] = "waiting"
    /\ \/ p \notin outbound /\ rc' = [rc EXCEPT ![p] = MQTTCLIENT_SUCCESS]
       \/ (p \in outbound \/ p \notin online) /\ rc' = [rc EXCEPT ![p] = MQTTCLIENT_FAILURE]
    /\ at' = [at EXCEPT ![p] = "done"]
    /\ UNCHANGED <<topic, online, outbound, inflight, acked, log, subscribed, since, outbox, shown, counted, losses>>

(* The broker reads the end of a connection after all that was sent on it. *)
Disconnected(c) ==
    /\ at[c] \in {"done", "failed"} /\ c \in online /\ c \notin inflight
    /\ Disconnect({c})
    /\ online' = online \ {c}
    /\ UNCHANGED <<topic, at, rc, outbound, acked, log, since, outbox, shown, counted, losses>>

----------------------------------------------------------------------------
Subscribe(s) ==
    /\ at[s] = "connected"
    /\ IF s \in online /\ topic[s] \notin IllegalTopics
       THEN /\ subscribed' = subscribed \cup {s}
            /\ since' = [since EXCEPT ![s] = Len(log)]
            /\ at' = [at EXCEPT ![s] = "receiving"]
       ELSE /\ at' = [at EXCEPT ![s] = "failed"]
            /\ UNCHANGED <<subscribed, since>>
    /\ UNCHANGED <<topic, rc, online, outbound, inflight, acked, log, outbox, shown, counted, losses>>

(* Mutant: the loop runs for i <= 10.                                      *)
WantsOneMore(s) == counted[s] <= Wanted

Wants(s) == counted[s] < Wanted
Receiving(s) == at[s] = "receiving" /\ Wants(s)

Receive(s) ==
    /\ Receiving(s) /\ outbox[s] # <<>>
    /\ shown' = [shown EXCEPT ![s] = Append(@, Head(outbox[s]))]
    /\ counted' = [counted EXCEPT ![s] = @ + 1]
    /\ outbox' = [outbox EXCEPT ![s] = Tail(@)]
    /\ UNCHANGED <<topic, at, rc, online, outbound, inflight, acked, log, subscribed, since, losses>>

(* Mutant: i++ stands after the test of the message.                       *)
NoMessageCounted(s) ==
    /\ Receiving(s) /\ outbox[s] = <<>>
    /\ counted' = [counted EXCEPT ![s] = @ + 1]
    /\ UNCHANGED <<topic, at, rc, online, outbound, inflight, acked, log, subscribed, since, outbox, shown, losses>>

(* After ten seconds without a message: success, and no message.           *)
NoMessage(s) ==
    /\ Receiving(s) /\ outbox[s] = <<>>
    /\ UNCHANGED mqttVars

ReceiveFails(s) ==
    /\ Receiving(s) /\ s \notin online
    /\ at' = [at EXCEPT ![s] = "failed"]
    /\ UNCHANGED <<topic, rc, online, outbound, inflight, acked, log, subscribed, since, outbox, shown, counted, losses>>

(* What arrives after the last message printed is lost with the session.   *)
Finish(s) ==
    /\ at[s] = "receiving" /\ ~Wants(s)
    /\ at' = [at EXCEPT ![s] = "done"]
    /\ UNCHANGED <<topic, rc, online, outbound, inflight, acked, log, subscribed, since, outbox, shown, counted, losses>>

MqttNext ==
    \/ \E c \in Clients : Connect(c) \/ LoseConnection(c) \/ Disconnected(c)
    \/ \E p \in Publishers : publishMessage(p) \/ BrokerTakes(p) \/ Acknowledged(p) \/ waitForCompletion(p)
    \/ \E s \in Subscribers : Subscribe(s) \/ Receive(s) \/ NoMessage(s) \/ ReceiveFails(s) \/ Finish(s)

(* receive() returns a message that has come, a lost connection is noticed,*)
(* and the subscriber's process is scheduled.                              *)
MqttFairness ==
    \A s \in Subscribers : WF_mqttVars(Receive(s) \/ ReceiveFails(s) \/ Finish(s))

MqttSpec == MqttInit /\ [][MqttNext]_mqttVars /\ MqttFairness

----------------------------------------------------------------------------
Taken(p) == \E k \in DOMAIN log : log[k] = p

(* publisher.c:61-71.  QoS 1 and waiting for completion: a publisher that  *)
(* returns 0 for a topic the library accepts has had its message taken by  *)
(* the broker, whatever connections were lost or taken over meanwhile.     *)
SuccessMeansTaken ==
    \A p \in Publishers :
        (at[p] = "done" /\ rc[p] = MQTTCLIENT_SUCCESS /\ topic[p] \notin IllegalTopics) => Taken(p)

(* What subscriber s is to print: places in log.                           *)
Matching(s) == {k \in DOMAIN log : k > since[s] /\ topic[log[k]] = topic[s]}

Ascending(places) == \A a, b \in DOMAIN places : a < b => places[a] < places[b]

(* subscriber.c:65-81.  A subscriber prints the messages taken since it    *)
(* subscribed, in their order and leaving none out, and one that comes to  *)
(* its end has printed ten: no time-out was counted as one of them.        *)
PrintsInOrderOnce ==
    \A s \in Subscribers :
        /\ Ascending(shown[s])
        /\ ToSet(shown[s]) = {k \in Matching(s) : \E l \in ToSet(shown[s]) : k <= l}
        /\ at[s] = "done" => Len(shown[s]) = Wanted

(* subscriber.c:65-83.  Once enough messages have come to be printed, the  *)
(* subscriber ends: timeouts count neither as messages nor as failures.    *)
SubscriberFinishes ==
    \A s \in Subscribers :
        (at[s] = "receiving" /\ Cardinality(Matching(s)) >= Wanted) ~> at[s] \in {"done", "failed"}
=============================================================================
