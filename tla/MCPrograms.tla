---------------------------- MODULE MCPrograms -----------------------------
(***************************************************************************)
(* The programs that share no state with another, one behaviour for each   *)
(* choice of one: the others stay in one of their initial states.          *)
(***************************************************************************)
EXTENDS Crc, Slice, More, RawTools, Mqtt

VARIABLE program

vars == <<program, crcVars, sliceVars, moreVars, rawVars, mqttVars>>

(* The last adds damage of 32 bits that begins and ends within a byte.     *)
MCMessages == [1 .. 3 -> {{}, {0}, {7}, {0, 7}}] \cup [1 .. 5 -> {{}, {0, 7}}]
    \cup {<<a, b, c, b, d>> : a \in {{}, {3, 7}}, b, c \in {{}, {0, 7}}, d \in {{}, {0, 2}}}
MCSides == {-1, 0, 1, 3, 4, 5}
MCFiles == {[text |-> <<>>, ended |-> TRUE]}
    \cup [text : {<<0, 3>>, <<2, 5>>, <<4, 1, 2>>}, ended : BOOLEAN]
MCNumeral == "1" :> 1 @@ "2" :> 2 @@ "3" :> 3 @@ "-1" :> -1 @@ "-2" :> -2
MCCommandLines == {<<>>, <<"+num", "2">>, <<"+num", "3", "-F">>, <<"-F", "+num", "1", "-num", "1", "-N">>,
    <<"+num", "3", "-num", "3">>, <<"+num", "-F">>, <<"-num", "3", "+num", "2", "-F", "-N">>, <<"-x">>,
    <<"+num", "-2", "-F">>, <<"-num", "-1", "+num", "-2">>}

(* 0x4321 and 14321 are the same sixteen bits.                             *)
MCArguments == {[text |-> <<"a">>, type |-> <<>>], [text |-> <<>>, type |-> <<0, 16, 4, 3, 2, 1>>],
    [text |-> <<"b", "a">>, type |-> <<1, 4, 3, 2, 1>>]}
MCStrays == {[ether_type |-> 4660, data |-> <<"b", "b", "a">>], [ether_type |-> 17185, data |-> <<"a", "NUL">>]}

Init ==
    /\ program \in {"crc", "slice", "more", "raw", "mqtt"}
    /\ program # "crc" => data = <<{}, {}, {}>> /\ arrived = data
    /\ program # "more" => argv = <<>> /\ contents = [text |-> <<>>, ended |-> TRUE]
    /\ program # "raw" => /\ arg = [text |-> <<"a">>, type |-> <<>>]
                          /\ tool = "rx_raw"
                          /\ second_events = FALSE
                          /\ revents = <<FALSE, FALSE>>
    /\ program # "mqtt" => topic = [c \in Clients |-> "test"]
    /\ CrcInit /\ SliceInit /\ MoreInit /\ RawInit /\ MqttInit

Next ==
    /\ UNCHANGED program
    /\ \/ program = "crc" /\ CrcNext /\ UNCHANGED <<sliceVars, moreVars, rawVars, mqttVars>>
       \/ program = "slice" /\ SliceNext /\ UNCHANGED <<crcVars, moreVars, rawVars, mqttVars>>
       \/ program = "more" /\ MoreNext /\ UNCHANGED <<crcVars, sliceVars, rawVars, mqttVars>>
       \/ program = "raw" /\ RawNext /\ UNCHANGED <<crcVars, sliceVars, moreVars, mqttVars>>
       \/ program = "mqtt" /\ MqttNext /\ UNCHANGED <<crcVars, sliceVars, moreVars, rawVars>>

Spec == Init /\ [][Next]_vars /\ (program = "raw" => RawFairness) /\ (program = "mqtt" => MqttFairness)
=============================================================================
