--------------------------- MODULE Messages_proofs ---------------------------
(***************************************************************************)
(* The small programs that send one message and those that print it.       *)
(*                                                                         *)
(* rx_raw and rx_poll: what poll() has found is still there when recv() is *)
(* called, since only the receiver takes frames away; and a message is     *)
(* printed as typed since it brings its own end into the buffer.           *)
(*                                                                         *)
(* The MQTT programs: a publisher stops waiting for its message only when  *)
(* it is acknowledged; what a subscriber has printed and what waits for it *)
(* is, in the order of the log, all the broker forwarded up to some place; *)
(* and the subscriber counts what it prints, and nothing else.             *)
(***************************************************************************)
EXTENDS RawTools, Mqtt, SequenceTheorems, TLAPS

Socket == [queue : Seq(Seq(STRING)), err : BOOLEAN]

RxTypeOK ==
    /\ tool \in {"rx_raw", "rx_poll"}
    /\ rx_pc \in {"check", "open", "malloc", "loop", "first", "second", "gone"}
    /\ sock \in Seq(Socket)
    /\ second_events \in BOOLEAN
    /\ revents \in [1 .. 2 -> BOOLEAN]
    /\ buffer \in [1 .. BufferSize -> STRING]
    /\ rx_pc = "check" => sock = <<>>
    /\ rx_pc = "open" => Len(sock) < Len(Types)
    /\ rx_pc \in {"malloc", "loop", "first", "second"} => Len(sock) = Len(Types)
    /\ rx_pc \in {"first", "second"} => tool = "rx_poll"

TxInv ==
    /\ arg \in Arguments
    /\ tx_pc = "send" => hdr # Nothing
    /\ hdr # Nothing => hdr.data = Append(arg.text, NUL)
    /\ \A f \in sent : f.data \in Seq(STRING)

(* The second socket is asked about before the first is read.              *)
PollInv ==
    /\ rx_pc = "first" => \A k \in 1 .. 2 : revents[k] => sock[k].queue # <<>>
    /\ rx_pc = "second" => (revents[2] => sock[2].queue # <<>>)

PrintInv ==
    (printed # Nothing /\ printed.data = Append(arg.text, NUL) /\ Fits) => printed.text = arg.text

RawInv == RxTypeOK /\ TxInv /\ PollInv /\ PrintInv

----------------------------------------------------------------------------
LEMMA TextIsString ==
    ASSUME arg \in Arguments
    PROVE  /\ arg.text \in Seq(STRING)
           /\ \A c \in 1 .. Len(arg.text) : arg.text[c] \in STRING /\ arg.text[c] # NUL
           /\ Append(arg.text, NUL) \in Seq(STRING)
           /\ Len(Append(arg.text, NUL)) = Len(arg.text) + 1
           /\ \A c \in 1 .. Len(arg.text) : Append(arg.text, NUL)[c] = arg.text[c]
           /\ Append(arg.text, NUL)[Len(arg.text) + 1] = NUL
<1>1. arg.text \in Seq(STRING \ {NUL, Unset}) /\ NUL \in STRING
  BY RawAssumption
<1>2. arg.text \in Seq(STRING)
  BY <1>1
<1>3. \A c \in 1 .. Len(arg.text) : arg.text[c] \in STRING \ {NUL, Unset}
  BY <1>1
<1>. QED BY <1>1, <1>2, <1>3, AppendProperties

LEMMA PrefixIsText ==
    ASSUME NEW text \in Seq(STRING), NEW chars, Len(text) \in Nat,
           \A c \in 1 .. Len(text) : chars[c] = text[c]
    PROVE  SubSeq(chars, 1, Len(text)) = text
<1>1. \A c \in 1 .. Len(text) : chars[c] \in STRING
  OBVIOUS
<1>2. /\ SubSeq(chars, 1, Len(text)) \in Seq(STRING)
      /\ Len(SubSeq(chars, 1, Len(text))) = Len(text)
      /\ \A c \in 1 .. Len(text) : SubSeq(chars, 1, Len(text))[c] = chars[c]
  BY <1>1, SubSeqProperties
<1>. QED BY <1>2, SeqEqual

(* "%s" after a message of tx_raw, whatever else the buffer holds.         *)
LEMMA MessageIsPrinted ==
    ASSUME arg \in Arguments, Fits
    PROVE  AsString(Received(Append(arg.text, NUL))) = arg.text
<1>. DEFINE text == arg.text
            chars == Received(Append(arg.text, NUL))
            L == Len(arg.text)
            Ends(c) == chars[c] = NUL /\ \A b \in 1 .. c - 1 : chars[b] # NUL
<1>1. L \in Nat /\ L + 1 \in 1 .. BufferSize /\ BufferSize \in Nat /\ text \in Seq(STRING)
  BY TextIsString, RawAssumption DEF Fits
<1>2. /\ DOMAIN chars = 1 .. BufferSize
      /\ \A c \in 1 .. L : chars[c] = text[c] /\ chars[c] # NUL
      /\ chars[L + 1] = NUL
  BY <1>1, TextIsString DEF Received
<1>3. Ends(L + 1)
  BY <1>1, <1>2
<1>4. \A c \in 1 .. BufferSize : Ends(c) => c = L + 1
  BY <1>1, <1>2
<1>5. (CHOOSE c \in DOMAIN chars : Ends(c)) = L + 1
  BY <1>1, <1>2, <1>3, <1>4
<1>6. AsString(chars) = SubSeq(chars, 1, L)
  <2>1. L + 1 \in DOMAIN chars /\ chars[L + 1] = NUL /\ (L + 1) - 1 = L
    BY <1>1, <1>2
  <2>. HIDE DEF chars, L
  <2>. QED BY <1>5, <2>1 DEF AsString
<1>7. SubSeq(chars, 1, L) = text
  BY <1>1, <1>2, PrefixIsText
<1>. QED BY <1>6, <1>7

----------------------------------------------------------------------------
LEMMA TypesLength == Len(Types) = IF tool = "rx_poll" THEN 2 ELSE 1
BY DEF Types

LEMMA RawInitInv == RawInit => RawInv
<1>. SUFFICES ASSUME RawInit PROVE RawInv
  OBVIOUS
<1>1. RxTypeOK
  BY RawAssumption DEF RawInit, RxTypeOK, Socket
<1>2. TxInv /\ PollInv /\ PrintInv
  BY DEF RawInit, TxInv, PollInv, PrintInv
<1>. QED BY <1>1, <1>2 DEF RawInv

LEMMA SenderStep == RawInv /\ TxNext => RawInv'
<1>. SUFFICES ASSUME RawInv, TxNext PROVE RawInv'
  OBVIOUS
<1>1. /\ UNCHANGED rxVars /\ arg' = arg
  BY DEF TxNext, TxCheck, TxOpen, TxFill, TxSend, TxBail
<1>2. RxTypeOK' /\ PollInv' /\ PrintInv'
  BY <1>1 DEF rxVars, RawInv, RxTypeOK, PollInv, PrintInv, Fits, Types
<1>3. TxInv'
  <2>1. CASE TxFill
    BY <2>1, <1>1, TextIsString DEF TxFill, RawInv, TxInv, Nothing
  <2>2. CASE TxSend
    BY <2>2, <1>1, TextIsString DEF TxSend, RawInv, TxInv
  <2>3. CASE TxCheck \/ TxOpen \/ TxBail
    BY <2>3, <1>1 DEF TxCheck, TxOpen, TxBail, RawInv, TxInv
  <2>. QED BY <2>1, <2>2, <2>3 DEF TxNext
<1>. QED BY <1>2, <1>3 DEF RawInv

LEMMA KernelStep == RawInv /\ (Arrive \/ InterfaceDown) => RawInv'
<1>. SUFFICES ASSUME RawInv, Arrive \/ InterfaceDown PROVE RawInv'
  OBVIOUS
<1>1. /\ UNCHANGED <<txVars, tool, rx_pc, second_events, revents, buffer, printed>>
      /\ sock' \in Seq(Socket) /\ Len(sock') = Len(sock)
      /\ \A k \in 1 .. Len(sock) : sock[k].queue # <<>> => sock'[k].queue # <<>>
  <2>1. CASE Arrive
    <3>1. PICK k \in DOMAIN sock, f \in sent \cup Strays :
              sock' = [sock EXCEPT ![k].queue = Append(@, f.data)]
      BY <2>1 DEF Arrive
    <3>2. f.data \in Seq(STRING) /\ sock[k] \in Socket /\ k \in 1 .. Len(sock)
      BY RawAssumption DEF RawInv, RxTypeOK, TxInv
    <3>3. Append(sock[k].queue, f.data) \in Seq(Seq(STRING)) /\ Append(sock[k].queue, f.data) # <<>>
      BY <3>2, AppendProperties DEF Socket
    <3>4. [sock[k] EXCEPT !.queue = Append(sock[k].queue, f.data)] \in Socket
      BY <3>2, <3>3 DEF Socket
    <3>5. sock' = [sock EXCEPT ![k] = [sock[k] EXCEPT !.queue = Append(sock[k].queue, f.data)]]
      BY <3>1
    <3>6. sock' \in Seq(Socket) /\ Len(sock') = Len(sock) /\ \A n \in 1 .. Len(sock) : n # k => sock'[n] = sock[n]
      BY <3>2, <3>4, <3>5 DEF RawInv, RxTypeOK
    <3>7. sock'[k].queue # <<>>
      BY <3>2, <3>3, <3>5 DEF Socket, RawInv, RxTypeOK
    <3>8. UNCHANGED <<txVars, tool, rx_pc, second_events, revents, buffer, printed>>
      BY <2>1 DEF Arrive
    <3>. QED BY <3>6, <3>7, <3>8
  <2>2. CASE InterfaceDown
    <3>1. sock' = [k \in 1 .. Len(sock) |-> [sock[k] EXCEPT !.err = TRUE]] /\ sock \in Seq(Socket)
      BY <2>2 DEF InterfaceDown, RawInv, RxTypeOK
    <3>2. ASSUME NEW k \in 1 .. Len(sock)
          PROVE  [sock[k] EXCEPT !.err = TRUE] \in Socket /\ [sock[k] EXCEPT !.err = TRUE].queue = sock[k].queue
      <4>1. sock[k] \in Socket
        BY <3>1
      <4>. QED BY <4>1 DEF Socket
    <3>3. sock' \in Seq(Socket) /\ Len(sock') = Len(sock)
      BY <3>1, <3>2
    <3>4. \A k \in 1 .. Len(sock) : sock'[k].queue = sock[k].queue
      BY <3>1, <3>2
    <3>5. UNCHANGED <<txVars, tool, rx_pc, second_events, revents, buffer, printed>>
      BY <2>2 DEF InterfaceDown
    <3>. QED BY <3>3, <3>4, <3>5
  <2>. QED BY <2>1, <2>2
<1>2. RxTypeOK'
  BY <1>1 DEF RawInv, RxTypeOK, Types
<1>3. TxInv' /\ PrintInv'
  BY <1>1 DEF txVars, RawInv, TxInv, PrintInv, Fits
<1>4. PollInv'
  <2>1. rx_pc \in {"first", "second"} => Len(sock) = 2
    BY TypesLength DEF RawInv, RxTypeOK
  <2>. QED BY <1>1, <2>1 DEF RawInv, PollInv
<1>. QED BY <1>2, <1>3, <1>4 DEF RawInv

LEMMA StartStep == RawInv /\ (RxCheck \/ RxOpen \/ Malloc) => RawInv'
<1>. SUFFICES ASSUME RawInv, RxCheck \/ RxOpen \/ Malloc PROVE RawInv'
  OBVIOUS
<1>1. UNCHANGED <<txVars, tool, second_events, revents, buffer, printed>> /\ rx_pc' \notin {"first", "second"}
  BY DEF RxCheck, RxOpen, Malloc, Bail
<1>2. TxInv' /\ PrintInv' /\ PollInv'
  BY <1>1 DEF txVars, RawInv, TxInv, PrintInv, PollInv, Fits
<1>3. RxTypeOK'
  <2>0. Len(Types) \in {1, 2} /\ Types' = Types
    BY <1>1, TypesLength DEF Types
  <2>1. CASE RxCheck
    BY <2>0, <2>1, <1>1 DEF RxCheck, RawInv, RxTypeOK, Socket
  <2>2. CASE RxOpen
    <3>1. CASE Bail
      BY <2>2, <3>1, <1>1 DEF RxOpen, Bail, RawInv, RxTypeOK
    <3>2. CASE ~Bail
      <4>1. PICK s \in net_create_raw_socket :
                /\ sock' = Append(sock, [queue |-> <<>>, err |-> s = "bound to down"])
                /\ rx_pc' = IF Len(sock') = Len(Types) THEN "malloc" ELSE "open"
        BY <2>2, <3>2 DEF RxOpen
      <4>2. [queue |-> <<>>, err |-> s = "bound to down"] \in Socket
        BY DEF Socket
      <4>. rx_pc = "open"
        BY <2>2 DEF RxOpen
      <4>3. sock \in Seq(Socket) /\ Len(sock) < Len(Types)
        BY DEF RawInv, RxTypeOK
      <4>4. sock' \in Seq(Socket) /\ Len(sock') = Len(sock) + 1
        BY <4>1, <4>2, <4>3, AppendProperties
      <4>5. (rx_pc' = "malloc" /\ Len(sock') = Len(Types)) \/ (rx_pc' = "open" /\ Len(sock') < Len(Types))
        <5>1. Len(sock) \in Nat
          BY <4>3
        <5>2. rx_pc' = IF Len(sock') = Len(Types) THEN "malloc" ELSE "open"
          BY <4>1
        <5>3. Len(Types) \in Nat /\ Len(sock) < Len(Types) /\ Len(sock') = Len(sock) + 1
          BY <2>0, <4>3, <4>4
        <5>. QED BY <5>1, <5>2, <5>3
      <4>. QED BY <1>1, <2>0, <4>4, <4>5 DEF RawInv, RxTypeOK
    <3>. QED BY <3>1, <3>2
  <2>3. CASE Malloc
    <3>1. rx_pc = "malloc" /\ Len(sock) = Len(Types)
      BY <2>3 DEF Malloc, RawInv, RxTypeOK
    <3>2. CASE rx_pc' = "loop" /\ UNCHANGED sock
      BY <1>1, <2>0, <3>1, <3>2 DEF RawInv, RxTypeOK
    <3>3. CASE Bail
      BY <1>1, <2>0, <3>3 DEF Bail, RawInv, RxTypeOK
    <3>. QED BY <2>3, <3>2, <3>3 DEF Malloc
  <2>. QED BY <2>1, <2>2, <2>3
<1>. QED BY <1>2, <1>3 DEF RawInv

(* recv() on socket k, when the process is at a place where it may call it.*)
LEMMA RecvStep ==
    ASSUME RawInv, NEW k \in 1 .. Len(sock), NEW next \in {"loop", "second"},
           next = "second" => k = 1 /\ rx_pc = "first",
           rx_pc \in {"loop", "first", "second"},
           RecvAndPrint(k, next),
           UNCHANGED <<txVars, tool, second_events, revents>>
    PROVE  RawInv'
<1>1. CASE sock[k].err /\ Bail /\ UNCHANGED <<buffer, printed>>
  BY <1>1 DEF Bail, txVars, RawInv, RxTypeOK, TxInv, PollInv, PrintInv, Fits, Types
<1>2. CASE ~(sock[k].err /\ Bail /\ UNCHANGED <<buffer, printed>>)
  <2>. DEFINE got == Head(sock[k].queue)
  <2>1. /\ sock[k].queue # <<>>
        /\ buffer' = Received(got)
        /\ printed' = [data |-> got, text |-> AsString(buffer')]
        /\ sock' = [sock EXCEPT ![k].queue = Tail(@)]
        /\ rx_pc' = next
    BY <1>2 DEF RecvAndPrint
  <2>2. sock \in Seq(Socket) /\ sock[k] \in Socket
    BY DEF RawInv, RxTypeOK
  <2>3. got \in Seq(STRING) /\ Tail(sock[k].queue) \in Seq(Seq(STRING))
    BY <2>1, <2>2, HeadTailProperties DEF Socket
  <2>4. [sock[k] EXCEPT !.queue = Tail(sock[k].queue)] \in Socket
    BY <2>2, <2>3 DEF Socket
  <2>5. sock' = [sock EXCEPT ![k] = [sock[k] EXCEPT !.queue = Tail(sock[k].queue)]]
    BY <2>1
  <2>6. sock' \in Seq(Socket) /\ Len(sock') = Len(sock) /\ \A n \in 1 .. Len(sock) : n # k => sock'[n] = sock[n]
    BY <2>2, <2>4, <2>5
  <2>7. buffer' \in [1 .. BufferSize -> STRING]
    BY <2>1, <2>3, RawAssumption DEF Received, RawInv, RxTypeOK
  <2>8. RxTypeOK'
    BY <2>1, <2>6, <2>7 DEF RawInv, RxTypeOK, Types
  <2>9. TxInv'
    BY DEF txVars, RawInv, TxInv
  <2>10. PollInv'
    <3>1. next = "second" => Len(sock) = 2 /\ (revents[2] => sock[2].queue # <<>>)
      BY TypesLength DEF RawInv, RxTypeOK, PollInv
    <3>. QED BY <2>1, <2>6, <3>1 DEF PollInv
  <2>11. PrintInv'
    <3>1. (got = Append(arg.text, NUL) /\ Fits) => AsString(Received(got)) = arg.text
      BY MessageIsPrinted DEF RawInv, TxInv
    <3>. QED BY <2>1, <3>1 DEF txVars, PrintInv, Fits
  <2>. QED BY <2>8, <2>9, <2>10, <2>11 DEF RawInv
<1>. QED BY <1>1, <1>2

LEMMA LoopStep == RawInv /\ (RxRaw \/ Poll \/ ReadFirst \/ ReadSecond) => RawInv'
<1>. SUFFICES ASSUME RawInv, RxRaw \/ Poll \/ ReadFirst \/ ReadSecond PROVE RawInv'
  OBVIOUS
<1>1. rx_pc \in {"loop", "first", "second"} => Len(sock) = IF tool = "rx_poll" THEN 2 ELSE 1
  BY TypesLength DEF RawInv, RxTypeOK
<1>2. CASE RxRaw
  BY <1>1, <1>2, RecvStep DEF RxRaw
<1>3. CASE Poll
  <2>1. revents' \in [1 .. 2 -> BOOLEAN] /\ \A k \in 1 .. 2 : revents'[k] => sock[k].queue # <<>>
    BY <1>3 DEF Poll, Events, RawInv, RxTypeOK
  <2>. QED BY <1>3, <2>1 DEF Poll, txVars, RawInv, RxTypeOK, TxInv, PollInv, PrintInv, Fits, Types
<1>4. CASE ReadFirst
  <2>1. CASE revents[1]
    <3>1. /\ rx_pc = "first" /\ RecvAndPrint(1, "second")
          /\ UNCHANGED <<txVars, tool, second_events, revents>>
      BY <1>4, <2>1 DEF ReadFirst
    <3>2. 1 \in 1 .. Len(sock)
      BY <1>1, <3>1 DEF RawInv, RxTypeOK
    <3>. QED BY <3>1, <3>2, RecvStep
  <2>2. CASE ~revents[1]
    BY <1>4, <2>2 DEF ReadFirst, txVars, RawInv, RxTypeOK, TxInv, PollInv, PrintInv, Fits, Types
  <2>. QED BY <2>1, <2>2
<1>5. CASE ReadSecond
  <2>1. CASE revents[2]
    BY <1>1, <1>5, <2>1, RecvStep DEF ReadSecond, RawInv, RxTypeOK
  <2>2. CASE ~revents[2]
    BY <1>5, <2>2 DEF ReadSecond, txVars, RawInv, RxTypeOK, TxInv, PollInv, PrintInv, Fits, Types
  <2>. QED BY <2>1, <2>2
<1>. QED BY <1>2, <1>3, <1>4, <1>5

LEMMA RawStepInv == RawInv /\ [RawNext]_rawVars => RawInv'
<1>. SUFFICES ASSUME RawInv, [RawNext]_rawVars PROVE RawInv'
  OBVIOUS
<1>1. CASE UNCHANGED rawVars
  BY <1>1 DEF rawVars, txVars, rxVars, RawInv, RxTypeOK, TxInv, PollInv, PrintInv, Fits, Types
<1>2. CASE PollFails
  BY <1>1, <1>2 DEF PollFails
<1>. QED BY <1>1, <1>2, SenderStep, KernelStep, StartStep, LoopStep DEF RawNext, Receiver

LEMMA RawInvHolds == RawSpec => []RawInv
BY RawInitInv, RawStepInv, PTL DEF RawSpec

(* rx_poll calls recv() only where it returns at once, for any traffic and *)
(* whatever the kernel does to the sockets between poll() and recv().      *)
THEOREM PolledReadsReturn == RawSpec => []RecvNeverBlocks
<1>1. RawInv => RecvNeverBlocks
  BY DEF RawInv, RxTypeOK, PollInv, RecvNeverBlocks, Returns
<1>. QED BY <1>1, RawInvHolds, PTL

(* A message that fits the buffer is printed as it was typed, for any      *)
(* messages and any frames received before it.                             *)
THEOREM MessagesArePrinted == RawSpec => []PrintsTheMessage
<1>1. RawInv => PrintsTheMessage
  BY DEF RawInv, TxInv, PrintInv, PrintsTheMessage
<1>. QED BY <1>1, RawInvHolds, PTL

(* What poll() was not asked, it never reports.                            *)
NotAskedInv == rx_pc \in {"first", "second"} /\ ~Events(2) => ~revents[2]

LEMMA NotAskedStep == NotAskedInv /\ [RawNext]_rawVars => NotAskedInv'
<1>. SUFFICES ASSUME NotAskedInv, [RawNext]_rawVars PROVE NotAskedInv'
  OBVIOUS
<1>1. CASE TxNext \/ UNCHANGED rawVars \/ PollFails
  BY <1>1 DEF TxNext, TxCheck, TxOpen, TxFill, TxSend, TxBail, PollFails, rawVars, rxVars, NotAskedInv, Events
<1>2. CASE Arrive \/ InterfaceDown
  BY <1>2 DEF Arrive, InterfaceDown, NotAskedInv, Events
<1>3. CASE RxCheck \/ RxOpen \/ Malloc
  BY <1>3 DEF RxCheck, RxOpen, Malloc, Bail, NotAskedInv
<1>4. CASE RxRaw
  BY <1>4 DEF RxRaw, RecvAndPrint, Bail, NotAskedInv
<1>5. CASE Poll
  <2>1. revents' = [k \in 1 .. 2 |-> Events(k) /\ sock[k].queue # <<>>] /\ second_events' = second_events
    BY <1>5 DEF Poll
  <2>2. revents'[2] = (Events(2) /\ sock[2].queue # <<>>)
    BY <2>1
  <2>3. Events(2)' = Events(2)
    BY <2>1 DEF Events
  <2>. QED BY <2>2, <2>3 DEF NotAskedInv
<1>6. CASE ReadFirst
  BY <1>6 DEF ReadFirst, RecvAndPrint, Bail, Events, NotAskedInv
<1>7. CASE ReadSecond
  BY <1>7 DEF ReadSecond, RecvAndPrint, Bail, Events, NotAskedInv
<1>. QED BY <1>1, <1>2, <1>3, <1>4, <1>5, <1>6, <1>7 DEF RawNext, Receiver

(* rx_poll.c:91-92.  The line meant for the second entry of the poll set   *)
(* fills in the first one again: where events of the second is clear, no   *)
(* frame of the second type is ever received, however many wait for it.    *)
SecondTypeWaits ==
    ~Events(2) /\ 2 \in DOMAIN sock /\ 2 \in DOMAIN sock' =>
        Len(sock'[2].queue) >= Len(sock[2].queue)

LEMMA SecondWaits ==
    ASSUME RawInv, NotAskedInv, RawNext
    PROVE  SecondTypeWaits
<1>. SUFFICES ASSUME ~Events(2), 2 \in DOMAIN sock, 2 \in DOMAIN sock'
              PROVE  Len(sock'[2].queue) >= Len(sock[2].queue)
  BY DEF SecondTypeWaits
<1>0. /\ sock \in Seq(Socket) /\ Len(sock) \in Nat /\ Len(sock) >= 2
      /\ \A k \in DOMAIN sock : /\ sock[k] \in Socket /\ sock[k].queue \in Seq(Seq(STRING))
                                /\ Len(sock[k].queue) \in Nat
  <2>1. sock \in Seq(Socket) /\ DOMAIN sock = 1 .. Len(sock)
    BY DEF RawInv, RxTypeOK
  <2>2. \A k \in DOMAIN sock : sock[k] \in Socket
    BY <2>1
  <2>3. \A s \in Socket : s.queue \in Seq(Seq(STRING)) /\ Len(s.queue) \in Nat
    BY DEF Socket
  <2>. QED BY <2>1, <2>2, <2>3
<1>1. CASE sock' = sock \/ sock' = <<>>
  BY <1>0, <1>1
<1>2. CASE Arrive
  <2>1. PICK k \in DOMAIN sock, f \in sent \cup Strays : sock' = [sock EXCEPT ![k].queue = Append(@, f.data)]
    BY <1>2 DEF Arrive
  <2>2. CASE k = 2
    <3>1. sock'[2].queue = Append(sock[2].queue, f.data)
      BY <2>1, <2>2, <1>0 DEF Socket
    <3>. QED BY <1>0, <3>1
  <2>3. CASE k # 2
    BY <1>0, <2>1, <2>3
  <2>. QED BY <2>2, <2>3
<1>3. CASE InterfaceDown
  <2>1. sock'[2] = [sock[2] EXCEPT !.err = TRUE] /\ sock[2] \in Socket
    BY <1>0, <1>3 DEF InterfaceDown
  <2>2. sock'[2].queue = sock[2].queue
    BY <2>1 DEF Socket
  <2>. QED BY <1>0, <2>2
<1>4. CASE RxOpen
  <2>1. rx_pc = "open"
    BY <1>4 DEF RxOpen
  <2>2. Len(sock) < Len(Types)
    BY <2>1 DEF RawInv, RxTypeOK
  <2>. QED BY <1>0, <2>2, TypesLength
<1>5. ASSUME NEW next, RecvAndPrint(1, next) PROVE sock' = <<>> \/ sock'[2] = sock[2]
  BY <1>5, <1>0 DEF RecvAndPrint, Bail
<1>6. CASE RxRaw \/ ReadFirst
  <2>1. sock' = sock \/ sock' = <<>> \/ sock'[2] = sock[2]
    BY <1>5, <1>6 DEF RxRaw, ReadFirst
  <2>. QED BY <1>0, <1>1, <2>1
<1>7. CASE ReadSecond
  BY <1>1, <1>7 DEF ReadSecond, NotAskedInv
<1>8. CASE TxNext \/ RxCheck \/ Malloc \/ Poll \/ PollFails
  <2>1. sock' = sock \/ sock' = <<>>
    BY <1>8 DEF TxNext, TxCheck, TxOpen, TxFill, TxSend, TxBail, RxCheck, Malloc, Bail, Poll, PollFails, rawVars, rxVars
  <2>. QED BY <1>1, <2>1
<1>. QED BY <1>2, <1>3, <1>4, <1>6, <1>7, <1>8 DEF RawNext, Receiver

(* rx_poll.c:92, for any traffic.                                          *)
THEOREM UnaskedTypeIsNeverRead == RawSpec => [][SecondTypeWaits]_rawVars
<1>1. RawInit => NotAskedInv
  BY DEF RawInit, NotAskedInv
<1>. QED BY <1>1, RawInvHolds, NotAskedStep, SecondWaits, PTL DEF RawSpec

----------------------------------------------------------------------------
(* The MQTT publisher and subscriber.                                      *)

PublisherInv ==
    /\ at \in [Clients -> {"started", "connected", "waiting", "receiving", "done", "failed"}]
    /\ rc \in [Publishers -> {MQTTCLIENT_SUCCESS, MQTTCLIENT_FAILURE}]
    /\ log \in Seq(Publishers)
    /\ inflight \subseteq Publishers
    /\ \A p \in acked : Taken(p)
    /\ \A p \in Publishers : topic[p] \notin IllegalTopics =>
        /\ at[p] = "waiting" => (p \in outbound \/ Taken(p))
        /\ at[p] = "done" /\ rc[p] = MQTTCLIENT_SUCCESS => Taken(p)

Held(s) == ToSet(outbox[s]) \cup ToSet(shown[s])

SubscriberInv ==
    /\ outbox \in [Subscribers -> Seq(Nat)]
    /\ shown \in [Subscribers -> Seq(Nat)]
    /\ counted \in [Subscribers -> Nat]
    /\ \A s \in Subscribers : Held(s) \subseteq 1 .. Len(log)

MqttInv == PublisherInv /\ SubscriberInv

----------------------------------------------------------------------------
LEMMA TakenGrows ==
    ASSUME log \in Seq(Publishers), NEW p \in Publishers, log' = Append(log, p)
    PROVE  /\ log' \in Seq(Publishers) /\ Len(log') = Len(log) + 1 /\ Len(log) \in Nat
           /\ Taken(p)'
           /\ \A q : Taken(q) => Taken(q)'
<1>1. /\ log' \in Seq(Publishers) /\ Len(log') = Len(log) + 1 /\ Len(log) \in Nat
      /\ log'[Len(log) + 1] = p
      /\ \A k \in 1 .. Len(log) : log'[k] = log[k]
  BY AppendProperties
<1>2. DOMAIN log = 1 .. Len(log) /\ DOMAIN log' = 1 .. Len(log')
  BY <1>1
<1>. QED BY <1>1, <1>2 DEF Taken

LEMMA SetOfAppend ==
    ASSUME NEW S, NEW e \in Seq(S), NEW x \in S
    PROVE  ToSet(Append(e, x)) = ToSet(e) \cup {x}
<1>1. /\ DOMAIN Append(e, x) = 1 .. Len(e) + 1 /\ DOMAIN e = 1 .. Len(e) /\ Len(e) \in Nat
      /\ \A i \in 1 .. Len(e) : Append(e, x)[i] = e[i]
      /\ Append(e, x)[Len(e) + 1] = x
  BY AppendProperties
<1>. QED BY <1>1 DEF ToSet

LEMMA SetOfTail ==
    ASSUME NEW S, NEW e \in Seq(S), e # <<>>
    PROVE  ToSet(Tail(e)) \cup {Head(e)} = ToSet(e)
<1>1. /\ DOMAIN Tail(e) = 1 .. Len(e) - 1 /\ DOMAIN e = 1 .. Len(e) /\ Len(e) \in Nat /\ Len(e) > 0
      /\ \A i \in 1 .. Len(e) - 1 : Tail(e)[i] = e[i + 1]
      /\ Head(e) = e[1]
  BY HeadTailProperties
<1>2. \A i \in 1 .. Len(e) : i = 1 \/ (i - 1 \in 1 .. Len(e) - 1 /\ e[i] = Tail(e)[i - 1])
  BY <1>1
<1>3. \A i \in 1 .. Len(e) - 1 : i + 1 \in 1 .. Len(e)
  BY <1>1
<1>4. ASSUME NEW x \in ToSet(e) PROVE x \in ToSet(Tail(e)) \cup {Head(e)}
  <2>1. PICK i \in 1 .. Len(e) : x = e[i]
    BY <1>1 DEF ToSet
  <2>. QED BY <2>1, <1>1, <1>2 DEF ToSet
<1>5. Head(e) \in ToSet(e)
  BY <1>1 DEF ToSet
<1>6. ASSUME NEW x \in ToSet(Tail(e)) PROVE x \in ToSet(e)
  <2>1. PICK i \in 1 .. Len(e) - 1 : x = e[i + 1]
    BY <1>1 DEF ToSet
  <2>. QED BY <2>1, <1>1, <1>3 DEF ToSet
<1>. QED BY <1>4, <1>5, <1>6

LEMMA MqttInitInv == MqttInit => MqttInv
<1>. SUFFICES ASSUME MqttInit PROVE MqttInv
  OBVIOUS
<1>1. PublisherInv
  BY DEF MqttInit, PublisherInv, Clients
<1>2. SubscriberInv
  BY DEF MqttInit, SubscriberInv, Held, ToSet
<1>. QED BY <1>1, <1>2 DEF MqttInv

LEMMA PublisherStep == MqttInv /\ [MqttNext]_mqttVars => PublisherInv'
<1>. SUFFICES ASSUME MqttInv, [MqttNext]_mqttVars PROVE PublisherInv'
  OBVIOUS
<1>. USE MqttAssumption DEF MqttInv, PublisherInv, Taken
<1>1. CASE UNCHANGED mqttVars
  BY <1>1 DEF mqttVars
<1>2. ASSUME NEW c \in Clients, Connect(c) PROVE PublisherInv'
  BY <1>2 DEF Connect, Disconnect, Clients
<1>3. ASSUME NEW c \in Clients, LoseConnection(c) \/ Disconnected(c) PROVE PublisherInv'
  BY <1>3 DEF LoseConnection, Disconnected, Disconnect
<1>4. ASSUME NEW p \in Publishers, publishMessage(p) PROVE PublisherInv'
  BY <1>4 DEF publishMessage, Clients
<1>5. ASSUME NEW p \in Publishers, BrokerTakes(p) PROVE PublisherInv'
  BY <1>5, TakenGrows DEF BrokerTakes
<1>6. ASSUME NEW p \in Publishers, Acknowledged(p) PROVE PublisherInv'
  BY <1>6 DEF Acknowledged
<1>7. ASSUME NEW p \in Publishers, waitForCompletion(p) PROVE PublisherInv'
  BY <1>7 DEF waitForCompletion, Clients, MQTTCLIENT_SUCCESS, MQTTCLIENT_FAILURE
<1>8. ASSUME NEW s \in Subscribers, Subscribe(s) PROVE PublisherInv'
  BY <1>8 DEF Subscribe, Clients
<1>9. ASSUME NEW s \in Subscribers, Receive(s) \/ NoMessage(s) PROVE PublisherInv'
  BY <1>1, <1>9 DEF Receive, NoMessage
<1>10. ASSUME NEW s \in Subscribers, ReceiveFails(s) PROVE PublisherInv'
  BY <1>10 DEF ReceiveFails, Clients
<1>11. ASSUME NEW s \in Subscribers, Finish(s) PROVE PublisherInv'
  BY <1>11 DEF Finish, Clients
<1>. QED BY <1>1, <1>2, <1>3, <1>4, <1>5, <1>6, <1>7, <1>8, <1>9, <1>10, <1>11 DEF MqttNext

LEMMA SubscriberStep == MqttInv /\ [MqttNext]_mqttVars => SubscriberInv'
<1>. SUFFICES ASSUME MqttInv, [MqttNext]_mqttVars PROVE SubscriberInv'
  OBVIOUS
<1>. USE MqttAssumption DEF MqttInv, SubscriberInv
<1>1. ASSUME UNCHANGED <<outbox, shown, counted, log>> PROVE SubscriberInv'
  BY <1>1 DEF Held
<1>2. ASSUME NEW c \in Clients, Connect(c) \/ LoseConnection(c) \/ Disconnected(c) PROVE SubscriberInv'
  BY <1>1, <1>2 DEF Connect, LoseConnection, Disconnected
<1>3. ASSUME NEW p \in Publishers, publishMessage(p) \/ Acknowledged(p) \/ waitForCompletion(p) PROVE SubscriberInv'
  BY <1>1, <1>3 DEF publishMessage, Acknowledged, waitForCompletion
<1>4. ASSUME NEW s \in Subscribers, Subscribe(s) \/ NoMessage(s) \/ ReceiveFails(s) \/ Finish(s) PROVE SubscriberInv'
  BY <1>1, <1>4 DEF Subscribe, NoMessage, ReceiveFails, Finish, mqttVars
<1>5. ASSUME NEW s \in Subscribers, Receive(s) PROVE SubscriberInv'
  <2>1. /\ outbox[s] \in Seq(Nat) /\ outbox[s] # <<>> /\ shown[s] \in Seq(Nat)
        /\ shown' = [shown EXCEPT ![s] = Append(shown[s], Head(outbox[s]))]
        /\ outbox' = [outbox EXCEPT ![s] = Tail(outbox[s])]
        /\ counted' = [counted EXCEPT ![s] = counted[s] + 1]
        /\ UNCHANGED log
    BY <1>5 DEF Receive
  <2>2. Head(outbox[s]) \in Nat /\ Tail(outbox[s]) \in Seq(Nat) /\ Append(shown[s], Head(outbox[s])) \in Seq(Nat)
    BY <2>1, HeadTailProperties, AppendProperties
  <2>3. Held(s)' = Held(s)
    <3>1. ToSet(shown[s])' = ToSet(shown[s]) \cup {Head(outbox[s])}
      BY <2>1, <2>2, SetOfAppend
    <3>2. ToSet(outbox[s])' \cup {Head(outbox[s])} = ToSet(outbox[s])
      BY <2>1, SetOfTail
    <3>. QED BY <3>1, <3>2 DEF Held
  <2>4. \A t \in Subscribers : Held(t)' = Held(t)
    <3>. TAKE t \in Subscribers
    <3>1. CASE t = s
      BY <2>3, <3>1
    <3>2. CASE t # s
      BY <2>1, <3>2 DEF Held
    <3>. QED BY <3>1, <3>2
  <2>5. outbox' \in [Subscribers -> Seq(Nat)] /\ shown' \in [Subscribers -> Seq(Nat)]
    BY <2>1, <2>2
  <2>. QED BY <2>1, <2>4, <2>5
<1>6. ASSUME NEW p \in Publishers, BrokerTakes(p) PROVE SubscriberInv'
  <2>. DEFINE To(s) == s \in subscribed /\ topic[s] = topic[p]
              new == Len(log) + 1
  <2>1. /\ log' = Append(log, p) /\ Len(log') = new /\ Len(log) \in Nat /\ new \in Nat
        /\ outbox' = [s \in Subscribers |-> IF To(s) THEN Append(outbox[s], new) ELSE outbox[s]]
        /\ UNCHANGED <<shown, counted>>
    BY <1>6, TakenGrows DEF BrokerTakes, PublisherInv
  <2>2. outbox' \in [Subscribers -> Seq(Nat)]
    BY <2>1, AppendProperties
  <2>3. \A s \in Subscribers : Held(s)' = IF To(s) THEN Held(s) \cup {new} ELSE Held(s)
    <3>. TAKE s \in Subscribers
    <3>1. outbox[s] \in Seq(Nat)
      OBVIOUS
    <3>2. ToSet(outbox[s])' = IF To(s) THEN ToSet(outbox[s]) \cup {new} ELSE ToSet(outbox[s])
      <4>1. outbox'[s] = IF To(s) THEN Append(outbox[s], new) ELSE outbox[s]
        BY <2>1
      <4>2. ToSet(Append(outbox[s], new)) = ToSet(outbox[s]) \cup {new}
        <5>1. new \in Nat
          BY <2>1
        <5>. HIDE DEF new
        <5>. QED BY <3>1, <5>1, SetOfAppend
      <4>. QED BY <4>1, <4>2
    <3>. QED BY <2>1, <3>2 DEF Held
  <2>4. ASSUME NEW s \in Subscribers PROVE Held(s)' \subseteq 1 .. Len(log)'
    <3>1. Held(s) \subseteq 1 .. Len(log) /\ Held(s)' \subseteq Held(s) \cup {new}
      BY <2>3
    <3>2. 1 .. Len(log)' = 1 .. Len(log) \cup {new}
      BY <2>1
    <3>. QED BY <3>1, <3>2
  <2>. QED BY <2>1, <2>2, <2>4
<1>. QED BY <1>1, <1>2, <1>3, <1>4, <1>5, <1>6 DEF MqttNext, mqttVars

(* What a subscriber holds is what the broker has forwarded, up to some    *)
(* place: to the end of the log while it is subscribed.                    *)
Forwarded(s, n) ==
    /\ Held(s) = {k \in Matching(s) : k <= n}
    /\ s \in subscribed => n = Len(log)

InOrder(s) ==
    /\ Ascending(shown[s]) /\ Ascending(outbox[s])
    /\ \A k \in ToSet(shown[s]), l \in ToSet(outbox[s]) : k < l
    /\ since[s] \in 0 .. Len(log)
    /\ \E n \in 0 .. Len(log) : Forwarded(s, n)
    /\ at[s] \in {"started", "connected"} => shown[s] = <<>> /\ outbox[s] = <<>> /\ s \notin subscribed
    /\ counted[s] = Len(shown[s]) /\ counted[s] <= Wanted
    /\ at[s] = "done" => Len(shown[s]) = Wanted

OrderInv ==
    /\ since \in [Subscribers -> Nat]
    /\ \A s \in Subscribers : InOrder(s)

LEMMA AscendingAppend ==
    ASSUME NEW e \in Seq(Nat), Ascending(e), NEW x \in Nat, \A k \in ToSet(e) : k < x
    PROVE  Ascending(Append(e, x))
<1>1. /\ DOMAIN Append(e, x) = 1 .. Len(e) + 1 /\ DOMAIN e = 1 .. Len(e) /\ Len(e) \in Nat
      /\ \A i \in 1 .. Len(e) : Append(e, x)[i] = e[i]
      /\ Append(e, x)[Len(e) + 1] = x
  BY AppendProperties
<1>2. \A i \in 1 .. Len(e) : e[i] < x
  BY <1>1 DEF ToSet
<1>. QED BY <1>1, <1>2 DEF Ascending

LEMMA AscendingTail ==
    ASSUME NEW e \in Seq(Nat), Ascending(e), e # <<>>
    PROVE  /\ Ascending(Tail(e)) /\ \A k \in ToSet(Tail(e)) : Head(e) < k
<1>1. /\ DOMAIN Tail(e) = 1 .. Len(e) - 1 /\ DOMAIN e = 1 .. Len(e) /\ Len(e) \in Nat /\ Len(e) > 0
      /\ \A i \in 1 .. Len(e) - 1 : Tail(e)[i] = e[i + 1]
      /\ Head(e) = e[1]
  BY HeadTailProperties
<1>2. \A i \in 1 .. Len(e) - 1 : i + 1 \in 1 .. Len(e) /\ 1 < i + 1 /\ 1 \in 1 .. Len(e)
  BY <1>1
<1>3. Ascending(Tail(e))
  BY <1>1, <1>2 DEF Ascending
<1>4. \A i \in 1 .. Len(e) - 1 : e[1] < e[i + 1]
  BY <1>1, <1>2 DEF Ascending
<1>. QED BY <1>1, <1>3, <1>4 DEF ToSet

LEMMA OrderInit == MqttInit => OrderInv
<1>. SUFFICES ASSUME MqttInit, NEW s \in Subscribers PROVE InOrder(s)
  BY DEF OrderInv, MqttInit
<1>1. shown[s] = <<>> /\ outbox[s] = <<>> /\ log = <<>> /\ since[s] = 0 /\ subscribed = {} /\ at[s] = "started" /\ counted[s] = 0
  BY DEF MqttInit, Clients
<1>2. Forwarded(s, 0)
  BY <1>1 DEF Forwarded, Held, ToSet, Matching
<1>. QED BY <1>1, <1>2, MqttAssumption DEF InOrder, Ascending, ToSet

LEMMA OrderStep == MqttInv /\ OrderInv /\ [MqttNext]_mqttVars => OrderInv'
<1>. SUFFICES ASSUME MqttInv, OrderInv, [MqttNext]_mqttVars PROVE OrderInv'
  OBVIOUS
<1>. USE MqttAssumption
(* A step that moves no message, and subscribes nobody.                    *)
<1>1. ASSUME UNCHANGED <<topic, log, since, outbox, shown, counted>>, subscribed' \subseteq subscribed,
             \A s \in Subscribers :
                \/ at'[s] = at[s]
                \/ at[s] = "started" /\ at'[s] = "connected"
                \/ at'[s] = "failed"
                \/ at'[s] = "done" /\ Len(shown[s]) = Wanted
      PROVE  OrderInv'
  <2>. SUFFICES ASSUME NEW s \in Subscribers PROVE InOrder(s)'
    BY <1>1 DEF OrderInv
  <2>1. \A n : Forwarded(s, n) => Forwarded(s, n)'
    BY <1>1 DEF Forwarded, Held, Matching
  <2>. QED BY <1>1, <2>1 DEF OrderInv, InOrder
<1>2. CASE UNCHANGED mqttVars
  BY <1>1, <1>2 DEF mqttVars
<1>3. ASSUME NEW c \in Clients, Connect(c) \/ LoseConnection(c) \/ Disconnected(c) PROVE OrderInv'
  <2>1. \A s \in Subscribers : at'[s] = at[s] \/ (at[s] = "started" /\ at'[s] = "connected") \/ at'[s] = "failed"
    BY <1>3 DEF Connect, LoseConnection, Disconnected, MqttInv, PublisherInv, Clients
  <2>. QED BY <1>1, <1>3, <2>1 DEF Connect, LoseConnection, Disconnected, Disconnect
<1>4. ASSUME NEW p \in Publishers, publishMessage(p) \/ Acknowledged(p) \/ waitForCompletion(p) PROVE OrderInv'
  <2>1. \A s \in Subscribers : at'[s] = at[s]
    BY <1>4 DEF publishMessage, Acknowledged, waitForCompletion, MqttInv, PublisherInv, Clients
  <2>. QED BY <1>1, <1>4, <2>1 DEF publishMessage, Acknowledged, waitForCompletion
<1>5. ASSUME NEW s \in Subscribers, NoMessage(s) \/ ReceiveFails(s) \/ Finish(s) PROVE OrderInv'
  <2>1. ~Wants(s) => Len(shown[s]) = Wanted
    BY DEF Wants, OrderInv, InOrder, MqttInv, SubscriberInv
  <2>2. CASE NoMessage(s)
    BY <1>2, <2>2 DEF NoMessage
  <2>3. CASE ReceiveFails(s)
    <3>1. \A t \in Subscribers : at'[t] = at[t] \/ at'[t] = "failed"
      BY <2>3 DEF ReceiveFails, MqttInv, PublisherInv, Clients
    <3>. QED BY <1>1, <2>3, <3>1 DEF ReceiveFails
  <2>4. CASE Finish(s)
    <3>1. \A t \in Subscribers : at'[t] = at[t] \/ (at'[t] = "done" /\ Len(shown[t]) = Wanted)
      BY <2>1, <2>4 DEF Finish, MqttInv, PublisherInv, Clients
    <3>. QED BY <1>1, <2>4, <3>1 DEF Finish
  <2>. QED BY <1>5, <2>2, <2>3, <2>4
<1>6. ASSUME NEW s \in Subscribers, Subscribe(s) PROVE OrderInv'
  <2>1. CASE ~(s \in online /\ topic[s] \notin IllegalTopics)
    <3>1. \A t \in Subscribers : at'[t] = at[t] \/ at'[t] = "failed"
      BY <1>6, <2>1 DEF Subscribe, MqttInv, PublisherInv, Clients
    <3>. QED BY <1>1, <1>6, <2>1, <3>1 DEF Subscribe
  <2>2. CASE s \in online /\ topic[s] \notin IllegalTopics
    <3>. SUFFICES ASSUME NEW t \in Subscribers PROVE InOrder(t)'
      <4>1. since' \in [Subscribers -> Nat]
        BY <1>6, <2>2 DEF Subscribe, OrderInv, MqttInv, PublisherInv
      <4>. QED BY <4>1 DEF OrderInv
    <3>0. Len(log) \in Nat
      BY DEF MqttInv, PublisherInv
    <3>1. CASE t = s
      <4>1. shown[s] = <<>> /\ outbox[s] = <<>> /\ UNCHANGED <<shown, outbox, counted, log, topic>>
        BY <1>6 DEF Subscribe, OrderInv, InOrder
      <4>2. since'[s] = Len(log) /\ at'[s] = "receiving"
        BY <1>6, <2>2 DEF Subscribe, MqttInv, PublisherInv, Clients, OrderInv, InOrder
      <4>3. Matching(s)' = {} /\ Held(s)' = {}
        BY <3>0, <4>1, <4>2 DEF Matching, Held, ToSet, MqttInv, PublisherInv
      <4>4. Forwarded(s, Len(log))'
        BY <4>1, <4>3 DEF Forwarded
      <4>5. counted[s] = 0
        BY <4>1 DEF OrderInv, InOrder
      <4>. QED BY <3>0, <3>1, <4>1, <4>2, <4>4, <4>5 DEF InOrder, Ascending, ToSet
    <3>2. CASE t # s
      <4>1. UNCHANGED <<shown, outbox, counted, log, topic, since[t], at[t]>> /\ (t \in subscribed' <=> t \in subscribed)
        BY <1>6, <2>2, <3>2 DEF Subscribe, MqttInv, PublisherInv, OrderInv, Clients
      <4>2. \A n : Forwarded(t, n) => Forwarded(t, n)'
        BY <4>1 DEF Forwarded, Held, Matching
      <4>. QED BY <4>1, <4>2 DEF OrderInv, InOrder
    <3>. QED BY <3>1, <3>2
  <2>. QED BY <2>1, <2>2
<1>7. ASSUME NEW s \in Subscribers, Receive(s) PROVE OrderInv'
  <2>. DEFINE x == Head(outbox[s])
  <2>1. /\ outbox[s] \in Seq(Nat) /\ outbox[s] # <<>> /\ shown[s] \in Seq(Nat)
        /\ x \in Nat /\ x \in ToSet(outbox[s]) /\ counted[s] < Wanted /\ counted[s] \in Nat
        /\ UNCHANGED <<log, topic, since, at, subscribed>>
    BY <1>7, SetOfTail DEF Receive, Receiving, Wants, MqttInv, SubscriberInv
  <2>2. shown'[s] = Append(shown[s], x) /\ outbox'[s] = Tail(outbox[s]) /\ counted'[s] = counted[s] + 1
    BY <1>7 DEF Receive, MqttInv, SubscriberInv
  <2>3. \A t \in Subscribers : t # s => shown'[t] = shown[t] /\ outbox'[t] = outbox[t] /\ counted'[t] = counted[t]
    BY <1>7 DEF Receive, MqttInv, SubscriberInv
  <2>. SUFFICES ASSUME NEW t \in Subscribers PROVE InOrder(t)'
    BY <2>1 DEF OrderInv
  <2>4. CASE t # s
    <3>1. \A n : Forwarded(t, n) => Forwarded(t, n)'
      BY <2>1, <2>3, <2>4 DEF Forwarded, Held, Matching
    <3>. QED BY <2>1, <2>3, <2>4, <3>1 DEF OrderInv, InOrder
  <2>5. CASE t = s
    <3>1. ToSet(shown'[s]) = ToSet(shown[s]) \cup {x}
      BY <2>1, <2>2, SetOfAppend
    <3>2. ToSet(outbox'[s]) \cup {x} = ToSet(outbox[s])
      BY <2>1, <2>2, SetOfTail
    <3>3. \A n : Forwarded(s, n) => Forwarded(s, n)'
      BY <2>1, <3>1, <3>2 DEF Forwarded, Held, Matching
    <3>4. Ascending(shown'[s])
      BY <2>1, <2>2, AscendingAppend DEF OrderInv, InOrder
    <3>5. Ascending(outbox'[s]) /\ \A k \in ToSet(outbox'[s]) : x < k
      BY <2>1, <2>2, AscendingTail DEF OrderInv, InOrder
    <3>6. \A k \in ToSet(shown'[s]), l \in ToSet(outbox'[s]) : k < l
      BY <3>1, <3>2, <3>5 DEF OrderInv, InOrder
    <3>7. Len(shown'[s]) = counted'[s] /\ counted'[s] <= Wanted
      <4>1. Len(shown[s]) = counted[s]
        BY DEF OrderInv, InOrder
      <4>2. Len(shown'[s]) = Len(shown[s]) + 1
        BY <2>1, <2>2, AppendProperties
      <4>. QED BY <2>1, <2>2, <4>1, <4>2
    <3>8. at[s] = "receiving"
      BY <1>7 DEF Receive, Receiving
    <3>. HIDE DEF x
    <3>. QED BY <2>1, <2>5, <3>3, <3>4, <3>5, <3>6, <3>7, <3>8 DEF OrderInv, InOrder
  <2>. QED BY <2>4, <2>5
<1>8. ASSUME NEW p \in Publishers, BrokerTakes(p) PROVE OrderInv'
  <2>. DEFINE new == Len(log) + 1
  <2>1. /\ log' = Append(log, p) /\ Len(log') = new /\ Len(log) \in Nat
        /\ DOMAIN log = 1 .. Len(log) /\ DOMAIN log' = 1 .. new
        /\ log'[new] = p /\ \A k \in 1 .. Len(log) : log'[k] = log[k]
        /\ UNCHANGED <<topic, at, subscribed, since, shown, counted>>
    BY <1>8, AppendProperties DEF BrokerTakes, MqttInv, PublisherInv
  <2>. SUFFICES ASSUME NEW s \in Subscribers PROVE InOrder(s)'
    BY <2>1 DEF OrderInv
  <2>2. Matching(s)' = Matching(s) \cup (IF topic[p] = topic[s] THEN {new} ELSE {})
    BY <2>1 DEF Matching, OrderInv, InOrder
  <2>3. Matching(s) \subseteq 1 .. Len(log) /\ outbox[s] \in Seq(Nat)
    BY <2>1 DEF Matching, MqttInv, SubscriberInv
  <2>4. s \in subscribed => Held(s) = Matching(s)
    <3>1. PICK n \in 0 .. Len(log) : Forwarded(s, n)
      BY DEF OrderInv, InOrder
    <3>2. \A k \in Matching(s) : k <= Len(log)
      BY <2>1, <2>3
    <3>. QED BY <3>1, <3>2 DEF Forwarded
  <2>5. CASE s \in subscribed /\ topic[s] = topic[p]
    <3>1. outbox'[s] = Append(outbox[s], new)
      BY <1>8, <2>1, <2>5 DEF BrokerTakes
    <3>2. \A k \in Held(s) : k < new
      BY <2>1 DEF MqttInv, SubscriberInv
    <3>3. ToSet(outbox'[s]) = ToSet(outbox[s]) \cup {new} /\ Ascending(outbox'[s])
      <4>1. new \in Nat
        BY <2>1
      <4>2. \A k \in ToSet(outbox[s]) : k < new
        BY <3>2 DEF Held
      <4>3. Ascending(outbox[s])
        BY DEF OrderInv, InOrder
      <4>. HIDE DEF new
      <4>4. ToSet(outbox'[s]) = ToSet(outbox[s]) \cup {new}
        BY <2>3, <3>1, <4>1, SetOfAppend
      <4>. QED BY <2>3, <3>1, <4>1, <4>2, <4>3, <4>4, AscendingAppend
    <3>4. Held(s)' = Held(s) \cup {new}
      BY <2>1, <3>3 DEF Held
    <3>5. Held(s) = Matching(s)
      BY <2>5, <2>4
    <3>6. Forwarded(s, Len(log))'
      BY <2>1, <2>2, <2>3, <2>5, <3>4, <3>5 DEF Forwarded
    <3>7. \A k \in ToSet(shown[s]), l \in ToSet(outbox'[s]) : k < l
      BY <3>2, <3>3 DEF OrderInv, InOrder, Held
    <3>. QED BY <2>1, <2>5, <3>3, <3>6, <3>7 DEF OrderInv, InOrder
  <2>6. CASE s \in subscribed /\ topic[s] # topic[p]
    <3>0. Held(s) = Matching(s)
      BY <2>6, <2>4
    <3>1. outbox'[s] = outbox[s] /\ Held(s)' = Held(s) /\ Matching(s)' = Matching(s)
      BY <1>8, <2>1, <2>2, <2>6 DEF BrokerTakes, Held
    <3>2. Forwarded(s, Len(log))'
      BY <2>1, <2>3, <2>6, <3>0, <3>1 DEF Forwarded
    <3>. QED BY <2>1, <3>1, <3>2 DEF OrderInv, InOrder
  <2>7. CASE s \notin subscribed
    <3>1. outbox'[s] = outbox[s] /\ Held(s)' = Held(s)
      BY <1>8, <2>1, <2>7 DEF BrokerTakes, Held
    <3>2. ASSUME NEW n \in 0 .. Len(log), Forwarded(s, n) PROVE Forwarded(s, n)'
      <4>1. \A k : k \in Matching(s) /\ k <= n <=> k \in Matching(s)' /\ k <= n
        BY <2>1, <2>2
      <4>2. Held(s)' = {k \in Matching(s)' : k <= n}
        BY <3>1, <3>2, <4>1 DEF Forwarded
      <4>. QED BY <2>1, <2>7, <4>2 DEF Forwarded
    <3>. QED BY <2>1, <3>1, <3>2 DEF OrderInv, InOrder
  <2>. QED BY <2>5, <2>6, <2>7
<1>. QED BY <1>2, <1>3, <1>4, <1>5, <1>6, <1>7, <1>8 DEF MqttNext

LEMMA MqttInvHolds == MqttSpec => []MqttInv
<1>1. MqttInv /\ [MqttNext]_mqttVars => MqttInv'
  BY PublisherStep, SubscriberStep DEF MqttInv
<1>. QED BY <1>1, MqttInitInv, PTL DEF MqttSpec

(* A publisher that returns 0 has had its message taken, for any number of *)
(* publishers and any losses.                                              *)
THEOREM ReturnedZeroIsTaken == MqttSpec => []SuccessMeansTaken
<1>1. MqttInv => SuccessMeansTaken
  BY DEF MqttInv, PublisherInv, SuccessMeansTaken
<1>. QED BY <1>1, MqttInvHolds, PTL

(* Subscribers print what they subscribed to in its order, leave nothing   *)
(* out, and end with as many messages as they want, whatever time-outs     *)
(* they had: for any number of them, of publishers and of messages.        *)
THEOREM PrintedInOrderOnce == MqttSpec => []PrintsInOrderOnce
<1>1. MqttInv /\ OrderInv => PrintsInOrderOnce
  <2>. SUFFICES ASSUME MqttInv, OrderInv PROVE PrintsInOrderOnce
    OBVIOUS
  <2>1. ASSUME NEW s \in Subscribers
        PROVE  ToSet(shown[s]) = {k \in Matching(s) : \E l \in ToSet(shown[s]) : k <= l}
    <3>1. PICK n \in 0 .. Len(log) : Forwarded(s, n)
      BY DEF OrderInv, InOrder
    <3>2. Held(s) \subseteq Nat /\ Matching(s) \subseteq Nat /\ n \in Int
      BY DEF MqttInv, SubscriberInv, PublisherInv, Matching
    <3>3. \A k \in ToSet(shown[s]) : k \in Matching(s) /\ k <= k
      BY <3>1, <3>2 DEF Forwarded, Held
    <3>4. ASSUME NEW k \in Matching(s), NEW l \in ToSet(shown[s]), k <= l PROVE k \in ToSet(shown[s])
      <4>1. l \in Held(s) /\ l <= n
        BY <3>1, <3>4 DEF Forwarded, Held
      <4>2. k \in Held(s)
        BY <3>1, <3>2, <3>4, <4>1 DEF Forwarded
      <4>3. k \notin ToSet(outbox[s])
        <5>1. k \in Nat /\ l \in Nat
          BY <3>2, <4>1
        <5>2. k \in ToSet(outbox[s]) => l < k
          BY <3>4 DEF OrderInv, InOrder
        <5>. QED BY <3>4, <5>1, <5>2
      <4>. QED BY <4>2, <4>3 DEF Held
    <3>. QED BY <3>3, <3>4
  <2>. QED BY <2>1 DEF PrintsInOrderOnce, OrderInv, InOrder
<1>. QED BY <1>1, MqttInvHolds, OrderInit, OrderStep, PTL DEF MqttSpec
=============================================================================
