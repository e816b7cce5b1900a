------------------------ MODULE MultiCapture_proofs ------------------------
(***************************************************************************)
(* Proofs about MultiCapture, for any number of ether types, any files and *)
(* any frames, and about MultiTransfer, of which it is the receiver.       *)
(*                                                                         *)
(* The realloc of a changed fragment count leaves a channel with fewer     *)
(* places than frag_count says, for good: MInv says what holds of the      *)
(* channels that are still Intact, and that only the others go wrong.      *)
(***************************************************************************)
EXTENDS MultiTransfer, CaptureFormat_proofs, FiniteSetTheorems,
    SequenceTheorems, TLAPS

(* The tables of a channel have the size frag_count says.                  *)
Intact(c) == DOMAIN sizes[c] = 1 .. frag_count[c]

(* What is known of a channel whose tables are intact.                     *)
ChannelOK(c) ==
    Intact(c) =>
        /\ sizes[c] \in [1 .. frag_count[c] -> Nat]
        /\ fragments[c] \in [1 .. frag_count[c] -> Payloads]
        /\ \A i \in 1 .. frag_count[c] : sizes[c][i] = 0 <=> fragments[c][i] = NULL
        /\ counter[c] = Cardinality(Have(c))
        /\ pc = "exit" => Have(c) = 1 .. frag_count[c]

(* Nothing laid out yet.                                                   *)
Blank ==
    /\ frag_count = [c \in Channels |-> 0]
    /\ fragments = NoTables
    /\ sizes = NoTables
    /\ counter = [c \in Channels |-> 0]

(* The inductive invariant.                                                *)
MInv ==
    /\ TypeOK
    /\ pc = "scan" => Blank /\ k \in Channels
    /\ pc # "completed" => out = NoTables
    /\ pc \in {"loop", "exit"} => \A c \in Channels : frag_count[c] # 0
    /\ \A c \in Channels : ChannelOK(c)
    /\ OnlyResizeUndefined

----------------------------------------------------------------------------
(* Lemmas on one channel.                                                  *)

(* The marks set on an intact channel, and what their number says.         *)
LEMMA HaveFinite ==
    ASSUME TypeOK, NEW c \in Channels, Intact(c)
    PROVE  /\ IsFiniteSet(Have(c))
           /\ Cardinality(Have(c)) \in Nat
           /\ frag_count[c] <= Cardinality(Have(c)) => Have(c) = 1 .. frag_count[c]
<1>0. frag_count[c] \in Nat
    BY DEF TypeOK
<1>1. IsFiniteSet(1 .. frag_count[c]) /\ Cardinality(1 .. frag_count[c]) = frag_count[c]
    BY <1>0, FS_Interval
<1>2. Have(c) \subseteq 1 .. frag_count[c]
    BY DEF Have, Intact
<1>3. /\ IsFiniteSet(Have(c))
      /\ Cardinality(Have(c)) <= frag_count[c]
      /\ Cardinality(Have(c)) = frag_count[c] => Have(c) = 1 .. frag_count[c]
    BY <1>1, <1>2, FS_Subset, Zenon
<1>4. Cardinality(Have(c)) \in Nat
    BY <1>3, FS_CardinalityType
<1>. QED
    BY <1>0, <1>3, <1>4

(* Once every counter has reached its bound, the intact channels are full. *)
LEMMA DoneIsFull ==
    ASSUME MInv, Done, NEW c \in Channels, Intact(c)
    PROVE  Have(c) = 1 .. frag_count[c]
BY HaveFinite DEF MInv, Done, ChannelOK, TypeOK

(* The socket read next is one of the sockets, or sfd_size.                *)
LEMMA FirstOtherType ==
    ASSUME NEW c \in Channels
    PROVE  FirstOther(c) \in 0 .. sfd_size
BY SocketsAssumption DEF FirstOther, Channels

(* A blank channel is intact and empty.                                    *)
LEMMA BlankChannels ==
    ASSUME Blank, pc # "exit", NEW c \in Channels
    PROVE  ChannelOK(c)
<1>1. /\ frag_count[c] = 0 /\ fragments[c] = <<>> /\ sizes[c] = <<>> /\ counter[c] = 0
    BY DEF Blank, NoTables
<1>2. DOMAIN sizes[c] = {}
    BY <1>1
<1>3. Have(c) = {}
    BY <1>2 DEF Have
<1>4. Cardinality(Have(c)) = 0
    BY <1>3, FS_EmptySet
<1>5. 1 .. frag_count[c] = {}
    BY <1>1
<1>6. sizes[c] \in [1 .. frag_count[c] -> Nat] /\ fragments[c] \in [1 .. frag_count[c] -> Payloads]
    BY <1>1, <1>5
<1>. QED
    BY <1>1, <1>4, <1>5, <1>6 DEF ChannelOK

(* What a resized table is: shorter than the count it was resized to, and  *)
(* of the values its entries had or are set to.                            *)
LEMMA ResizedSizes ==
    ASSUME TypeOK, k \in Channels, NEW fr \in Frames,
           ~Rejected(fr), Resized(fr)
    PROVE  /\ DOMAIN SizesFor(fr) # 1 .. fr.fragment_count
           /\ \E m \in 0 .. fr.fragment_count : SizesFor(fr) \in [1 .. m -> Int]
           /\ \E n \in 0 .. fr.fragment_count : FragmentsFor(fr) \in [1 .. n -> Payloads]
<1>. DEFINE N == fr.fragment_count
<1>1. N \in Nat /\ fr.fragment_index \in 1 .. N
    BY FrameFields DEF Rejected, BadIndex
<1>2. N \div 4 \in 0 .. N /\ N \div 8 \in 0 .. N /\ N \div 4 # N
    BY <1>1
<1>3. PICK n, m \in 0 .. frag_count[k] :
          fragments[k] \in [1 .. n -> Payloads] /\ sizes[k] \in [1 .. m -> Int]
    BY DEF TypeOK
<1>4. SizesFor(fr) = [i \in 1 .. N \div 4 |-> IF i \in DOMAIN sizes[k] THEN sizes[k][i] ELSE -1]
    BY DEF SizesFor, Realloc, WidthOfInt, Unset
<1>5. FragmentsFor(fr) =
          [i \in 1 .. N \div 8 |-> IF i \in DOMAIN fragments[k] THEN fragments[k][i] ELSE NULL]
    BY DEF FragmentsFor, Realloc, WidthOfPointer
<1>6. SizesFor(fr) \in [1 .. N \div 4 -> Int]
    BY <1>3, <1>4
<1>7. FragmentsFor(fr) \in [1 .. N \div 8 -> Payloads]
    BY <1>3, <1>5, NullPayload
<1>8. DOMAIN SizesFor(fr) = 1 .. N \div 4
    BY <1>6
<1>9. N \in 1 .. N /\ N \notin 1 .. N \div 4
    BY <1>1, <1>2
<1>. QED
    BY <1>2, <1>6, <1>7, <1>8, <1>9

(* A frame that resizes nothing leaves the tables as they were.            *)
LEMMA NotResized ==
    ASSUME NEW fr, ~Resized(fr)
    PROVE  SizesFor(fr) = sizes[k] /\ FragmentsFor(fr) = fragments[k]
           /\ fr.fragment_count = frag_count[k]
BY DEF Resized, SizesFor, FragmentsFor

----------------------------------------------------------------------------
(* The steps.                                                              *)

LEMMA InitMulti == Init => MInv
<1>. SUFFICES ASSUME Init PROVE MInv
    OBVIOUS
<1>1. Blank /\ k \in Channels /\ pc = "scan" /\ out = NoTables
    BY SocketsAssumption DEF Init, Blank, Channels
<1>2. \A c \in Channels : ChannelOK(c)
    BY <1>1, BlankChannels
<1>3. \A c \in Channels : fragments[c] \in [1 .. 0 -> Payloads] /\ sizes[c] \in [1 .. 0 -> Int]
    BY <1>1 DEF Blank, NoTables
<1>4. TypeOK
    BY <1>1, <1>3, SocketsAssumption DEF Init, TypeOK, NoTables, Channels
<1>. QED
    BY <1>1, <1>2, <1>4 DEF MInv, OnlyResizeUndefined

(* A step that leaves the tables and the output alone.                     *)
LEMMA TablesKept ==
    ASSUME MInv, UNCHANGED <<tables, out>>, pc # "completed",
           k' \in 0 .. sfd_size, old_k' \in 0 .. sfd_size,
           pc' \in {"scan", "loop", "undefined"},
           pc' # pc => pc = "scan" /\ pc' = "undefined",
           pc' = "scan" => k' \in Channels
    PROVE  MInv'
<1>1. TypeOK'
    BY DEF MInv, TypeOK, tables
<1>2. \A c \in Channels : Have(c)' = Have(c) /\ (Intact(c)' <=> Intact(c))
    BY DEF tables, Have, Intact
<1>3. \A c \in Channels : ChannelOK(c)'
    BY <1>2 DEF MInv, ChannelOK, tables
<1>4. pc = "scan" => \A c \in Channels : frag_count'[c] = 0
    BY DEF MInv, Blank, tables
<1>5. OnlyResizeUndefined'
    BY <1>4 DEF MInv, OnlyResizeUndefined, tables
<1>. QED
    BY <1>1, <1>3, <1>5 DEF MInv, Blank, tables

LEMMA ScanFailsStep ==
    ASSUME MInv, ScanFails
    PROVE  MInv'
<1>1. k \in 0 .. sfd_size - 1 /\ sfd_size \in Nat \ {0}
    BY SocketsAssumption DEF ScanFails, MInv, Channels
<1>2. k' \in 0 .. sfd_size
    BY <1>1 DEF ScanFails
<1>3. old_k' \in 0 .. sfd_size
    BY DEF ScanFails, MInv, TypeOK
<1>. QED
    BY <1>2, <1>3, TablesKept DEF ScanFails

LEMMA RecvFailsStep ==
    ASSUME MInv, RecvFails
    PROVE  MInv'
<1>1. old_k \in 0 .. sfd_size /\ sfd_size \in Nat \ {0}
    BY SocketsAssumption DEF MInv, TypeOK
<1>2. FirstOther(old_k) \in 0 .. sfd_size
    BY <1>1 DEF FirstOther
<1>3. k' \in 0 .. sfd_size
    BY <1>1, <1>2 DEF RecvFails, Channels
<1>. QED
    BY <1>1, <1>3, TablesKept DEF RecvFails

LEMMA RejectStep ==
    ASSUME MInv, k \in Channels, NEW fr \in Frames, Reject(fr)
    PROVE  MInv'
<1>1. k' \in 0 .. sfd_size /\ old_k' \in 0 .. sfd_size
    BY FirstOtherType DEF Reject, Visited, MInv, TypeOK
<1>. QED
    BY <1>1, TablesKept DEF Reject

LEMMA FirstFrameStep ==
    ASSUME MInv, NEW fr \in Frames, FirstFrame(fr)
    PROVE  MInv'
<1>. DEFINE x == fr.fragment_index
            n == fr.fragment_count
<1>1. /\ k \in Channels /\ Blank /\ pc = "scan" /\ out = NoTables
      /\ k' \in 0 .. sfd_size /\ old_k' \in 0 .. sfd_size
    BY FirstOtherType DEF FirstFrame, MInv, TypeOK
<1>2. CASE x \in 1 .. n
    <2>1. /\ n \in Nat /\ n # 0 /\ x \in 1 .. n
          /\ fr.fragment_size \in Nat \ {0}
          /\ Payload(fr) \in Payloads
          /\ Payload(fr) # NULL
        BY <1>2, FrameFields, IndexedFrame, PayloadType, StoredNotNull
    <2>2. /\ pc' = "loop"
          /\ frag_count' = [c \in Channels |-> n]
          /\ fragments' = [c \in Channels |-> [i \in 1 .. n |->
                 IF c = k /\ i = x THEN Payload(fr) ELSE NULL]]
          /\ sizes' = [c \in Channels |-> [i \in 1 .. n |->
                 IF c = k /\ i = x THEN fr.fragment_size ELSE 0]]
          /\ counter' = [c \in Channels |-> IF c = k THEN 1 ELSE 0]
          /\ out' = NoTables
        BY <1>1, <1>2 DEF FirstFrame, Blank
    <2>3. ASSUME NEW c \in Channels
          PROVE  /\ frag_count'[c] = n
                 /\ fragments'[c] \in [1 .. n -> Payloads]
                 /\ sizes'[c] \in [1 .. n -> Nat]
                 /\ \A i \in 1 .. n : sizes'[c][i] = 0 <=> fragments'[c][i] = NULL
                 /\ Have(c)' = IF c = k THEN {x} ELSE {}
        BY <2>1, <2>2, NullPayload DEF Have
    <2>4. TypeOK'
        <3>1. counter' \in [Channels -> Nat] /\ frag_count' \in [Channels -> Nat]
            BY <2>1, <2>2
        <3>2. ASSUME NEW c \in Channels
              PROVE  \E p, q \in 0 .. frag_count'[c] :
                        /\ fragments'[c] \in [1 .. p -> Payloads]
                        /\ sizes'[c] \in [1 .. q -> Int]
            <4>1. n \in 0 .. frag_count'[c] /\ sizes'[c] \in [1 .. n -> Int]
                BY <2>1, <2>3
            <4>. QED
                BY <2>3, <4>1
        <3>. QED
            BY <1>1, <2>2, <3>1, <3>2 DEF TypeOK
    <2>5. ASSUME NEW c \in Channels PROVE ChannelOK(c)'
        <3>1. CASE c = k
            <4>1. counter'[c] = 1 /\ Have(c)' = {x}
                BY <2>2, <2>3, <3>1
            <4>2. counter'[c] = Cardinality(Have(c)')
                BY <4>1, FS_Singleton, Zenon
            <4>. QED
                BY <2>2, <2>3, <4>2 DEF ChannelOK
        <3>2. CASE c # k
            <4>1. counter'[c] = 0 /\ Have(c)' = {}
                BY <2>2, <2>3, <3>2
            <4>2. counter'[c] = Cardinality(Have(c)')
                BY <4>1, FS_EmptySet, Zenon
            <4>. QED
                BY <2>2, <2>3, <4>2 DEF ChannelOK
        <3>. QED
            BY <3>1, <3>2
    <2>. QED
        BY <2>1, <2>2, <2>3, <2>4, <2>5 DEF MInv, OnlyResizeUndefined
<1>3. CASE x \notin 1 .. n
    BY <1>1, <1>3, TablesKept DEF FirstFrame
<1>. QED
    BY <1>2, <1>3

(* The layout a frame finds or makes for channel k, and the types of a     *)
(* step that puts tables of that layout there.                             *)
LEMMA LayoutType ==
    ASSUME MInv, k \in Channels, NEW fr \in Frames, ~Rejected(fr)
    PROVE  \E n, m \in 0 .. fr.fragment_count :
              /\ FragmentsFor(fr) \in [1 .. n -> Payloads]
              /\ SizesFor(fr) \in [1 .. m -> Int]
<1>1. CASE Resized(fr)
    BY <1>1, ResizedSizes DEF MInv
<1>2. CASE ~Resized(fr)
    <2>1. PICK n, m \in 0 .. frag_count[k] :
              fragments[k] \in [1 .. n -> Payloads] /\ sizes[k] \in [1 .. m -> Int]
        BY DEF MInv, TypeOK
    <2>2. /\ SizesFor(fr) = sizes[k] /\ FragmentsFor(fr) = fragments[k]
          /\ fr.fragment_count = frag_count[k]
        BY <1>2, NotResized
    <2>. QED
        BY <2>1, <2>2
<1>. QED
    BY <1>1, <1>2

LEMMA LaidOut ==
    ASSUME MInv, pc = "loop", k \in Channels, NEW fr \in Frames, ~Rejected(fr),
           NEW n \in 0 .. fr.fragment_count, NEW m \in 0 .. fr.fragment_count,
           NEW f \in [1 .. n -> Payloads], NEW s \in [1 .. m -> Int],
           frag_count' = [frag_count EXCEPT ![k] = fr.fragment_count],
           fragments' = [fragments EXCEPT ![k] = f],
           sizes' = [sizes EXCEPT ![k] = s],
           counter' \in [Channels -> Nat],
           pc' \in {"loop", "exit", "undefined"},
           Visited, UNCHANGED out
    PROVE  /\ TypeOK'
           /\ out' = NoTables
           /\ \A c \in Channels : frag_count'[c] # 0
<1>1. fr.fragment_count \in Nat /\ fr.fragment_count # 0
    BY FrameFields DEF Rejected, BadIndex
<1>2. frag_count' \in [Channels -> Nat] /\ \A c \in Channels : frag_count'[c] # 0
    BY <1>1 DEF MInv, TypeOK
<1>3. out' = NoTables
    BY DEF MInv
<1>4. k' \in 0 .. sfd_size /\ old_k' \in 0 .. sfd_size
    BY FirstOtherType DEF Visited, MInv, TypeOK
<1>5. ASSUME NEW c \in Channels
      PROVE  \E p, q \in 0 .. frag_count'[c] :
                /\ fragments'[c] \in [1 .. p -> Payloads]
                /\ sizes'[c] \in [1 .. q -> Int]
    BY DEF MInv, TypeOK
<1>. QED
    BY <1>2, <1>3, <1>4, <1>5 DEF MInv, TypeOK

(* What a channel that is intact after such a step was before it.          *)
LEMMA IntactBefore ==
    ASSUME MInv, k \in Channels, NEW fr \in Frames, ~Rejected(fr), NEW s,
           frag_count' = [frag_count EXCEPT ![k] = fr.fragment_count],
           sizes' = [sizes EXCEPT ![k] = s],
           DOMAIN s = DOMAIN SizesFor(fr),
           NEW c \in Channels, Intact(c)'
    PROVE  /\ Intact(c)
           /\ frag_count'[c] = frag_count[c]
           /\ c = k => ~Resized(fr)
<1>1. CASE c = k
    <2>1. sizes'[c] = s /\ frag_count'[c] = fr.fragment_count
        BY <1>1 DEF MInv, TypeOK
    <2>2. ~Resized(fr)
        BY <2>1, ResizedSizes DEF Intact, MInv
    <2>. QED
        BY <1>1, <2>1, <2>2, NotResized DEF Intact
<1>2. CASE c # k
    BY <1>2 DEF Intact, MInv, TypeOK
<1>. QED
    BY <1>1, <1>2

(* On an intact channel the marks tell a fragment from none.               *)
LEMMA IntactMark ==
    ASSUME MInv, k \in Channels, NEW fr \in Frames, ~Rejected(fr),
           ~Resized(fr), Intact(k)
    PROVE  /\ fr.fragment_index \in 1 .. frag_count[k]
           /\ Mark(fr) = sizes[k][fr.fragment_index]
           /\ Mark(fr) \in Nat
           /\ DOMAIN FragmentsFor(fr) = 1 .. frag_count[k]
<1>1. fr.fragment_index \in 1 .. frag_count[k]
    BY FrameFields, NotResized DEF Rejected, BadIndex
<1>2. sizes[k] \in [1 .. frag_count[k] -> Nat] /\ fragments[k] \in [1 .. frag_count[k] -> Payloads]
    BY DEF MInv, ChannelOK
<1>. QED
    BY <1>1, <1>2, NotResized DEF Mark

(* Channels whose tables and counter a step leaves as they were.           *)
LEMMA ChannelKept ==
    ASSUME MInv, NEW c \in Channels,
           UNCHANGED <<sizes[c], fragments[c], counter[c]>>, Intact(c) => frag_count'[c] = frag_count[c],
           Intact(c)' => Intact(c),
           pc' = "exit" => Done
    PROVE  ChannelOK(c)'
<1>. SUFFICES ASSUME Intact(c)'
              PROVE  ChannelOK(c)'
    BY DEF ChannelOK
<1>1. Intact(c) /\ Have(c)' = Have(c) /\ frag_count'[c] = frag_count[c] /\ ChannelOK(c)
    BY DEF Have, MInv
<1>2. pc' = "exit" => Have(c)' = 1 .. frag_count'[c]
    BY <1>1, DoneIsFull
<1>. QED
    BY <1>1, <1>2 DEF ChannelOK

LEMMA DuplicateStep ==
    ASSUME MInv, k \in Channels, NEW fr \in Frames, Duplicate(fr)
    PROVE  MInv'
<1>1. /\ pc = "loop" /\ ~Rejected(fr)
      /\ frag_count' = [frag_count EXCEPT ![k] = fr.fragment_count]
      /\ sizes' = [sizes EXCEPT ![k] = SizesFor(fr)]
      /\ fragments' = [fragments EXCEPT ![k] = FragmentsFor(fr)]
      /\ counter' = counter /\ out' = out /\ Visited
      /\ pc' = IF \E c \in Channels : ReadsOutside(sizes'[c], frag_count'[c])
               THEN "undefined" ELSE IF Done THEN "exit" ELSE "loop"
    BY DEF Duplicate
<1>2. PICK n, m \in 0 .. fr.fragment_count :
          FragmentsFor(fr) \in [1 .. n -> Payloads] /\ SizesFor(fr) \in [1 .. m -> Int]
    BY <1>1, LayoutType
<1>3. counter' \in [Channels -> Nat] /\ pc' \in {"loop", "exit", "undefined"}
    BY <1>1 DEF MInv, TypeOK
<1>4. /\ TypeOK' /\ out' = NoTables
      /\ \A c \in Channels : frag_count'[c] # 0
    BY <1>1, <1>2, <1>3, LaidOut
<1>5. ASSUME NEW c \in Channels, Intact(c)'
      PROVE  /\ Intact(c)
             /\ frag_count'[c] = frag_count[c] /\ sizes'[c] = sizes[c]
             /\ fragments'[c] = fragments[c]
    <2>1. Intact(c) /\ frag_count'[c] = frag_count[c] /\ (c = k => ~Resized(fr))
        BY <1>1, <1>5, IntactBefore
    <2>. QED
        BY <1>1, <2>1, NotResized DEF MInv, TypeOK
<1>6. ASSUME NEW c \in Channels PROVE ChannelOK(c)'
    <2>1. CASE Intact(c)'
        BY <1>1, <1>5, <2>1, ChannelKept
    <2>2. CASE ~Intact(c)'
        BY <2>2 DEF ChannelOK
    <2>. QED
        BY <2>1, <2>2
<1>7. OnlyResizeUndefined'
    <2>. SUFFICES ASSUME NEW c \in Channels, ReadsOutside(sizes'[c], frag_count'[c]), Intact(c)'
                  PROVE  FALSE
        BY <1>1 DEF OnlyResizeUndefined, Intact
    <2>1. sizes'[c] \in [1 .. frag_count'[c] -> Nat]
        BY <1>6 DEF ChannelOK
    <2>2. \A i \in DOMAIN sizes'[c] : sizes'[c][i] \in Nat
        BY <2>1
    <2>3. DOMAIN sizes'[c] = 1 .. frag_count'[c]
        BY <2>1
    <2>. QED
        BY <2>2, <2>3 DEF ReadsOutside, Unset
<1>. QED
    BY <1>1, <1>3, <1>4, <1>6, <1>7 DEF MInv

LEMMA OutsideTablesStep ==
    ASSUME MInv, k \in Channels, NEW fr \in Frames, OutsideTables(fr)
    PROVE  MInv'
<1>1. /\ pc = "loop" /\ ~Rejected(fr) /\ pc' = "undefined"
      /\ frag_count' = [frag_count EXCEPT ![k] = fr.fragment_count]
      /\ sizes' = [sizes EXCEPT ![k] = SizesFor(fr)]
      /\ fragments' = [fragments EXCEPT ![k] = FragmentsFor(fr)]
      /\ counter' = counter /\ out' = out /\ Visited
    BY DEF OutsideTables
<1>2. PICK n, m \in 0 .. fr.fragment_count :
          FragmentsFor(fr) \in [1 .. n -> Payloads] /\ SizesFor(fr) \in [1 .. m -> Int]
    BY <1>1, LayoutType
<1>3. counter' \in [Channels -> Nat]
    BY <1>1 DEF MInv, TypeOK
<1>4. /\ TypeOK' /\ out' = NoTables
      /\ \A c \in Channels : frag_count'[c] # 0
    BY <1>1, <1>2, <1>3, LaidOut
<1>5. ASSUME NEW c \in Channels, Intact(c)'
      PROVE  /\ Intact(c) /\ c # k
             /\ frag_count'[c] = frag_count[c] /\ sizes'[c] = sizes[c]
             /\ fragments'[c] = fragments[c]
    <2>1. Intact(c) /\ frag_count'[c] = frag_count[c] /\ (c = k => ~Resized(fr))
        BY <1>1, <1>5, IntactBefore
    <2>2. c # k
        <3>. SUFFICES ASSUME c = k PROVE FALSE
            OBVIOUS
        <3>1. ~Resized(fr) /\ Intact(k)
            BY <2>1
        <3>2. /\ fr.fragment_index \in 1 .. frag_count[k]
              /\ Mark(fr) \in Nat
              /\ DOMAIN FragmentsFor(fr) = 1 .. frag_count[k]
            BY <1>1, <3>1, IntactMark
        <3>. QED
            BY <3>2 DEF OutsideTables, Unset
    <2>. QED
        BY <1>1, <2>1, <2>2 DEF MInv, TypeOK
<1>6. ASSUME NEW c \in Channels PROVE ChannelOK(c)'
    <2>1. CASE Intact(c)'
        BY <1>1, <1>5, <2>1, ChannelKept
    <2>2. CASE ~Intact(c)'
        BY <2>2 DEF ChannelOK
    <2>. QED
        BY <2>1, <2>2
<1>7. OnlyResizeUndefined'
    BY <1>5 DEF OnlyResizeUndefined, Intact
<1>. QED
    BY <1>1, <1>4, <1>6, <1>7 DEF MInv

LEMMA StoreFragmentStep ==
    ASSUME MInv, k \in Channels, NEW fr \in Frames, StoreFragment(fr)
    PROVE  MInv'
<1>. DEFINE x == fr.fragment_index
            s == [SizesFor(fr) EXCEPT ![x] = fr.fragment_size]
            f == [FragmentsFor(fr) EXCEPT ![x] = Payload(fr)]
<1>1. /\ pc = "loop" /\ ~Rejected(fr) /\ Mark(fr) = 0
      /\ frag_count' = [frag_count EXCEPT ![k] = fr.fragment_count]
      /\ sizes' = [sizes EXCEPT ![k] = s]
      /\ fragments' = [fragments EXCEPT ![k] = f]
      /\ counter' = [counter EXCEPT ![k] = @ + 1] /\ out' = out /\ Visited
      /\ pc' = IF Done THEN "exit" ELSE "loop"
    BY DEF StoreFragment
<1>2. PICK n, m \in 0 .. fr.fragment_count :
          FragmentsFor(fr) \in [1 .. n -> Payloads] /\ SizesFor(fr) \in [1 .. m -> Int]
    BY <1>1, LayoutType
<1>3. /\ fr.fragment_size \in Nat \ {0}
      /\ Payload(fr) \in Payloads /\ Payload(fr) # NULL
    <2>1. x \in 1 .. fr.fragment_count
        BY <1>1, FrameFields DEF Rejected, BadIndex
    <2>. QED
        BY <2>1, FrameFields, IndexedFrame, PayloadType, StoredNotNull
<1>4. s \in [1 .. m -> Int] /\ f \in [1 .. n -> Payloads]
    <2>1. s \in [1 .. m -> Int]
        <3>1. fr.fragment_size \in Int
            BY <1>3
        <3>. HIDE DEF x
        <3>. QED
            BY <1>2, <3>1
    <2>2. f \in [1 .. n -> Payloads]
        BY <1>2, <1>3
    <2>. QED
        BY <2>1, <2>2
<1>5. counter' \in [Channels -> Nat] /\ pc' \in {"loop", "exit", "undefined"}
    BY <1>1 DEF MInv, TypeOK
<1>6. /\ TypeOK' /\ out' = NoTables
      /\ \A c \in Channels : frag_count'[c] # 0
    BY <1>1, <1>4, <1>5, LaidOut
<1>7. DOMAIN s = DOMAIN SizesFor(fr)
    OBVIOUS
<1>8. ASSUME NEW c \in Channels, Intact(c)'
      PROVE  Intact(c) /\ frag_count'[c] = frag_count[c] /\ (c = k => ~Resized(fr))
    BY <1>1, <1>7, <1>8, IntactBefore
<1>9. ASSUME NEW c \in Channels PROVE ChannelOK(c)'
    <2>1. CASE ~Intact(c)'
        BY <2>1 DEF ChannelOK
    <2>2. CASE Intact(c)' /\ c # k
        <3>1. /\ sizes'[c] = sizes[c] /\ fragments'[c] = fragments[c]
              /\ counter'[c] = counter[c]
            BY <1>1, <2>2 DEF MInv, TypeOK
        <3>. QED
            BY <1>1, <1>8, <2>2, <3>1, ChannelKept
    <2>3. CASE Intact(c)' /\ c = k
        <3>1. Intact(k) /\ ~Resized(fr) /\ frag_count'[k] = frag_count[k]
            BY <1>8, <2>3
        <3>2. x \in 1 .. frag_count[k] /\ sizes[k][x] = 0
            BY <1>1, <3>1, IntactMark
        <3>3. /\ sizes[k] \in [1 .. frag_count[k] -> Nat]
              /\ fragments[k] \in [1 .. frag_count[k] -> Payloads]
              /\ \A i \in 1 .. frag_count[k] : sizes[k][i] = 0 <=> fragments[k][i] = NULL
              /\ counter[k] = Cardinality(Have(k))
            BY <3>1 DEF MInv, ChannelOK
        <3>4. /\ sizes'[k] = [sizes[k] EXCEPT ![x] = fr.fragment_size]
              /\ fragments'[k] = [fragments[k] EXCEPT ![x] = Payload(fr)]
              /\ counter'[k] = counter[k] + 1
            BY <1>1, <3>1, NotResized DEF MInv, TypeOK
        <3>5. x \notin Have(c) /\ Have(c)' = Have(c) \cup {x}
            <4>1. DOMAIN sizes'[c] = DOMAIN sizes[c] /\ x \in DOMAIN sizes[c]
                BY <2>3, <3>2, <3>3, <3>4
            <4>2. sizes'[c][x] # 0 /\ \A i \in DOMAIN sizes[c] \ {x} : sizes'[c][i] = sizes[c][i]
                BY <1>3, <2>3, <3>2, <3>3, <3>4
            <4>. QED
                BY <2>3, <3>2, <4>1, <4>2 DEF Have
        <3>6. counter'[c] = Cardinality(Have(c)')
            <4>1. IsFiniteSet(Have(c))
                BY <2>3, <3>1, HaveFinite DEF MInv
            <4>2. Cardinality(Have(c)') = Cardinality(Have(c)) + 1
                BY <3>5, <4>1, FS_AddElement
            <4>. QED
                BY <2>3, <3>3, <3>4, <4>2
        <3>7. ~Done
            BY <2>3, <3>1, <3>2, <3>5, DoneIsFull
        <3>8. pc' = "loop"
            BY <1>1, <3>7
        <3>9. /\ sizes'[c] \in [1 .. frag_count'[c] -> Nat]
              /\ fragments'[c] \in [1 .. frag_count'[c] -> Payloads]
              /\ \A i \in 1 .. frag_count'[c] : sizes'[c][i] = 0 <=> fragments'[c][i] = NULL
            BY <1>3, <2>3, <3>1, <3>2, <3>3, <3>4
        <3>. QED
            BY <3>6, <3>8, <3>9 DEF ChannelOK
    <2>. QED
        BY <2>1, <2>2, <2>3
<1>10. pc' # "undefined" /\ pc' # "scan" /\ pc' # "completed"
    BY <1>1
<1>. QED
    BY <1>6, <1>9, <1>10 DEF MInv, OnlyResizeUndefined

LEMMA WriteFileStep ==
    ASSUME MInv, WriteFile
    PROVE  MInv'
<1>1. /\ pc = "exit" /\ UNCHANGED <<k, old_k, frag_count, fragments, sizes, counter>>
      /\ pc' \in {"completed", "undefined"}
      /\ IF pc' = "completed" THEN out' = fragments ELSE out' = out
    BY DEF WriteFile, tables
<1>2. TypeOK'
    BY <1>1 DEF MInv, TypeOK
<1>3. \A c \in Channels : ChannelOK(c)'
    <2>1. \A c \in Channels : Have(c)' = Have(c) /\ (Intact(c)' <=> Intact(c))
        BY <1>1 DEF Have, Intact
    <2>. QED
        BY <1>1, <2>1 DEF MInv, ChannelOK
<1>4. OnlyResizeUndefined'
    <2>. SUFFICES ASSUME pc' = "undefined", \A c \in Channels : Intact(c)
                  PROVE  FALSE
        BY <1>1 DEF OnlyResizeUndefined, Intact
    <2>1. ASSUME NEW c \in Channels, NEW i \in 1 .. frag_count[c]
          PROVE  i \in DOMAIN fragments[c] /\ fragments[c][i] # NULL
        <3>1. ChannelOK(c) /\ Intact(c)
            BY DEF MInv
        <3>2. i \in Have(c)
            BY <1>1, <3>1 DEF ChannelOK
        <3>. QED
            BY <3>1, <3>2 DEF ChannelOK, Have
    <2>. QED
        BY <2>1 DEF WriteFile
<1>. QED
    BY <1>1, <1>2, <1>3, <1>4 DEF MInv

LEMMA NextMulti == MInv /\ [Next]_vars => MInv'
<1>. SUFFICES ASSUME MInv, [Next]_vars PROVE MInv'
    OBVIOUS
<1>1. CASE ScanFails
    BY <1>1, ScanFailsStep
<1>2. CASE RecvFails
    BY <1>2, RecvFailsStep
<1>3. ASSUME NEW fr \in Frames, Recv(fr) PROVE MInv'
    BY <1>3, FirstFrameStep, RejectStep, DuplicateStep, StoreFragmentStep,
       OutsideTablesStep DEF Recv
<1>4. CASE WriteFile
    BY <1>4, WriteFileStep
<1>5. CASE UNCHANGED vars
    <2>1. \A c \in Channels : Have(c)' = Have(c) /\ (Intact(c)' <=> Intact(c))
        BY <1>5 DEF vars, tables, Have, Intact
    <2>2. \A c \in Channels : ChannelOK(c)'
        BY <1>5, <2>1 DEF vars, tables, MInv, ChannelOK
    <2>. QED
        BY <1>5, <2>2 DEF vars, tables, MInv, TypeOK, Blank, OnlyResizeUndefined
<1>. QED
    BY <1>1, <1>2, <1>3, <1>4, <1>5 DEF Next

----------------------------------------------------------------------------
(* The theorems.                                                           *)

(* The inductive invariant holds throughout.                               *)
THEOREM MultiInvariant == Spec => []MInv
BY InitMulti, NextMulti, PTL DEF Spec

(* The variables keep their types, also those a realloc has cut short.     *)
THEOREM MultiTypeCorrect == Spec => []TypeOK
<1>1. MInv => TypeOK
    BY DEF MInv
<1>. QED
    BY <1>1, MultiInvariant, PTL

(* capture_file() of v1.1 leaves its memory only by the first frame or     *)
(* through a channel whose tables were reallocated.                        *)
THEOREM UndefinedOnlyByResize == Spec => []OnlyResizeUndefined
<1>1. MInv => OnlyResizeUndefined
    BY DEF MInv
<1>. QED
    BY <1>1, MultiInvariant, PTL

(* A frame the loop accepts is an intact fragment, whole in its buffer.    *)
LEMMA AcceptedIsOriginal ==
    ASSUME NEW fr \in Frames, ~Rejected(fr)
    PROVE  \E f \in Files : /\ fr.fragment_count = fragment_count[f]
                            /\ fr.fragment_index \in 1 .. fragment_count[f]
                            /\ Payload(fr) = Original(f, fr.fragment_index)
<1>1. fr.fragment_index \in 1 .. fr.fragment_count
    BY FrameFields DEF Rejected, BadIndex
<1>2. PICK f \in Files :
          /\ fr.filename = f
          /\ fr.fragment_count = fragment_count[f]
          /\ fr.fragment_index \in 1 .. fragment_count[f]
          /\ fr.fragment_size \in Nat \ {0}
    BY <1>1, IndexedFrame
<1>3. fr.fragment_size <= RX_BUF_SIZE /\ fr.data = "intact"
    BY <1>2 DEF Rejected, CrcMatches, RX_BUF_SIZE
<1>4. Payload(fr) = Original(f, fr.fragment_index)
    BY <1>2, <1>3 DEF Payload, Original, RX_BUF_SIZE
<1>. QED
    BY <1>2, <1>4

----------------------------------------------------------------------------
(* When all files have equally many fragments.                             *)

(* No table was ever reallocated.                                          *)
EqualLayout ==
    /\ \A c \in Channels : Intact(c)
    /\ pc \in {"loop", "exit", "completed"} =>
           \A c \in Channels, f \in Files : frag_count[c] = fragment_count[f]

LEMMA NeverResized ==
    ASSUME EqualLayout, pc = "loop", k \in Channels, NEW fr \in Frames, ~Rejected(fr)
    PROVE  ~Resized(fr)
BY AcceptedIsOriginal DEF EqualLayout, Resized

LEMMA EqualLayoutStep ==
    ASSUME EqualCounts
    PROVE  MInv /\ EqualLayout /\ [Next]_vars => EqualLayout'
<1>. SUFFICES ASSUME MInv, EqualLayout, [Next]_vars PROVE EqualLayout'
    OBVIOUS
<1>1. CASE /\ UNCHANGED <<frag_count, sizes>>
           /\ pc \in {"scan", "undefined"} => pc' \in {"scan", "undefined"}
    BY <1>1 DEF EqualLayout, Intact, MInv, TypeOK
<1>2. ASSUME NEW fr \in Frames, FirstFrame(fr) PROVE EqualLayout'
    <2>1. CASE fr.fragment_index \in 1 .. fr.fragment_count
        <3>1. PICK f \in Files : fr.fragment_count = fragment_count[f]
            BY <2>1, IndexedFrame
        <3>2. \A g \in Files : fragment_count[g] = fr.fragment_count
            BY <3>1 DEF EqualCounts
        <3>3. \A c \in Channels : /\ frag_count'[c] = fr.fragment_count
                                  /\ DOMAIN sizes'[c] = 1 .. fr.fragment_count
            BY <1>2, <2>1 DEF FirstFrame
        <3>. QED
            BY <3>2, <3>3 DEF EqualLayout, Intact
    <2>2. CASE fr.fragment_index \notin 1 .. fr.fragment_count
        BY <1>2, <2>2, <1>1 DEF FirstFrame, tables
    <2>. QED
        BY <2>1, <2>2
<1>3. ASSUME NEW fr \in Frames, k \in Channels,
             Duplicate(fr) \/ StoreFragment(fr) \/ OutsideTables(fr)
      PROVE  EqualLayout'
    <2>1. pc = "loop" /\ ~Rejected(fr) /\ ~Resized(fr)
        BY <1>3, NeverResized DEF Duplicate, StoreFragment, OutsideTables
    <2>2. frag_count' = frag_count
        <3>1. frag_count' = [frag_count EXCEPT ![k] = frag_count[k]]
            BY <1>3, <2>1, NotResized DEF Duplicate, StoreFragment, OutsideTables
        <3>. QED
            BY <3>1 DEF MInv, TypeOK
    <2>3. \A c \in Channels : DOMAIN sizes'[c] = DOMAIN sizes[c]
        BY <1>3, <2>1, NotResized
        DEF Duplicate, StoreFragment, OutsideTables, MInv, TypeOK
    <2>. QED
        BY <2>1, <2>2, <2>3 DEF EqualLayout, Intact
<1>. QED
    BY <1>1, <1>2, <1>3
    DEF Next, Recv, ScanFails, RecvFails, Reject, WriteFile, vars, tables

LEMMA EqualLayoutAlways ==
    ASSUME EqualCounts
    PROVE  Spec => [](MInv /\ EqualLayout)
<1>1. Init => EqualLayout
    BY DEF Init, EqualLayout, Intact, NoTables
<1>2. MInv /\ EqualLayout /\ [Next]_vars => EqualLayout'
    BY EqualLayoutStep
<1>. QED
    BY <1>1, <1>2, MultiInvariant, PTL DEF Spec

(* For files of any lengths: on a channel whose tables were not cut short, *)
(* the counter the loop ends on is right, and no fragment is missing when  *)
(* it has ended.                                                           *)
IntactChannelsExact ==
    \A c \in Channels : Intact(c) =>
        /\ counter[c] = Cardinality(Have(c))
        /\ pc = "exit" => Have(c) = 1 .. frag_count[c]

(* fileCap1.1/fileCapture.c:205-236, without any assumption on the files.  *)
THEOREM IntactChannelsAreExact == Spec => []IntactChannelsExact
<1>1. MInv => IntactChannelsExact
    BY DEF MInv, ChannelOK, IntactChannelsExact
<1>. QED
    BY <1>1, MultiInvariant, PTL

(* Every counter counts each index of its channel once.                    *)
THEOREM EqualCountersExact ==
    ASSUME EqualCounts
    PROVE  Spec => []CountersExact
<1>1. MInv /\ EqualLayout => CountersExact
    BY DEF MInv, EqualLayout, ChannelOK, CountersExact
<1>. QED
    BY <1>1, EqualLayoutAlways, PTL

----------------------------------------------------------------------------
(* MultiCapture implements Reassembly when all files have equally many     *)
(* fragments.                                                              *)

(* The slots Reassembly sees in channel c.                                 *)
LEMMA MissingSlots ==
    ASSUME MInv, EqualLayout, NEW c \in Channels
    PROVE  /\ DOMAIN Qualities(fragments[c]) = 1 .. frag_count[c]
           /\ \A i \in 1 .. frag_count[c] :
                  Qualities(fragments[c])[i] = "missing" <=> sizes[c][i] = 0
BY DEF Qualities, Quality, MInv, ChannelOK, EqualLayout

LEMMA InitRefines == Init => Abstract!Init
<1>. SUFFICES ASSUME Init PROVE Abstract!Init
    OBVIOUS
<1>1. Qualities(<<>>) = Abstract!NoSlots
    BY DEF Qualities, Abstract!NoSlots
<1>2. \A c \in Channels : Qualities(fragments[c]) = Abstract!NoSlots
                          /\ Qualities(out[c]) = Abstract!NoSlots
    BY <1>1 DEF Init, NoTables
<1>3. Verdict = "open"
    BY DEF Init, Verdict
<1>. QED
    BY <1>2, <1>3 DEF Abstract!Init, Abstract!Closed, Abstract!Nothing

LEMMA NoSlotsYet ==
    ASSUME MInv, pc = "scan"
    PROVE  [c \in Channels |-> Qualities(fragments[c])] = Abstract!Closed
<1>1. \A c \in Channels : fragments[c] = <<>>
    BY DEF MInv, Blank, NoTables
<1>2. Qualities(<<>>) = Abstract!NoSlots
    BY DEF Qualities, Abstract!NoSlots
<1>. QED
    BY <1>1, <1>2 DEF Abstract!Closed

LEMMA FirstFrameRefines ==
    ASSUME MInv, NEW fr \in Frames, FirstFrame(fr)
    PROVE  Abstract!Next
<1>. DEFINE x == fr.fragment_index
            n == fr.fragment_count
<1>1. /\ [c \in Channels |-> Qualities(fragments[c])] = Abstract!Closed
      /\ k \in Channels /\ pc = "scan" /\ out' = out
    BY NoSlotsYet DEF FirstFrame, MInv
<1>2. CASE x \in 1 .. n
    <2>1. /\ pc' = "loop"
          /\ fragments' = [c \in Channels |-> [i \in 1 .. n |->
                 IF c = k /\ i = x THEN Payload(fr) ELSE NULL]]
        BY <1>2 DEF FirstFrame
    <2>2. PICK f \in Files : n = fragment_count[f]
        BY <1>2, IndexedFrame
    <2>3. Payload(fr) # NULL
        BY <1>2, FrameFields, StoredNotNull
    <2>4. PICK q \in {"good", "bad"} : Quality(Payload(fr), x) = q
        BY <2>3 DEF Quality
    <2>5. \A c \in Channels : Qualities(fragments'[c]) =
              [i \in 1 .. n |-> IF c = k /\ i = x THEN q ELSE "missing"]
        BY <2>1, <2>4 DEF Qualities, Quality
    <2>6. [c \in Channels |-> Qualities(fragments[c])]' =
              [c \in Channels |-> [i \in 1 .. n |-> IF c = k /\ i = x THEN q ELSE "missing"]]
        BY <2>5
    <2>7. Abstract!Begin(n, k, x, q)
        BY <1>1, <2>1, <2>6 DEF Abstract!Begin, Verdict
    <2>. QED
        BY <1>1, <1>2, <2>2, <2>7 DEF Abstract!Next
<1>3. CASE x \notin 1 .. n
    <2>1. pc' = "undefined" /\ fragments' = fragments
        BY <1>3 DEF FirstFrame, tables
    <2>2. Abstract!Abandon
        BY <1>1, <2>1 DEF Abstract!Abandon, Verdict
    <2>. QED
        BY <2>2 DEF Abstract!Next
<1>. QED
    BY <1>2, <1>3

LEMMA StoreFragmentRefines ==
    ASSUME MInv, EqualLayout, k \in Channels, NEW fr \in Frames, StoreFragment(fr)
    PROVE  Abstract!Next
<1>. DEFINE x == fr.fragment_index
            held == [c \in Channels |-> Qualities(fragments[c])]
<1>1. pc = "loop" /\ ~Rejected(fr) /\ ~Resized(fr) /\ Mark(fr) = 0 /\ Intact(k)
    BY NeverResized DEF StoreFragment, EqualLayout
<1>2. /\ fragments' = [fragments EXCEPT ![k] = [fragments[k] EXCEPT ![x] = Payload(fr)]]
      /\ pc' \in {"loop", "exit"} /\ out' = out
    BY <1>1, NotResized DEF StoreFragment
<1>3. x \in 1 .. frag_count[k] /\ sizes[k][x] = 0
    BY <1>1, IntactMark
<1>4. PICK f \in Files : Payload(fr) = Original(f, x)
    BY <1>1, AcceptedIsOriginal
<1>5. Quality(Payload(fr), x) = "good"
    BY <1>3, <1>4 DEF Quality, Original, NULL, MInv, TypeOK
<1>6. x \in DOMAIN held[k] /\ held[k][x] = "missing"
    BY <1>3, MissingSlots
<1>7. DOMAIN fragments[k] = 1 .. frag_count[k]
    BY <1>1 DEF MInv, ChannelOK
<1>8. \A c \in Channels : Qualities(fragments'[c]) =
          IF c = k THEN [Qualities(fragments[k]) EXCEPT ![x] = "good"]
          ELSE Qualities(fragments[c])
    BY <1>2, <1>3, <1>5, <1>7 DEF Qualities, MInv, TypeOK
<1>9. [c \in Channels |-> Qualities(fragments[c])]' = [held EXCEPT ![k][x] = "good"]
    BY <1>8
<1>10. Abstract!Fill(k, x)
    BY <1>1, <1>2, <1>6, <1>9 DEF Abstract!Fill, Abstract!Missing, Verdict
<1>. QED
    BY <1>6, <1>10 DEF Abstract!Next

LEMMA WriteFileRefines ==
    ASSUME MInv, EqualLayout, WriteFile
    PROVE  Abstract!Next
<1>. DEFINE held == [c \in Channels |-> Qualities(fragments[c])]
<1>1. pc = "exit" /\ fragments' = fragments
    BY DEF WriteFile, tables
<1>2. \A c \in Channels : Have(c) = 1 .. frag_count[c]
    BY <1>1 DEF MInv, ChannelOK, EqualLayout
<1>3. \A c \in Channels : \A i \in DOMAIN held[c] : held[c][i] # "missing"
    BY <1>2, MissingSlots DEF Have
<1>4. \A c \in Channels : \A i \in 1 .. frag_count[c] :
          i \in DOMAIN fragments[c] /\ fragments[c][i] # NULL
    BY <1>2 DEF MInv, ChannelOK, EqualLayout, Have
<1>5. pc' = "completed" /\ out' = fragments
    BY <1>4 DEF WriteFile
<1>6. 0 \in Channels /\ 1 \in 1 .. frag_count[0]
    BY <1>1, SocketsAssumption DEF MInv, TypeOK, Channels
<1>7. held # Abstract!Closed
    BY <1>6, MissingSlots DEF Abstract!Closed, Abstract!NoSlots
<1>8. Abstract!Deliver
    BY <1>1, <1>3, <1>5, <1>7 DEF Abstract!Deliver, Abstract!Missing, Verdict
<1>. QED
    BY <1>8 DEF Abstract!Next

(* A step Reassembly does not see.                                         *)
LEMMA UnseenRefines ==
    ASSUME \A c \in Channels : fragments'[c] = fragments[c],
           UNCHANGED out, Verdict' = Verdict
    PROVE  UNCHANGED Abstract!rvars
<1>1. \A c \in Channels : Qualities(fragments[c])' = Qualities(fragments[c])
    BY DEF Qualities, Quality
<1>. QED
    BY <1>1 DEF Abstract!rvars

LEMMA NextRefines ==
    MInv /\ EqualLayout /\ [Next]_vars => [Abstract!Next]_(Abstract!rvars)
<1>. SUFFICES ASSUME MInv, EqualLayout, [Next]_vars
              PROVE  Abstract!Next \/ UNCHANGED Abstract!rvars
    OBVIOUS
<1>1. CASE ScanFails
    <2>1. pc = "scan" /\ pc' \in {"scan", "undefined"} /\ UNCHANGED <<fragments, out>>
        BY <1>1 DEF ScanFails, tables
    <2>2. CASE pc' = "scan"
        BY <2>1, <2>2, UnseenRefines DEF Verdict
    <2>3. CASE pc' = "undefined"
        <3>1. Abstract!Abandon
            BY <2>1, <2>3, NoSlotsYet DEF Abstract!Abandon, Verdict
        <3>. QED
            BY <3>1 DEF Abstract!Next
    <2>. QED
        BY <2>1, <2>2, <2>3
<1>2. ASSUME NEW fr \in Frames, FirstFrame(fr) PROVE Abstract!Next
    BY <1>2, FirstFrameRefines
<1>3. ASSUME NEW fr \in Frames, k \in Channels, StoreFragment(fr) PROVE Abstract!Next
    BY <1>3, StoreFragmentRefines
<1>4. CASE WriteFile
    BY <1>4, WriteFileRefines
<1>5. CASE RecvFails
    BY <1>5, UnseenRefines DEF RecvFails, tables, Verdict
<1>6. ASSUME NEW fr \in Frames, Reject(fr) PROVE UNCHANGED Abstract!rvars
    BY <1>6, UnseenRefines DEF Reject, tables, Verdict
<1>7. ASSUME NEW fr \in Frames, k \in Channels, Duplicate(fr)
      PROVE  UNCHANGED Abstract!rvars
    <2>1. pc = "loop" /\ ~Resized(fr) /\ Intact(k)
        BY <1>7, NeverResized DEF Duplicate, EqualLayout
    <2>2. out' = out /\ \A c \in Channels : /\ fragments'[c] = fragments[c]
                                            /\ sizes'[c] = sizes[c]
                                            /\ frag_count'[c] = frag_count[c]
        BY <1>7, <2>1, NotResized DEF Duplicate, MInv, TypeOK
    <2>3. pc' # "undefined"
        <3>1. ASSUME NEW c \in Channels PROVE ~ReadsOutside(sizes'[c], frag_count'[c])
            <4>1. /\ DOMAIN sizes'[c] = 1 .. frag_count'[c]
                  /\ \A i \in DOMAIN sizes'[c] : sizes'[c][i] \in Nat
                BY <2>2 DEF MInv, ChannelOK, EqualLayout, Intact
            <4>. QED
                BY <4>1 DEF ReadsOutside, Unset
        <3>. QED
            BY <1>7, <3>1 DEF Duplicate
    <2>4. pc' \in {"loop", "exit"}
        BY <1>7, <2>3 DEF Duplicate
    <2>. QED
        BY <2>1, <2>2, <2>4, UnseenRefines DEF Verdict
<1>8. ASSUME NEW fr \in Frames, k \in Channels, OutsideTables(fr) PROVE FALSE
    <2>1. ~Rejected(fr) /\ ~Resized(fr) /\ Intact(k)
        BY <1>8, NeverResized DEF OutsideTables, EqualLayout
    <2>2. /\ fr.fragment_index \in 1 .. frag_count[k]
          /\ Mark(fr) \in Nat
          /\ DOMAIN FragmentsFor(fr) = 1 .. frag_count[k]
        BY <1>8, <2>1, IntactMark
    <2>. QED
        BY <1>8, <2>2 DEF OutsideTables, Unset
<1>9. CASE UNCHANGED vars
    BY <1>9, UnseenRefines DEF vars, tables, Verdict
<1>. QED
    BY <1>1, <1>2, <1>3, <1>4, <1>5, <1>6, <1>7, <1>8, <1>9 DEF Next, Recv

(* With equally many fragments in every file, v1.1 implements Reassembly:  *)
(* it goes wrong on the first frame only, keeps each fragment it took in   *)
(* the place it belongs, and delivers only when every channel is full.     *)
THEOREM MultiImplementsReassembly ==
    ASSUME EqualCounts
    PROVE  Spec => ImplementsReassembly
<1>1. Init => Abstract!Init
    BY InitRefines
<1>2. MInv /\ EqualLayout /\ [Next]_vars => [Abstract!Next]_(Abstract!rvars)
    BY NextRefines
<1>. QED
    BY <1>1, <1>2, EqualLayoutAlways, PTL DEF Spec, ImplementsReassembly, Abstract!Spec

----------------------------------------------------------------------------
(* The receiver of a transfer, whatever senders, wire and interface do,    *)
(* behaves as MultiCapture in its open environment.                        *)

(* A step of the transfer is a step of capture_file() or leaves it alone.  *)
LEMMA TransferStep == [TransferNext]_tvars => [Next]_vars
<1>1. ASSUME Receive PROVE Next
    <2>1. PICK fr \in Frames : Recv(fr)
        BY <1>1 DEF Receive
    <2>. QED
        BY <2>1 DEF Next
<1>2. ASSUME LinkDown \/ Conclude PROVE Next
    BY <1>2 DEF LinkDown, Conclude, Next
<1>3. ASSUME Environment \/ UNCHANGED tvars PROVE UNCHANGED vars
    BY <1>3 DEF Environment, tvars
<1>. QED
    BY <1>1, <1>2, <1>3 DEF TransferNext

(* Every transfer is a run of MultiCapture: what is proved of the one      *)
(* holds of the other.                                                     *)
THEOREM TransferRunsMulti == TransferSpec => Spec
<1>1. TransferInit => Init
    BY DEF TransferInit
<1>. QED
    BY <1>1, TransferStep, PTL DEF TransferSpec, Spec

(* However many ether types are on the command line, a transfer whose      *)
(* interface stays up reads the first two sockets only.                    *)
THEOREM TransferServesTwo ==
    ASSUME LinkMayDrop = FALSE
    PROVE  TransferSpec => []OnlyTwoServed
<1>. DEFINE Two == k \in {0, 1} /\ \A c \in Channels : c > 1 => counter[c] = 0
<1>1. TransferInit => Two
    BY DEF TransferInit, Init
<1>2. MInv /\ Two /\ [TransferNext]_tvars => Two'
    <2>. SUFFICES ASSUME MInv, Two, [TransferNext]_tvars PROVE Two'
        OBVIOUS
    <2>1. ASSUME NEW fr \in Frames, k \in Channels, Recv(fr) PROVE Two'
        <3>1. FirstOther(k) \in {0, 1}
            BY SocketsAssumption DEF FirstOther
        <3>2. k' = FirstOther(k)
            BY <2>1 DEF Recv, FirstFrame, Reject, Duplicate, StoreFragment, OutsideTables,
                        Visited
        <3>3. \A c \in Channels \ {k} : counter'[c] = counter[c]
            BY <2>1 DEF Recv, FirstFrame, Reject, Duplicate, StoreFragment, OutsideTables,
                        tables, MInv, TypeOK
        <3>. QED
            BY <3>1, <3>2, <3>3
    <2>2. CASE Receive
        BY <2>1, <2>2 DEF Receive
    <2>3. CASE Conclude \/ Environment \/ UNCHANGED tvars
        BY <2>3 DEF Conclude, WriteFile, Environment, tvars, vars, tables
    <2>. QED
        BY <2>2, <2>3 DEF TransferNext, LinkDown
<1>3. Two => OnlyTwoServed
    BY DEF OnlyTwoServed
<1>. QED
    BY <1>1, <1>2, <1>3, MultiInvariant, TransferRunsMulti, PTL DEF TransferSpec

----------------------------------------------------------------------------
(* The file written is the files sent, one after the other.                *)

(* The frames that can reach socket s.                                     *)
FramesOn(s) ==
    {fr \in Frames : fr = StrayFrame \/ \E f \in Files :
        socket_of[f] = s /\ fr.filename = f /\ fr.fragment_count = fragment_count[f]}

QueueInv ==
    /\ DOMAIN queue = Sockets
    /\ \A s \in Sockets : queue[s] \in Seq(FramesOn(s))

(* What is kept on socket c came from a file sent there, and is kept at    *)
(* its index.                                                              *)
Placed(c) ==
    \A i \in DOMAIN fragments[c] : fragments[c][i] # NULL =>
        \E f \in Files : /\ socket_of[f] = c
                         /\ frag_count[c] = fragment_count[f]
                         /\ fragments[c][i].filename = f
                         /\ fragments[c][i].index = i

(* Nothing was missing when the file was written.                          *)
WrittenWhole ==
    pc = "completed" =>
        /\ out = fragments
        /\ \A c \in Channels :
              /\ frag_count[c] # 0
              /\ \A i \in 1 .. frag_count[c] :
                     i \in DOMAIN fragments[c] /\ fragments[c][i] # NULL

LEMMA SentOn ==
    ASSUME NEW f \in Files, NEW i \in SentIndices(f), NEW d \in {"intact", "garbled"}
    PROVE  SenderFrame(f, i, d) \in FramesOn(socket_of[f])
<1>1. SenderFrame(f, i, d) \in Frames
    BY DEF Frames, SenderFrames
<1>. QED
    BY <1>1 DEF FramesOn, SenderFrame

(* A queue only grows by a frame of its own socket, and shrinks from its   *)
(* head.                                                                   *)
LEMMA QueueStep == QueueInv /\ [TransferNext]_tvars => QueueInv'
<1>. SUFFICES ASSUME QueueInv, [TransferNext]_tvars PROVE QueueInv'
    OBVIOUS
<1>1. CASE UNCHANGED queue
    BY <1>1 DEF QueueInv
<1>2. ASSUME NEW s \in Sockets, NEW fr \in FramesOn(s),
             queue' = [queue EXCEPT ![s] = Append(@, fr)]
      PROVE  QueueInv'
    <2>1. Append(queue[s], fr) \in Seq(FramesOn(s))
        BY AppendProperties DEF QueueInv
    <2>. QED
        BY <1>2, <2>1 DEF QueueInv
<1>3. ASSUME NEW s \in Sockets, queue[s] # <<>>,
             queue' = [queue EXCEPT ![s] = Tail(@)]
      PROVE  QueueInv'
    <2>1. Tail(queue[s]) \in Seq(FramesOn(s))
        BY <1>3, HeadTailProperties DEF QueueInv
    <2>. QED
        BY <1>3, <2>1 DEF QueueInv
<1>4. CASE Receive
    BY <1>3, <1>4, TransferAssumption DEF Receive, Take
<1>5. CASE Environment
    <2>1. ASSUME NEW f \in Files, NEW d \in {"intact", "garbled"}, Send(f, d)
          PROVE  QueueInv'
        <3>1. SenderFrame(f, Next_index(f), d) \in FramesOn(socket_of[f])
            BY <2>1, SentOn DEF Send
        <3>2. socket_of[f] \in Sockets
            BY SendersAssumption
        <3>. QED
            BY <2>1, <3>1, <3>2, <1>2 DEF Send
    <2>2. ASSUME NEW s \in Sockets, Stray(s) PROVE QueueInv'
        <3>1. StrayFrame \in FramesOn(s)
            BY DEF FramesOn, Frames
        <3>. QED
            BY <2>2, <3>1, <1>2 DEF Stray
    <2>. QED
        BY <1>1, <1>5, <2>1, <2>2 DEF Environment, TxNext, Lose, ExitOnEmpty, Stop
<1>. QED
    BY <1>1, <1>4, <1>5 DEF TransferNext, LinkDown, Conclude, tvars, txVars

(* One ether type carries one file.                                        *)
OneFileEach == \A f, g \in Files : socket_of[f] = socket_of[g] => f = g

LEMMA PlacedStep ==
    ASSUME OneFileEach, MInv, \A c \in Channels : Placed(c),
           k \in Channels, NEW fr \in FramesOn(k), Recv(fr), NEW c \in Channels
    PROVE  Placed(c)'
<1>1. fr \in Frames
    BY DEF FramesOn
<1>2. fr.fragment_index \in 1 .. fr.fragment_count =>
          \E f \in Files : /\ socket_of[f] = k
                           /\ fr.filename = f
                           /\ fr.fragment_count = fragment_count[f]
    BY DEF FramesOn, StrayFrame
<1>3. CASE fragments'[c] = fragments[c] /\ frag_count'[c] = frag_count[c]
    BY <1>3 DEF Placed
<1>4. CASE FirstFrame(fr)
    <2>1. CASE fr.fragment_index \in 1 .. fr.fragment_count
        <3>1. /\ frag_count'[c] = fr.fragment_count
              /\ fragments'[c] = [i \in 1 .. fr.fragment_count |->
                     IF c = k /\ i = fr.fragment_index THEN Payload(fr) ELSE NULL]
            BY <1>4, <2>1 DEF FirstFrame
        <3>. QED
            BY <1>2, <2>1, <3>1 DEF Placed, Payload
    <2>2. CASE fr.fragment_index \notin 1 .. fr.fragment_count
        BY <1>3, <1>4, <2>2 DEF FirstFrame, tables
    <2>. QED
        BY <2>1, <2>2
<1>5. CASE Reject(fr)
    BY <1>3, <1>5 DEF Reject, tables
<1>6. ASSUME Duplicate(fr) \/ StoreFragment(fr) \/ OutsideTables(fr)
      PROVE  Placed(c)'
    <2>1. CASE c # k
        BY <1>3, <1>6, <2>1 DEF Duplicate, StoreFragment, OutsideTables, MInv, TypeOK
    <2>2. CASE c = k
        <3>1. ~Rejected(fr)
            BY <1>6 DEF Duplicate, StoreFragment, OutsideTables
        <3>2. fr.fragment_index \in 1 .. fr.fragment_count
            BY <1>1, <3>1, FrameFields DEF Rejected, BadIndex
        <3>3. PICK f \in Files : /\ socket_of[f] = k
                                 /\ fr.filename = f
                                 /\ fr.fragment_count = fragment_count[f]
            BY <1>2, <3>2
        <3>4. frag_count'[c] = fragment_count[f]
            BY <1>6, <2>2, <3>3
            DEF Duplicate, StoreFragment, OutsideTables, MInv, TypeOK
        <3>5. \/ fragments'[c] = FragmentsFor(fr)
              \/ fragments'[c] = [FragmentsFor(fr) EXCEPT ![fr.fragment_index] = Payload(fr)]
            BY <1>6, <2>2 DEF Duplicate, StoreFragment, OutsideTables, MInv, TypeOK
        <3>6. \A i \in DOMAIN FragmentsFor(fr) :
                  \/ FragmentsFor(fr)[i] = NULL
                  \/ i \in DOMAIN fragments[k] /\ FragmentsFor(fr)[i] = fragments[k][i]
            BY DEF FragmentsFor, Realloc
        <3>7. ASSUME NEW i \in DOMAIN FragmentsFor(fr), FragmentsFor(fr)[i] # NULL
              PROVE  FragmentsFor(fr)[i].filename = f /\ FragmentsFor(fr)[i].index = i
            <4>1. i \in DOMAIN fragments[k] /\ FragmentsFor(fr)[i] = fragments[k][i]
                BY <3>6, <3>7
            <4>2. PICK g \in Files : /\ socket_of[g] = k
                                     /\ fragments[k][i].filename = g
                                     /\ fragments[k][i].index = i
                BY <3>7, <4>1 DEF Placed
            <4>. QED
                BY <3>3, <4>1, <4>2 DEF OneFileEach
        <3>8. Payload(fr).filename = f /\ Payload(fr).index = fr.fragment_index
            BY <3>3 DEF Payload
        <3>9. ASSUME NEW i \in DOMAIN fragments'[c], fragments'[c][i] # NULL
              PROVE  fragments'[c][i].filename = f /\ fragments'[c][i].index = i
            <4>1. CASE fragments'[c] = FragmentsFor(fr)
                BY <3>7, <3>9, <4>1
            <4>2. CASE fragments'[c] =
                           [FragmentsFor(fr) EXCEPT ![fr.fragment_index] = Payload(fr)]
                <5>1. CASE i = fr.fragment_index
                    BY <3>8, <3>9, <4>2, <5>1
                <5>2. CASE i # fr.fragment_index
                    BY <3>7, <3>9, <4>2, <5>2
                <5>. QED
                    BY <5>1, <5>2
            <4>. QED
                BY <3>5, <4>1, <4>2
        <3>. QED
            BY <2>2, <3>3, <3>4, <3>9 DEF Placed
    <2>. QED
        BY <2>1, <2>2
<1>. QED
    BY <1>4, <1>5, <1>6 DEF Recv

(* With one file per ether type, whatever their lengths and whatever is    *)
(* lost, damaged or repeated, a file that is written is the concatenation  *)
(* of the files sent.                                                      *)
THEOREM TransferConcatenates ==
    ASSUME OneFileEach
    PROVE  TransferSpec => []ConcatenatesTheFiles
<1>. DEFINE PInv == \A c \in Channels : Placed(c)
<1>1. TransferInit => QueueInv /\ PInv /\ WrittenWhole
    <2>. SUFFICES ASSUME TransferInit PROVE QueueInv /\ PInv /\ WrittenWhole
        OBVIOUS
    <2>1. QueueInv
        BY DEF TransferInit, TxInit, QueueInv
    <2>2. PInv
        BY DEF TransferInit, Init, NoTables, Placed
    <2>. QED
        BY <2>1, <2>2 DEF TransferInit, Init, WrittenWhole
<1>2. MInv /\ QueueInv /\ PInv /\ [TransferNext]_tvars => PInv'
    <2>. SUFFICES ASSUME MInv, QueueInv, PInv, [TransferNext]_tvars PROVE PInv'
        OBVIOUS
    <2>1. CASE UNCHANGED <<frag_count, fragments>>
        BY <2>1 DEF Placed
    <2>2. CASE Receive
        <3>1. k \in Channels
            BY <2>2 DEF Receive
        <3>2. PICK fr \in Frames : Take(k, fr) /\ Recv(fr)
            BY <2>2 DEF Receive
        <3>3. fr \in FramesOn(k)
            BY <3>1, <3>2, HeadTailProperties, TransferAssumption DEF Take, QueueInv
        <3>. QED
            BY <3>1, <3>2, <3>3, PlacedStep
    <2>. QED
        BY <2>1, <2>2
        DEF TransferNext, LinkDown, ScanFails, RecvFails, Conclude, WriteFile, Environment,
            tvars, vars, tables
<1>3. MInv /\ WrittenWhole /\ [TransferNext]_tvars => WrittenWhole'
    <2>. SUFFICES ASSUME MInv, WrittenWhole, [TransferNext]_tvars PROVE WrittenWhole'
        OBVIOUS
    <2>1. CASE UNCHANGED vars
        BY <2>1 DEF vars, tables, WrittenWhole
    <2>2. CASE pc' # "completed"
        BY <2>2 DEF WrittenWhole
    <2>3. CASE WriteFile
        BY <2>3 DEF WriteFile, tables, WrittenWhole, MInv
    <2>. QED
        BY <2>1, <2>2, <2>3
        DEF TransferNext, Receive, Recv, FirstFrame, Reject, Duplicate, StoreFragment,
            OutsideTables, LinkDown, ScanFails, RecvFails, Conclude, Environment, tvars
<1>4. MInv /\ PInv /\ WrittenWhole => ConcatenatesTheFiles
    <2>. SUFFICES ASSUME MInv, PInv, WrittenWhole, pc = "completed", NEW c \in Channels
                  PROVE  \E f \in Files :
                            /\ socket_of[f] = c
                            /\ DOMAIN out[c] = 1 .. fragment_count[f]
                            /\ \A i \in DOMAIN out[c] :
                                   out[c][i].filename = f /\ out[c][i].index = i
        BY DEF ConcatenatesTheFiles
    <2>1. /\ out[c] = fragments[c]
          /\ frag_count[c] \in Nat \ {0}
          /\ \A i \in 1 .. frag_count[c] : i \in DOMAIN fragments[c] /\ fragments[c][i] # NULL
        BY DEF WrittenWhole, MInv, TypeOK
    <2>2. DOMAIN fragments[c] = 1 .. frag_count[c]
        <3>1. PICK n \in 0 .. frag_count[c] : DOMAIN fragments[c] = 1 .. n
            BY DEF MInv, TypeOK
        <3>. QED
            BY <2>1, <3>1
    <2>3. PICK f \in Files : socket_of[f] = c /\ frag_count[c] = fragment_count[f]
        <3>1. 1 \in 1 .. frag_count[c]
            BY <2>1
        <3>. QED
            BY <2>1, <3>1 DEF Placed
    <2>4. ASSUME NEW i \in 1 .. frag_count[c]
          PROVE  fragments[c][i].filename = f /\ fragments[c][i].index = i
        BY <2>1, <2>3 DEF Placed, OneFileEach
    <2>. QED
        BY <2>1, <2>2, <2>3, <2>4
<1>. QED
    BY <1>1, <1>2, <1>3, <1>4, QueueStep, MultiInvariant, TransferRunsMulti, PTL
    DEF TransferSpec
=============================================================================
