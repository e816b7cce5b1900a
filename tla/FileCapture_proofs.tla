------------------------- MODULE FileCapture_proofs -------------------------
(***************************************************************************)
(* Proofs about FileCapture, for any files, sizes and frames, and about    *)
(* FileTransfer, of which it is the receiver.                              *)
(*                                                                         *)
(* The inductive invariant IInv carries them all: each step of Next is one *)
(* lemma below, and the counter lemmas relate j to the marks in sizes[].   *)
(***************************************************************************)
EXTENDS FileTransfer, CaptureFormat_proofs, FiniteSetTheorems, SequenceTheorems, TLAPS

(* The set of received indices is finite, and full once frag_count of them *)
(* are counted.                                                            *)
LEMMA HaveFinite ==
    ASSUME frag_count \in Nat
    PROVE  /\ IsFiniteSet(Have)
           /\ Cardinality(Have) \in Nat
           /\ frag_count <= Cardinality(Have) => Have = 1 .. frag_count
<1>1. IsFiniteSet(1 .. frag_count) /\ Cardinality(1 .. frag_count) = frag_count
    BY FS_Interval
<1>2. Have \subseteq 1 .. frag_count
    BY DEF Have
<1>3. /\ IsFiniteSet(Have)
      /\ Cardinality(Have) <= frag_count
      /\ Cardinality(Have) = frag_count => Have = 1 .. frag_count
    BY <1>1, <1>2, FS_Subset, Zenon
<1>4. Cardinality(Have) \in Nat
    BY <1>3, FS_CardinalityType
<1>. QED
    BY <1>3, <1>4

----------------------------------------------------------------------------
(* The steps.                                                              *)

LEMMA InitInvariant == Init => IInv
<1>. SUFFICES ASSUME Init PROVE IInv
    OBVIOUS
<1>1. Have = {}
    BY DEF Init, Have
<1>2. CountExact
    <2>1. sizes \in [1 .. 0 -> Nat] /\ \A k \in 1 .. 0 : sizes[k] = 0
        BY DEF Init
    <2>2. TotalOf(sizes, 0) = 0
        BY <2>1, TotalOfNothing
    <2>. QED
        BY <1>1, <2>2, FS_EmptySet DEF Init, CountExact
<1>3. TypeOK
    BY DEF Init, TypeOK, BlankHeader, Frames
<1>. QED
    BY <1>2, <1>3 DEF Init, IInv, MarksAgree, LeftByDuplicate, OnlyBadIndexUndefined

(* A step that leaves the tables, the counter and the output alone keeps   *)
(* what is said of them.                                                   *)
LEMMA NothingStoredStep ==
    ASSUME IInv, NothingStored
    PROVE  /\ CountExact' /\ MarksAgree' /\ Have' = Have
           /\ frag_count' \in Nat
           /\ fragments' \in [1 .. frag_count' -> Payloads]
           /\ sizes' \in [1 .. frag_count' -> Nat]
           /\ j' \in Nat
           /\ totalbytes' \in Nat
<1>1. Have' = Have
    BY DEF NothingStored, Have
<1>. QED
    BY <1>1 DEF NothingStored, IInv, TypeOK, CountExact, MarksAgree

(* The end of an iteration that stored nothing: the next one starts clean, *)
(* or every fragment was there already.                                    *)
LEMMA EndIterationStep ==
    ASSUME IInv, pc = "loop", NothingStored,
           NEW fr \in Frames, NEW done \in BOOLEAN, done => Done,
           NEW fate \in {"leaked", "freed"}, done => fate = "leaked",
           EndIteration(fr, done, fate)
    PROVE  IInv'
<1>1. CASE done
    <2>1. frag_count <= Cardinality(Have)
        BY <1>1 DEF Done, IInv, CountExact
    <2>2. Have = 1 .. frag_count
        BY <2>1, HaveFinite DEF IInv, TypeOK
    <2>3. pc' = "exit" /\ hdr' = fr /\ buf' = "leaked"
        BY <1>1 DEF EndIteration
    <2>. QED
        BY <2>2, <2>3, NothingStoredStep
        DEF IInv, TypeOK, LeftByDuplicate, OnlyBadIndexUndefined, NothingStored
<1>2. CASE ~done
    <2>1. pc' = "loop" /\ hdr' = BlankHeader /\ buf' = "fresh"
        BY <1>2 DEF EndIteration
    <2>. QED
        BY <2>1, NothingStoredStep
        DEF IInv, TypeOK, LeftByDuplicate, OnlyBadIndexUndefined, NothingStored,
            BlankHeader, Frames
<1>. QED
    BY <1>1, <1>2

(* A step that only ends the program, in a way that promises nothing.      *)
LEMMA GiveUpStep ==
    ASSUME IInv, NothingStored, pc # "completed", pc' \in {"failed", "size_error"},
           UNCHANGED <<hdr, buf>>
    PROVE  IInv'
BY NothingStoredStep
DEF IInv, TypeOK, LeftByDuplicate, OnlyBadIndexUndefined, NothingStored

LEMMA FirstFrameStep ==
    ASSUME IInv, NEW fr \in Frames, FirstFrame(fr)
    PROVE  IInv'
<1>. DEFINE k == fr.fragment_index
            n == fr.fragment_count
<1>1. CASE k \in 1 .. n
    <2>1. /\ n \in Nat /\ k \in Nat
          /\ fr.fragment_size \in Nat \ {0}
          /\ Payload(fr) \in Payloads
          /\ Payload(fr) # NULL
        BY <1>1, FrameFields, IndexedFrame, PayloadType, StoredNotNull
    <2>2. /\ pc' = "loop" /\ frag_count' = n /\ j' = 1 /\ hdr' = fr
          /\ buf' = "stored" /\ out' = out
          /\ fragments' = [i \in 1 .. n |-> IF i = k THEN Payload(fr) ELSE NULL]
          /\ sizes' = [i \in 1 .. n |-> IF i = k THEN fr.fragment_size ELSE 0]
          /\ totalbytes' = totalbytes + fr.fragment_size
        BY <1>1 DEF FirstFrame
    <2>3. out' = NoOutput
        BY <2>2 DEF IInv, FirstFrame
    <2>4. TypeOK'
        BY <2>1, <2>2, <2>3, NullPayload DEF IInv, TypeOK
    <2>5. Have' = {k}
        BY <1>1, <2>1, <2>2 DEF Have
    <2>6. CountExact'
        <3>1. totalbytes = 0
            <4>1. sizes \in [1 .. 0 -> Nat] /\ \A x \in 1 .. 0 : sizes[x] = 0
                BY DEF FirstFrame, IInv, TypeOK
            <4>. QED
                BY <4>1, TotalOfNothing DEF FirstFrame, IInv, CountExact
        <3>. DEFINE zeros == [i \in 1 .. n |-> 0]
        <3>2. zeros \in [1 .. n -> Nat] /\ \A x \in 1 .. n : zeros[x] = 0
            OBVIOUS
        <3>3. TotalOf(zeros, n) = 0
            BY <2>1, <3>2, TotalOfNothing
        <3>4. /\ sizes' \in [1 .. n -> Nat] /\ sizes'[k] = fr.fragment_size
              /\ \A x \in 1 .. n : x # k => sizes'[x] = zeros[x]
            BY <1>1, <2>1, <2>2
        <3>. HIDE DEF zeros
        <3>5. TotalOf(sizes', n) = 0 + fr.fragment_size
            BY <1>1, <2>1, <3>2, <3>3, <3>4, TotalGrows
        <3>. QED
            BY <2>1, <2>2, <2>5, <3>1, <3>5, FS_Singleton DEF CountExact
    <2>7. MarksAgree'
        BY <2>1, <2>2 DEF MarksAgree
    <2>. QED
        BY <2>2, <2>3, <2>4, <2>6, <2>7 DEF IInv, LeftByDuplicate, OnlyBadIndexUndefined
<1>2. CASE k \notin 1 .. n
    <2>1. NothingStored /\ pc' = "undefined" /\ hdr' = fr /\ buf' = buf /\ frag_count = 0
        BY <1>2 DEF FirstFrame, NothingStored, IInv
    <2>2. k \notin 1 .. 0
        OBVIOUS
    <2>. QED
        BY <2>1, <2>2, NothingStoredStep
        DEF IInv, TypeOK, LeftByDuplicate, OnlyBadIndexUndefined, NothingStored, FirstFrame
<1>. QED
    BY <1>1, <1>2

LEMMA RejectStep ==
    ASSUME IInv, NEW fr \in Frames, Reject(fr)
    PROVE  IInv'
BY EndIterationStep DEF Reject

LEMMA DuplicateStep ==
    ASSUME IInv, NEW fr \in Frames, Duplicate(fr)
    PROVE  IInv'
<1>1. pc = "loop" /\ NothingStored /\ EndIteration(fr, Done, "leaked")
    BY DEF Duplicate
<1>2. Done \in BOOLEAN
    BY DEF Done
<1>. QED
    BY <1>1, <1>2, EndIterationStep

LEMMA OutsideTablesStep ==
    ASSUME IInv, NEW fr \in Frames, OutsideTables(fr)
    PROVE  IInv'
<1>1. /\ NothingStored /\ pc' = "undefined" /\ hdr' = fr /\ buf' = buf
      /\ fr.fragment_index > frag_count /\ pc = "loop"
    BY DEF OutsideTables, NothingStored
<1>2. fr.fragment_index \notin 1 .. frag_count
    BY <1>1, FrameFields DEF IInv, TypeOK
<1>. QED
    BY <1>1, <1>2, NothingStoredStep
    DEF IInv, TypeOK, LeftByDuplicate, OnlyBadIndexUndefined, NothingStored

LEMMA StoreFragmentStep ==
    ASSUME IInv, NEW fr \in Frames, StoreFragment(fr)
    PROVE  IInv'
<1>. DEFINE k == fr.fragment_index
<1>1. /\ pc = "loop" /\ ~Rejected(fr)
      /\ k <= frag_count /\ sizes[k] = 0
      /\ fragments' = [fragments EXCEPT ![k] = Payload(fr)]
      /\ sizes' = [sizes EXCEPT ![k] = fr.fragment_size]
      /\ totalbytes' = totalbytes + fr.fragment_size
      /\ j' = j + 1
      /\ EndIteration(fr, Done, "stored")
      /\ frag_count' = frag_count /\ out' = out
    BY DEF StoreFragment
<1>2. k \in 1 .. frag_count /\ k \in 1 .. fr.fragment_count
    BY <1>1, FrameFields DEF Rejected, BadIndex, IInv, TypeOK
<1>3. /\ fr.fragment_size \in Nat \ {0}
      /\ Payload(fr) \in Payloads
      /\ Payload(fr) # NULL
    BY <1>2, FrameFields, IndexedFrame, PayloadType, StoredNotNull
<1>4. k \notin Have
    BY <1>1 DEF Have
<1>5. ~Done
    BY <1>2, <1>4, HaveFinite DEF Done, IInv, TypeOK, CountExact
<1>6. pc' = "loop" /\ hdr' = BlankHeader /\ buf' = "fresh"
    BY <1>1, <1>5 DEF EndIteration
<1>7. Have' = Have \cup {k}
    BY <1>1, <1>2, <1>3 DEF Have, IInv, TypeOK
<1>8. CountExact'
    <2>1. j' = Cardinality(Have')
        BY <1>1, <1>4, <1>7, HaveFinite, FS_AddElement DEF CountExact, IInv, TypeOK
    <2>2. /\ frag_count \in Nat /\ sizes \in [1 .. frag_count -> Nat]
          /\ sizes' \in [1 .. frag_count -> Nat] /\ sizes'[k] = fr.fragment_size
          /\ \A x \in 1 .. frag_count : x # k => sizes'[x] = sizes[x]
          /\ sizes[k] = 0 /\ k \in 1 .. frag_count
        BY <1>1, <1>2, <1>3 DEF IInv, TypeOK
    <2>3. TotalOf(sizes', frag_count) = TotalOf(sizes, frag_count) + fr.fragment_size
        <3>1. TotalOf(sizes', frag_count) = TotalOf(sizes, frag_count) + sizes'[k]
            <4>. HIDE DEF k
            <4>. QED
                BY <2>2, TotalGrows
        <3>. QED
            BY <2>2, <3>1
    <2>. QED
        BY <1>1, <2>1, <2>3 DEF CountExact, IInv
<1>9. MarksAgree'
    BY <1>1, <1>2, <1>3 DEF MarksAgree, IInv, TypeOK
<1>10. out' = NoOutput
    BY <1>1 DEF IInv
<1>11. TypeOK'
    BY <1>1, <1>2, <1>3, <1>6, <1>10 DEF TypeOK, IInv, BlankHeader, Frames
<1>. QED
    BY <1>6, <1>8, <1>9, <1>10, <1>11 DEF IInv, LeftByDuplicate, OnlyBadIndexUndefined

(* No fragment is missing, so write_to_file meets no NULL; and the last    *)
(* header is in a buffer it does not free.                                 *)
LEMMA WriteFileStep ==
    ASSUME IInv, WriteFile
    PROVE  IInv'
<1>1. \A i \in 1 .. frag_count : fragments[i] # NULL
    BY DEF WriteFile, IInv, LeftByDuplicate, MarksAgree, Have
<1>2. /\ pc = "exit" /\ pc' = "completed"
      /\ out' = [name |-> hdr.filename, content |-> fragments]
      /\ buf' = IF buf = "stored" THEN "freed" ELSE buf
      /\ UNCHANGED <<frag_count, fragments, sizes, j, totalbytes, hdr>>
    BY <1>1 DEF WriteFile
<1>3. buf' = "leaked" /\ Have = 1 .. frag_count
    BY <1>2 DEF IInv, LeftByDuplicate
<1>4. Have' = Have
    BY <1>2 DEF Have
<1>5. hdr.filename \in Files \cup {NoFile}
    BY FrameFields DEF IInv, TypeOK
<1>6. TypeOK'
    BY <1>2, <1>3, <1>5 DEF IInv, TypeOK
<1>. QED
    BY <1>2, <1>3, <1>4, <1>6
    DEF IInv, CountExact, MarksAgree, LeftByDuplicate, OnlyBadIndexUndefined

LEMMA NextInvariant == IInv /\ [Next]_vars => IInv'
<1>. SUFFICES ASSUME IInv, [Next]_vars PROVE IInv'
    OBVIOUS
<1>1. CASE FirstRecvFails
    BY <1>1, GiveUpStep DEF FirstRecvFails, NothingStored
<1>2. CASE RecvFails
    <2>1. BlankHeader \in Frames
        BY DEF BlankHeader, Frames
    <2>. QED
        BY <1>2, <2>1, EndIterationStep DEF RecvFails
<1>3. ASSUME NEW fr \in Frames, Recv(fr) PROVE IInv'
    BY <1>3, FirstFrameStep, RejectStep, OutsideTablesStep, DuplicateStep,
       StoreFragmentStep DEF Recv
<1>4. CASE SizeMismatch
    BY <1>4, GiveUpStep DEF SizeMismatch, NothingStored
<1>5. CASE WriteFile
    BY <1>5, WriteFileStep
<1>6. CASE UNCHANGED vars
    <2>1. Have' = Have
        BY <1>6 DEF vars, Have
    <2>. QED
        BY <1>6, <2>1 DEF vars, IInv, TypeOK, CountExact, MarksAgree,
           LeftByDuplicate, OnlyBadIndexUndefined
<1>. QED
    BY <1>1, <1>2, <1>3, <1>4, <1>5, <1>6 DEF Next, Finish

----------------------------------------------------------------------------
(* The theorems.                                                           *)

(* The inductive invariant holds throughout.                               *)
THEOREM CaptureInvariant == Spec => []IInv
<1>1. Init => IInv
    BY InitInvariant
<1>2. IInv /\ [Next]_vars => IInv'
    BY NextInvariant
<1>. QED
    BY <1>1, <1>2, PTL DEF Spec

(* The variables keep their types.                                         *)
THEOREM TypeCorrect == Spec => []TypeOK
<1>1. IInv => TypeOK
    BY DEF IInv
<1>. QED
    BY <1>1, CaptureInvariant, PTL

(* j is exactly the number of indices received, whatever is repeated,      *)
(* reordered or lost on the way.                                           *)
THEOREM CounterIsExact == Spec => []CountExact
<1>1. IInv => CountExact
    BY DEF IInv
<1>. QED
    BY <1>1, CaptureInvariant, PTL

(* The header read after the loop is never in a freed buffer.              *)
THEOREM HeaderStaysLive == Spec => []HeaderLive
<1>1. IInv => HeaderLive
    BY DEF IInv, LeftByDuplicate, HeaderLive
<1>. QED
    BY <1>1, CaptureInvariant, PTL

(* The program leaves its tables only by an index they have no place for.  *)
THEOREM UndefinedOnlyByIndex == Spec => []OnlyBadIndexUndefined
<1>1. IInv => OnlyBadIndexUndefined
    BY DEF IInv
<1>. QED
    BY <1>1, CaptureInvariant, PTL

(* A frame the loop accepts is an intact fragment, whole in its buffer.    *)
LEMMA AcceptedIsOriginal ==
    ASSUME NEW fr \in Frames, ~Rejected(fr)
    PROVE  \E f \in Files : /\ fr.fragment_count = fragment_count[f]
                            /\ fr.fragment_index \in 1 .. fragment_count[f]
                            /\ Payload(fr) = Original(f, fr.fragment_index)
<1>1. fr.fragment_index \in 1 .. fr.fragment_count
    BY FrameFields DEF Rejected, BadIndex
<1>2. PICK f \in Files :
          /\ fr.filename = f
          /\ fr.fragment_count = fragment_count[f]
          /\ fr.fragment_index \in 1 .. fragment_count[f]
          /\ fr.fragment_size \in Nat \ {0}
          /\ fr.ret = Received(fr.fragment_size)
    BY <1>1, IndexedFrame
<1>3. fr.fragment_size <= RX_BUF_SIZE
    BY <1>2 DEF Rejected, WrongLength, Received, HeaderSize, RX_BUF_SIZE
<1>4. fr.data = "intact"
    BY DEF Rejected, CrcMatches
<1>5. Payload(fr) = Original(f, fr.fragment_index)
    BY <1>2, <1>3, <1>4 DEF Payload, Original, RX_BUF_SIZE
<1>. QED
    BY <1>2, <1>5

(* At most one fragment in the tables, hence in the file, is not what its  *)
(* sender sent: the first to arrive.                                       *)
THEOREM AtMostOneUnverified == Spec => []OneUnverified
<1>1. Init => OneUnverified
    BY DEF Init, OneUnverified
<1>2. IInv /\ OneUnverified /\ [Next]_vars => OneUnverified'
    <2>. SUFFICES ASSUME IInv, OneUnverified, [Next]_vars PROVE OneUnverified'
        OBVIOUS
    <2>1. CASE UNCHANGED <<frag_count, fragments>>
        BY <2>1 DEF OneUnverified
    <2>2. ASSUME NEW fr \in Frames, FirstFrame(fr) PROVE OneUnverified'
        <3>1. CASE fr.fragment_index \in 1 .. fr.fragment_count
            BY <2>2, <3>1 DEF FirstFrame, OneUnverified, NULL
        <3>2. CASE fr.fragment_index \notin 1 .. fr.fragment_count
            BY <2>2, <3>2, <2>1 DEF FirstFrame
        <3>. QED
            BY <3>1, <3>2
    <2>3. ASSUME NEW fr \in Frames, StoreFragment(fr) PROVE OneUnverified'
        <3>1. Payload(fr).data = "intact"
            BY <2>3, AcceptedIsOriginal DEF StoreFragment, Original
        <3>2. /\ fragments' = [fragments EXCEPT ![fr.fragment_index] = Payload(fr)]
              /\ frag_count' = frag_count
            BY <2>3 DEF StoreFragment
        <3>. QED
            BY <3>1, <3>2 DEF OneUnverified, IInv, TypeOK
    <2>. QED
        BY <2>1, <2>2, <2>3
        DEF Next, Recv, Finish, FirstRecvFails, RecvFails, Reject, OutsideTables, Duplicate,
            SizeMismatch, WriteFile, NothingStored, vars
<1>. QED
    BY <1>1, <1>2, CaptureInvariant, PTL DEF Spec

(* What a step that stores nothing leaves as it was.                       *)
LEMMA QuietStep ==
    ASSUME NEW fr \in Frames,
           Reject(fr) \/ OutsideTables(fr) \/ Duplicate(fr)
    PROVE  NothingStored
BY DEF Reject, OutsideTables, Duplicate, NothingStored

(* No step replaces a fragment already received.                           *)
THEOREM FirstCopyIsKept == Spec => FirstCopyKept
<1>. DEFINE Kept == \A i \in Have : fragments'[i] = fragments[i] /\ sizes'[i] = sizes[i]
<1>1. IInv /\ [Next]_vars => [Kept]_vars
    <2>. SUFFICES ASSUME IInv, Next PROVE Kept
        OBVIOUS
    <2>1. CASE UNCHANGED <<fragments, sizes>>
        BY <2>1
    <2>2. ASSUME NEW fr \in Frames, FirstFrame(fr) PROVE Kept
        BY <2>2 DEF FirstFrame, IInv, Have
    <2>3. ASSUME NEW fr \in Frames, StoreFragment(fr) PROVE Kept
        BY <2>3 DEF StoreFragment, IInv, TypeOK, Have
    <2>. QED
        BY <2>1, <2>2, <2>3, QuietStep
        DEF Next, Recv, Finish, FirstRecvFails, RecvFails, SizeMismatch, WriteFile,
            NothingStored
<1>. QED
    BY <1>1, CaptureInvariant, PTL DEF Spec, FirstCopyKept

----------------------------------------------------------------------------
(* FileCapture implements Reassembly.                                      *)

(* Every file has as many fragments as the tables have places.             *)
SameCounts ==
    pc \notin {"first", "failed", "undefined"} =>
        /\ frag_count # 0
        /\ \A f \in Files : fragment_count[f] = frag_count

LEMMA SameCountsStep ==
    ASSUME EqualCounts
    PROVE  IInv /\ SameCounts /\ [Next]_vars => SameCounts'
<1>. SUFFICES ASSUME IInv, SameCounts, [Next]_vars PROVE SameCounts'
    OBVIOUS
<1>1. ASSUME NEW fr \in Frames, FirstFrame(fr) PROVE SameCounts'
    <2>1. CASE fr.fragment_index \in 1 .. fr.fragment_count
        <3>1. PICK f \in Files : fr.fragment_count = fragment_count[f]
            BY <2>1, IndexedFrame
        <3>2. fragment_count[f] # 0
            BY GeometryAssumption
        <3>. QED
            BY <1>1, <2>1, <3>1, <3>2 DEF FirstFrame, SameCounts, EqualCounts
    <2>2. CASE fr.fragment_index \notin 1 .. fr.fragment_count
        BY <1>1, <2>2 DEF FirstFrame, SameCounts
    <2>. QED
        BY <2>1, <2>2
<1>2. CASE UNCHANGED frag_count /\ (pc = "first" => pc' \in {"first", "failed"})
                                /\ (pc \in {"failed", "undefined"} => pc' = pc)
    BY <1>2 DEF SameCounts
<1>. QED
    BY <1>1, <1>2
    DEF Next, Recv, Finish, FirstRecvFails, RecvFails, Reject, OutsideTables, Duplicate,
        StoreFragment, SizeMismatch, WriteFile, NothingStored, vars

(* The slots and the output that Reassembly sees.                          *)
LEMMA MissingSlots ==
    ASSUME IInv
    PROVE  /\ DOMAIN Qualities(fragments) = 1 .. frag_count
           /\ \A i \in 1 .. frag_count :
                  Qualities(fragments)[i] = "missing" <=> sizes[i] = 0
BY DEF Qualities, Quality, IInv, TypeOK, MarksAgree

LEMMA InitRefines == Init => Abstract!Init
<1>. SUFFICES ASSUME Init PROVE Abstract!Init
    OBVIOUS
<1>1. Qualities(<<>>) = Abstract!NoSlots
    BY DEF Qualities, Abstract!NoSlots
<1>. QED
    BY <1>1 DEF Init, NoOutput, Verdict, Abstract!Init, Abstract!Closed, Abstract!Nothing

LEMMA NoSlotsYet ==
    ASSUME IInv, frag_count = 0
    PROVE  [c \in {"file"} |-> Qualities(fragments)] = Abstract!Closed
<1>1. Qualities(fragments) = Abstract!NoSlots
    BY MissingSlots DEF Qualities, Abstract!NoSlots
<1>. QED
    BY <1>1 DEF Abstract!Closed

LEMMA FirstFrameRefines ==
    ASSUME IInv, NEW fr \in Frames, FirstFrame(fr)
    PROVE  Abstract!Next
<1>. DEFINE k == fr.fragment_index
            n == fr.fragment_count
<1>1. [c \in {"file"} |-> Qualities(fragments)] = Abstract!Closed
    BY NoSlotsYet DEF FirstFrame, IInv
<1>2. CASE k \in 1 .. n
    <2>1. /\ pc = "first" /\ pc' = "loop" /\ out' = out
          /\ fragments' = [i \in 1 .. n |-> IF i = k THEN Payload(fr) ELSE NULL]
        BY <1>2 DEF FirstFrame
    <2>2. PICK f \in Files : n = fragment_count[f]
        BY <1>2, IndexedFrame
    <2>3. Payload(fr) # NULL
        BY <1>2, FrameFields, StoredNotNull
    <2>4. PICK q \in {"good", "bad"} : Quality(Payload(fr), k) = q
        BY <2>3 DEF Quality
    <2>5. Qualities(fragments') = [i \in 1 .. n |-> IF i = k THEN q ELSE "missing"]
        BY <2>1, <2>4 DEF Qualities, Quality
    <2>6. Abstract!Begin(n, "file", k, q)
        BY <1>1, <2>1, <2>5 DEF Abstract!Begin, Verdict
    <2>. QED
        BY <1>2, <2>2, <2>6 DEF Abstract!Next
<1>3. CASE k \notin 1 .. n
    <2>1. pc = "first" /\ pc' = "undefined" /\ fragments' = fragments /\ out' = out
        BY <1>3 DEF FirstFrame
    <2>2. Abstract!Abandon
        BY <1>1, <2>1 DEF Abstract!Abandon, Verdict
    <2>. QED
        BY <2>2 DEF Abstract!Next
<1>. QED
    BY <1>2, <1>3

LEMMA StoreFragmentRefines ==
    ASSUME IInv, NEW fr \in Frames, StoreFragment(fr)
    PROVE  Abstract!Next
<1>. DEFINE k == fr.fragment_index
            held == [c \in {"file"} |-> Qualities(fragments)]
<1>1. /\ pc = "loop" /\ ~Rejected(fr) /\ k <= frag_count /\ sizes[k] = 0 /\ out' = out
      /\ fragments' = [fragments EXCEPT ![k] = Payload(fr)]
      /\ pc' \in {"loop", "exit"}
    BY DEF StoreFragment, EndIteration
<1>2. PICK f \in Files : k \in 1 .. fragment_count[f] /\ Payload(fr) = Original(f, k)
    BY <1>1, AcceptedIsOriginal
<1>3. k \in 1 .. frag_count
    BY <1>1, <1>2, GeometryAssumption DEF IInv, TypeOK
<1>4. Quality(Payload(fr), k) = "good"
    BY <1>2 DEF Quality, Original, NULL
<1>5. Qualities(fragments') = [Qualities(fragments) EXCEPT ![k] = "good"]
    BY <1>1, <1>3, <1>4 DEF Qualities, IInv, TypeOK
<1>6. [c \in {"file"} |-> Qualities(fragments)]' = [held EXCEPT !["file"][k] = "good"]
    BY <1>5
<1>7. k \in DOMAIN held["file"] /\ held["file"][k] = "missing"
    BY <1>1, <1>3, MissingSlots
<1>8. Abstract!Fill("file", k)
    BY <1>1, <1>6, <1>7 DEF Abstract!Fill, Abstract!Missing, Verdict
<1>. QED
    BY <1>7, <1>8 DEF Abstract!Next

LEMMA WriteFileRefines ==
    ASSUME IInv, SameCounts, WriteFile
    PROVE  Abstract!Next
<1>. DEFINE held == [c \in {"file"} |-> Qualities(fragments)]
<1>1. \A i \in 1 .. frag_count : fragments[i] # NULL
    BY DEF WriteFile, IInv, LeftByDuplicate, MarksAgree, Have
<1>2. /\ pc = "exit" /\ pc' = "completed" /\ fragments' = fragments
      /\ out'.content = fragments
    BY <1>1 DEF WriteFile
<1>3. Have = 1 .. frag_count /\ 1 \in 1 .. frag_count
    BY <1>2 DEF IInv, LeftByDuplicate, SameCounts, TypeOK
<1>4. \A i \in DOMAIN held["file"] : held["file"][i] # "missing"
    BY <1>3, MissingSlots DEF Have
<1>5. held # Abstract!Closed
    BY <1>3, MissingSlots DEF Abstract!Closed, Abstract!NoSlots
<1>6. Abstract!Deliver
    BY <1>2, <1>4, <1>5 DEF Abstract!Deliver, Abstract!Missing, Verdict
<1>. QED
    BY <1>6 DEF Abstract!Next

(* A step Reassembly does not see.                                         *)
LEMMA UnseenRefines ==
    ASSUME UNCHANGED <<fragments, out>>, Verdict' = Verdict
    PROVE  UNCHANGED Abstract!rvars
BY DEF Abstract!rvars, Qualities, Quality

LEMMA NextRefines == IInv /\ SameCounts /\ [Next]_vars => [Abstract!Next]_(Abstract!rvars)
<1>. SUFFICES ASSUME IInv, SameCounts, [Next]_vars
              PROVE  Abstract!Next \/ UNCHANGED Abstract!rvars
    OBVIOUS
<1>1. CASE FirstRecvFails
    <2>1. pc = "first" /\ pc' = "failed" /\ UNCHANGED <<fragments, out>>
        BY <1>1 DEF FirstRecvFails
    <2>2. [c \in {"file"} |-> Qualities(fragments)] = Abstract!Closed
        BY <2>1, NoSlotsYet DEF IInv
    <2>3. Abstract!Abandon
        BY <2>1, <2>2 DEF Abstract!Abandon, Verdict
    <2>. QED
        BY <2>3 DEF Abstract!Next
<1>2. ASSUME NEW fr \in Frames, FirstFrame(fr) PROVE Abstract!Next
    BY <1>2, FirstFrameRefines
<1>3. ASSUME NEW fr \in Frames, StoreFragment(fr) PROVE Abstract!Next
    BY <1>3, StoreFragmentRefines
<1>4. CASE WriteFile
    BY <1>4, WriteFileRefines
<1>5. CASE RecvFails
    BY <1>5, UnseenRefines DEF RecvFails, EndIteration, NothingStored, Verdict
<1>6. ASSUME NEW fr \in Frames, Reject(fr) PROVE UNCHANGED Abstract!rvars
    BY <1>6, UnseenRefines DEF Reject, EndIteration, NothingStored, Verdict
<1>7. ASSUME NEW fr \in Frames, Duplicate(fr) PROVE UNCHANGED Abstract!rvars
    BY <1>7, UnseenRefines DEF Duplicate, EndIteration, NothingStored, Verdict
<1>8. ASSUME NEW fr \in Frames, OutsideTables(fr) PROVE FALSE
    <2>1. PICK f \in Files : fr.fragment_index \in 1 .. fragment_count[f]
        BY <1>8, AcceptedIsOriginal DEF OutsideTables
    <2>2. fragment_count[f] = frag_count /\ fr.fragment_index > frag_count
        BY <1>8 DEF OutsideTables, SameCounts
    <2>. QED
        BY <2>1, <2>2, FrameFields DEF IInv, TypeOK
<1>9. CASE SizeMismatch
    BY <1>9, UnseenRefines DEF SizeMismatch, Verdict
<1>10. CASE UNCHANGED vars
    BY <1>10, UnseenRefines DEF vars, Verdict
<1>. QED
    BY <1>1, <1>2, <1>3, <1>4, <1>5, <1>6, <1>7, <1>8, <1>9, <1>10
    DEF Next, Recv, Finish

(* FileCapture implements Reassembly: each step of it is a step of         *)
(* Reassembly under the refinement mapping, or leaves its variables alone. *)
THEOREM CaptureImplementsReassembly ==
    ASSUME EqualCounts
    PROVE  Spec => ImplementsReassembly
<1>1. Init => SameCounts
    BY DEF Init, SameCounts
<1>2. IInv /\ SameCounts /\ [Next]_vars => SameCounts'
    BY SameCountsStep
<1>3. Spec => []SameCounts
    BY <1>1, <1>2, CaptureInvariant, PTL DEF Spec
<1>4. Init => Abstract!Init
    BY InitRefines
<1>5. IInv /\ SameCounts /\ [Next]_vars => [Abstract!Next]_(Abstract!rvars)
    BY NextRefines
<1>. QED
    BY <1>3, <1>4, <1>5, CaptureInvariant, PTL
    DEF Spec, ImplementsReassembly, Abstract!Spec

----------------------------------------------------------------------------
(* The receiver of a transfer, whatever senders and wire do, behaves as    *)
(* FileCapture in its open environment: what is proved of FileCapture      *)
(* holds of every transfer.                                                *)

(* A step of the transfer is a step of capture_file() or leaves it alone.  *)
LEMMA TransferStep == [TransferNext]_tvars => [Next]_vars
<1>1. ASSUME Receive PROVE Next
    <2>1. PICK fr \in Frames : Recv(fr)
        BY <1>1 DEF Receive
    <2>. QED
        BY <2>1 DEF Next
<1>2. ASSUME LinkDown PROVE Next
    BY <1>2 DEF LinkDown, Next
<1>3. ASSUME Conclude PROVE Next
    BY <1>3 DEF Conclude, Next
<1>4. ASSUME Environment PROVE UNCHANGED vars
    BY <1>4 DEF Environment
<1>5. ASSUME UNCHANGED tvars PROVE UNCHANGED vars
    BY <1>5 DEF tvars
<1>. QED
    BY <1>1, <1>2, <1>3, <1>4, <1>5 DEF TransferNext

(* Every transfer is a run of FileCapture.                                 *)
THEOREM TransferRunsCapture == TransferSpec => Spec
<1>1. TransferInit => Init
    BY DEF TransferInit
<1>. QED
    BY <1>1, TransferStep, PTL DEF TransferSpec, Spec

(* In every transfer the counter is exact, ...                             *)
THEOREM TransferCounterIsExact == TransferSpec => []CountExact
BY TransferRunsCapture, CounterIsExact, PTL

(* ... the header read after the loop is never in a freed buffer, ...      *)
THEOREM TransferHeaderStaysLive == TransferSpec => []HeaderLive
BY TransferRunsCapture, HeaderStaysLive, PTL

(* ... and at most one fragment is not what its sender sent.               *)
THEOREM TransferAtMostOneUnverified == TransferSpec => []OneUnverified
BY TransferRunsCapture, AtMostOneUnverified, PTL

----------------------------------------------------------------------------
(* One sender at a time.                                                   *)

OneAtATime == \A S \in SendingSets : \E f \in Files : S = {f}

FramesOf(f) == {SenderFrame(f, i, d) : i \in SentIndices(f), d \in {"intact", "garbled"}}

(* Nothing but the frames of f, and of other programs, is on its way.      *)
OnlySender(f) ==
    /\ sending \subseteq {f}
    /\ queue \in [Sockets -> Seq(FramesOf(f) \cup {StrayFrame})]

(* Nothing but f is in the tables, each fragment in its place and as sent  *)
(* but for the first one, and what the program reads after the loop are    *)
(* the name and the size of f.                                             *)
HoldsFile(f, first) ==
    /\ frag_count = fragment_count[f] /\ first \in 1 .. frag_count
    /\ \A i \in 1 .. frag_count : sizes[i] # 0 =>
           /\ sizes[i] = fragment_size[f][i]
           /\ fragments[i].filename = f /\ fragments[i].index = i
           /\ i # first => fragments[i] = Original(f, i)

InTables(f) ==
    pc \in {"loop", "exit", "completed", "size_error"} =>
        \E first \in 1 .. fragment_count[f] : HoldsFile(f, first)

OnlyFile(f) ==
    /\ InTables(f)
    /\ pc \in {"exit", "completed", "size_error"} => hdr.filename = f /\ hdr.file_size = file_size[f]
    /\ pc # "size_error"
    /\ pc = "completed" => out.name = f

FromOneSender == \E f \in Files : OnlySender(f) /\ OnlyFile(f)

(* What an indexed frame of f carries.                                     *)
LEMMA FrameOf ==
    ASSUME NEW f \in Files, NEW fr \in FramesOf(f)
    PROVE  /\ fr.filename = f /\ fr.file_size = file_size[f]
           /\ fr.fragment_count = fragment_count[f]
           /\ fr.fragment_index \in 1 .. fragment_count[f]
           /\ fr.fragment_size = fragment_size[f][fr.fragment_index]
           /\ Payload(fr).filename = f /\ Payload(fr).index = fr.fragment_index
           /\ ~Rejected(fr) => Payload(fr) = Original(f, fr.fragment_index)
<1>1. PICK i \in SentIndices(f), d \in {"intact", "garbled"} : fr = SenderFrame(f, i, d)
    BY DEF FramesOf
<1>2. i \in 1 .. fragment_count[f]
    BY DEF SentIndices
<1>3. fragment_size[f][i] \in Nat
    BY <1>2, GeometryAssumption
<1>4. ASSUME ~Rejected(fr) PROVE d = "intact" /\ fragment_size[f][i] <= RX_BUF_SIZE
    BY <1>1, <1>3, <1>4 DEF Rejected, WrongLength, CrcMatches, SenderFrame, Received, HeaderSize, RX_BUF_SIZE
<1>. QED
    BY <1>1, <1>2, <1>3, <1>4 DEF SenderFrame, Payload, Original, RX_BUF_SIZE

(* A frame of another program gets no further than the checks of the loop, *)
(* or outside the tables as the first one.                                 *)
LEMMA StrayIsDropped ==
    /\ Rejected(StrayFrame)
    /\ StrayFrame.fragment_index \notin 1 .. StrayFrame.fragment_count
BY DEF StrayFrame, Rejected, BadIndex

(* The queue holds frames of f, whoever else writes to the wire.           *)
LEMMA SenderStep ==
    ASSUME NEW f \in Files, OnlySender(f), [TransferNext]_tvars
    PROVE  OnlySender(f)'
<1>. DEFINE Q == FramesOf(f) \cup {StrayFrame}
<1>1. CASE UNCHANGED queue /\ sending' \subseteq sending
    BY <1>1 DEF OnlySender
<1>2. ASSUME NEW s \in Sockets, NEW fr \in Q,
             queue' = [queue EXCEPT ![s] = Append(@, fr)], sending' = sending
      PROVE  OnlySender(f)'
    <2>1. Append(queue[s], fr) \in Seq(Q)
        BY AppendProperties DEF OnlySender
    <2>. QED
        BY <1>2, <2>1 DEF OnlySender
<1>3. ASSUME NEW s \in Sockets, queue[s] # <<>>,
             queue' = [queue EXCEPT ![s] = Tail(@)], sending' = sending
      PROVE  OnlySender(f)'
    <2>1. Tail(queue[s]) \in Seq(Q)
        BY <1>3, HeadTailProperties DEF OnlySender
    <2>. QED
        BY <1>3, <2>1 DEF OnlySender
<1>4. CASE Receive
    BY <1>3, <1>4, SocketAssumption DEF Receive, Take
<1>5. CASE Environment
    <2>1. ASSUME NEW g \in Files, NEW d \in {"intact", "garbled"}, Send(g, d)
          PROVE  OnlySender(f)'
        <3>1. g = f
            BY <2>1 DEF Send, OnlySender
        <3>2. SenderFrame(g, Next_index(g), d) \in Q
            BY <2>1, <3>1 DEF Send, FramesOf
        <3>3. socket_of[g] \in Sockets
            BY SendersAssumption
        <3>. QED
            BY <2>1, <3>2, <3>3, <1>2 DEF Send
    <2>2. ASSUME NEW s \in Sockets, Stray(s) PROVE OnlySender(f)'
        BY <2>2, <1>2 DEF Stray
    <2>. QED
        BY <1>1, <1>5, <2>1, <2>2 DEF Environment, TxNext, Lose, ExitOnEmpty, Stop
<1>. QED
    BY <1>1, <1>4, <1>5 DEF TransferNext, LinkDown, Conclude, tvars, txVars

LEMMA TablesStay ==
    ASSUME NEW f \in Files, InTables(f), UNCHANGED <<frag_count, sizes, fragments>>,
           pc' \in {"first", "failed", "undefined"}
        \/ pc \in {"loop", "exit", "completed", "size_error"}
        \/ pc' = pc
    PROVE  InTables(f)'
BY DEF InTables, HoldsFile

(* What the program receives of one sender keeps its tables to one file.   *)
LEMMA OnlyFileReceives ==
    ASSUME NEW f \in Files, IInv, OnlyFile(f),
           NEW fr \in FramesOf(f) \cup {StrayFrame}, fr \in Frames, Recv(fr)
    PROVE  OnlyFile(f)'
<1>. DEFINE x == fr.fragment_index
<1>1. CASE FirstFrame(fr)
    <2>1. CASE x \in 1 .. fr.fragment_count
        <3>1. fr \in FramesOf(f)
            BY <2>1, StrayIsDropped
        <3>2. HoldsFile(f, x)'
            BY <1>1, <2>1, <3>1, FrameOf DEF FirstFrame, HoldsFile
        <3>3. pc' = "loop" /\ x \in 1 .. fragment_count[f]
            BY <1>1, <2>1, <3>1, FrameOf DEF FirstFrame
        <3>. QED
            BY <3>2, <3>3 DEF OnlyFile, InTables
    <2>2. CASE x \notin 1 .. fr.fragment_count
        BY <1>1, <2>2 DEF FirstFrame, OnlyFile, InTables
    <2>. QED
        BY <2>1, <2>2
<1>2. CASE Reject(fr)
    BY <1>2, TablesStay DEF Reject, EndIteration, NothingStored, OnlyFile
<1>3. CASE OutsideTables(fr)
    BY <1>3 DEF OutsideTables, OnlyFile, InTables
<1>4. CASE Duplicate(fr)
    <2>1. fr \in FramesOf(f)
        BY <1>4, StrayIsDropped DEF Duplicate
    <2>2. fr.filename = f /\ fr.file_size = file_size[f]
        BY <2>1, FrameOf
    <2>. QED
        BY <1>4, <2>2, TablesStay DEF Duplicate, EndIteration, NothingStored, OnlyFile
<1>5. CASE StoreFragment(fr)
    <2>1. fr \in FramesOf(f)
        BY <1>5, StrayIsDropped DEF StoreFragment
    <2>2. /\ fr.filename = f /\ fr.file_size = file_size[f]
          /\ fr.fragment_size = fragment_size[f][x] /\ Payload(fr) = Original(f, x)
        BY <1>5, <2>1, FrameOf DEF StoreFragment
    <2>3. /\ pc = "loop" /\ frag_count' = frag_count /\ out' = out
          /\ fragments' = [fragments EXCEPT ![x] = Payload(fr)]
          /\ sizes' = [sizes EXCEPT ![x] = fr.fragment_size]
          /\ pc' \in {"loop", "exit"}
          /\ pc' = "exit" => hdr' = fr
        BY <1>5 DEF StoreFragment, EndIteration
    <2>4. PICK first \in 1 .. fragment_count[f] : HoldsFile(f, first)
        BY <2>3 DEF OnlyFile, InTables
    <2>5. /\ DOMAIN sizes = 1 .. frag_count /\ DOMAIN fragments = 1 .. frag_count
          /\ Original(f, x).filename = f /\ Original(f, x).index = x
        BY DEF IInv, TypeOK, Original
    <2>6. HoldsFile(f, first)'
        <3>. SUFFICES ASSUME NEW i \in 1 .. frag_count, sizes'[i] # 0
                      PROVE  /\ sizes'[i] = fragment_size[f][i]
                             /\ fragments'[i].filename = f /\ fragments'[i].index = i
                             /\ i # first => fragments'[i] = Original(f, i)
            BY <2>3, <2>4 DEF HoldsFile
        <3>1. CASE i = x
            BY <2>2, <2>3, <2>5, <3>1
        <3>2. CASE i # x
            BY <2>3, <2>4, <2>5, <3>2 DEF HoldsFile
        <3>. QED
            BY <3>1, <3>2
    <2>. QED
        BY <2>2, <2>3, <2>6 DEF OnlyFile, InTables
<1>. QED
    BY <1>1, <1>2, <1>3, <1>4, <1>5 DEF Recv

(* When the loop ends the tables hold all of f, so their total is its      *)
(* size.                                                                   *)
LEMMA TotalOfFile ==
    ASSUME NEW f \in Files, IInv, OnlyFile(f), pc = "exit"
    PROVE  totalbytes = file_size[f] /\ hdr.file_size = totalbytes
<1>1. /\ frag_count = fragment_count[f] /\ Have = 1 .. frag_count
      /\ sizes \in [1 .. frag_count -> Nat]
      /\ totalbytes = TotalOf(sizes, frag_count)
    BY DEF OnlyFile, InTables, HoldsFile, IInv, LeftByDuplicate, TypeOK, CountExact
<1>2. fragment_size[f] \in [1 .. frag_count -> Nat]
    BY <1>1, GeometryAssumption
<1>3. \A i \in 1 .. frag_count : sizes[i] = fragment_size[f][i]
    BY <1>1 DEF OnlyFile, InTables, HoldsFile, Have
<1>4. sizes = fragment_size[f]
    <2>1. /\ sizes = [i \in 1 .. frag_count |-> sizes[i]]
          /\ fragment_size[f] = [i \in 1 .. frag_count |-> fragment_size[f][i]]
        BY <1>1, <1>2
    <2>2. [i \in 1 .. frag_count |-> sizes[i]] = [i \in 1 .. frag_count |-> fragment_size[f][i]]
        BY <1>3
    <2>. QED
        BY <2>1, <2>2, Zenon
<1>. QED
    BY <1>1, <1>4, CutAssumption DEF OnlyFile

LEMMA OneSenderStep == IInv /\ FromOneSender /\ [TransferNext]_tvars => FromOneSender'
<1>. SUFFICES ASSUME IInv, [TransferNext]_tvars, NEW f \in Files, OnlySender(f), OnlyFile(f)
              PROVE  OnlyFile(f)'
    BY SenderStep DEF FromOneSender
<1>1. CASE Receive
    <2>1. PICK fr \in Frames : Take(Socket, fr) /\ Recv(fr)
        BY <1>1 DEF Receive
    <2>2. fr \in FramesOf(f) \cup {StrayFrame}
        BY <2>1, HeadTailProperties, SocketAssumption DEF Take, OnlySender
    <2>. QED
        BY <2>1, <2>2, OnlyFileReceives
<1>2. CASE LinkDown
    BY <1>2, TablesStay DEF LinkDown, FirstRecvFails, RecvFails, EndIteration, NothingStored, OnlyFile
<1>3. CASE Conclude
    <2>1. pc = "exit" /\ hdr.file_size = totalbytes
        BY <1>3, TotalOfFile DEF Conclude, Finish, SizeMismatch, WriteFile
    <2>2. WriteFile
        BY <1>3, <2>1 DEF Conclude, Finish, SizeMismatch
    <2>3. pc' \in {"completed", "undefined"} /\ (pc' = "completed" => out'.name = hdr.filename)
        BY <2>2 DEF WriteFile
    <2>. QED
        BY <2>1, <2>2, <2>3, TablesStay DEF WriteFile, OnlyFile
<1>4. CASE Environment \/ UNCHANGED tvars
    BY <1>4, TablesStay DEF Environment, tvars, vars, OnlyFile
<1>. QED
    BY <1>1, <1>2, <1>3, <1>4 DEF TransferNext

(* With one sender at a time, of any file cut into any fragments, the file *)
(* written is the sender's: no transfer is turned away for its size, and   *)
(* every fragment stands in its place, as sent but for the one that came   *)
(* first.                                                                  *)
THEOREM OneSenderDeliversItsFile ==
    ASSUME OneAtATime
    PROVE  TransferSpec => []OutputIsTheFile
<1>1. TransferInit => FromOneSender
    <2>. SUFFICES ASSUME TransferInit PROVE FromOneSender
        OBVIOUS
    <2>1. PICK f \in Files : sending = {f}
        BY OneAtATime DEF TransferInit, TxInit, OneAtATime
    <2>2. <<>> \in Seq(FramesOf(f) \cup {StrayFrame})
        OBVIOUS
    <2>3. OnlySender(f)
        BY <2>1, <2>2 DEF TransferInit, TxInit, OnlySender
    <2>4. OnlyFile(f)
        BY DEF TransferInit, Init, OnlyFile, InTables
    <2>. QED
        BY <2>3, <2>4 DEF FromOneSender
<1>2. IInv /\ FromOneSender /\ [TransferNext]_tvars => FromOneSender'
    BY OneSenderStep
<1>3. IInv /\ FromOneSender => OutputIsTheFile
    <2>. SUFFICES ASSUME IInv, NEW f \in Files, OnlyFile(f), pc \in {"completed", "size_error"}
                  PROVE  OutputIsTheFile
        BY DEF FromOneSender, OutputIsTheFile
    <2>1. pc = "completed" /\ out.name = f /\ out.content = fragments
        BY DEF OnlyFile, IInv
    <2>2. PICK first \in 1 .. fragment_count[f] : HoldsFile(f, first)
        BY DEF OnlyFile, InTables
    <2>3. /\ frag_count = fragment_count[f] /\ DOMAIN fragments = 1 .. frag_count
          /\ \A i \in 1 .. frag_count : sizes[i] # 0
        BY <2>1, <2>2 DEF HoldsFile, IInv, TypeOK, LeftByDuplicate, Have
    <2>4. \A i \in 1 .. frag_count : /\ fragments[i].filename = f /\ fragments[i].index = i
                                     /\ i # first => fragments[i] = Original(f, i)
        BY <2>2, <2>3 DEF HoldsFile
    <2>. QED
        BY <2>1, <2>3, <2>4 DEF OutputIsTheFile
<1>. QED
    BY <1>1, <1>2, <1>3, TransferRunsCapture, CaptureInvariant, PTL DEF TransferSpec
=============================================================================
