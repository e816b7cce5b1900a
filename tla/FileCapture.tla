---------------------------- MODULE FileCapture ----------------------------
(***************************************************************************)
(* socketExp/fileCapture.c: capture_file() reads frames of one ether type  *)
(* from a blocking raw socket, keeps the buffer of every new fragment, and *)
(* writes the file once it has counted enough of them.                     *)
(*                                                                         *)
(* One iteration of the loop, from recv to the next recv, is one action:   *)
(* the program is sequential and nothing else sees its memory.  The        *)
(* socket's input is left open here (any frame of Frames, any time);       *)
(* FileTransfer closes it with senders, a lossy wire and a socket queue.   *)
(***************************************************************************)
EXTENDS CaptureFormat, FiniteSets

VARIABLES
    pc,          \* where capture_file stands
    frag_count,  \* fragments expected, from the first frame
    fragments,   \* fragments[i]: the payload kept for index i, or NULL
    sizes,       \* sizes[i]: its size; 0 marks an index not yet received
    j,           \* fragments counted so far
    totalbytes,  \* sum of the sizes counted
    hdr,         \* the header the program would read through hdr
    buf,         \* what became of the buffer hdr points into
    out          \* the file written, or NoOutput

vars == <<pc, frag_count, fragments, sizes, j, totalbytes, hdr, buf, out>>

NoOutput == [name |-> NoFile, content |-> <<>>]

(* A buffer fresh from calloc reads as a header of zeros.                  *)
BlankHeader == StrayFrame

Init ==
    /\ pc = "first"
    /\ frag_count = 0
    /\ fragments = <<>>
    /\ sizes = <<>>
    /\ j = 0
    /\ totalbytes = 0
    /\ hdr = BlankHeader
    /\ buf = "fresh"
    /\ out = NoOutput

----------------------------------------------------------------------------
(* The first recv, before the loop.                                        *)

(* recv failed: the program gives up.                                      *)
FirstRecvFails ==
    /\ pc = "first"
    /\ pc' = "failed"
    /\ UNCHANGED <<frag_count, fragments, sizes, j, totalbytes, hdr, buf, out>>

(* The first frame sizes the tables and is stored, with none of the checks *)
(* the loop makes.  An index outside the tables is a write past calloc's   *)
(* block; so is a frame shorter than the header, whose index is whatever   *)
(* malloc left there.                                                      *)
FirstFrameOversized(fr) ==   \* mutant: calloc(frag_count + 1)
    /\ pc = "first"
    /\ pc' = "loop"
    /\ hdr' = fr
    /\ frag_count' = fr.fragment_count
    /\ fragments' = [i \in 1 .. fr.fragment_count + 1 |->
           IF i = fr.fragment_index THEN Payload(fr) ELSE NULL]
    /\ sizes' = [i \in 1 .. fr.fragment_count + 1 |->
           IF i = fr.fragment_index THEN fr.fragment_size ELSE 0]
    /\ j' = 1
    /\ totalbytes' = totalbytes + fr.fragment_size
    /\ buf' = "stored"
    /\ UNCHANGED out

FirstFrame(fr) ==
    /\ pc = "first"
    /\ hdr' = fr
    /\ IF fr.fragment_index \in 1 .. fr.fragment_count
         THEN /\ pc' = "loop"
              /\ frag_count' = fr.fragment_count
              /\ fragments' = [i \in 1 .. fr.fragment_count |->
                     IF i = fr.fragment_index THEN Payload(fr) ELSE NULL]
              /\ sizes' = [i \in 1 .. fr.fragment_count |->
                     IF i = fr.fragment_index THEN fr.fragment_size ELSE 0]
              /\ j' = 1
              /\ totalbytes' = totalbytes + fr.fragment_size
              /\ buf' = "stored"
         ELSE /\ pc' = "undefined"
              /\ UNCHANGED <<frag_count, fragments, sizes, j, totalbytes, buf>>
    /\ UNCHANGED out

----------------------------------------------------------------------------
(* The loop.                                                               *)

(* The end of an iteration.  While done is 0 the next one starts with a    *)
(* new buffer and hdr no longer refers to this one; when done is 1 the     *)
(* code after the loop still reads hdr, and fate says what hdr is then.    *)
EndIteration(fr, done, fate) ==
    IF done
      THEN pc' = "exit" /\ hdr' = fr /\ buf' = fate
      ELSE pc' = "loop" /\ hdr' = BlankHeader /\ buf' = "fresh"

NothingStored == UNCHANGED <<frag_count, fragments, sizes, j, totalbytes, out>>

RecvFails ==
    /\ pc = "loop"
    /\ EndIteration(BlankHeader, FALSE, "freed")
    /\ NothingStored

TooLong(fr) == fr.fragment_size > RX_BUF_SIZE + HeaderSize

AnyLength(fr) == FALSE   \* mutant: the comparison commented out, as in fileCap1.1

WrongLength(fr) == fr.ret # fr.fragment_size + HeaderSize

BadIndex(fr) == fr.fragment_index <= 0 \/ fr.fragment_index > fr.fragment_count

RejectedNoCrc(fr) ==   \* mutant: data_crc is not compared
    TooLong(fr) \/ WrongLength(fr) \/ BadIndex(fr)

Rejected(fr) == TooLong(fr) \/ WrongLength(fr) \/ BadIndex(fr) \/ ~CrcMatches(fr)

(* The frame fails a check and is dropped.  The buffer is freed, or leaked *)
(* when it is the index that was wrong.                                    *)
Reject(fr) ==
    /\ pc = "loop"
    /\ Rejected(fr)
    /\ EndIteration(fr, FALSE,
           IF BadIndex(fr) /\ ~TooLong(fr) /\ ~WrongLength(fr) THEN "leaked" ELSE "freed")
    /\ NothingStored

(* done is set by an accepted frame that finds enough fragments counted    *)
(* before it: the last fragment never ends the loop, the frame after it    *)
(* does.                                                                   *)
DoneEarly == frag_count <= j + 1   \* mutant: counts the frame at hand
DoneLate == frag_count < j         \* mutant: waits for one fragment too many

Done == frag_count <= j

(* The index is good for the frame's own file but outside the tables: the  *)
(* access to sizes[] is outside its block.                                 *)
OutsideTables(fr) ==
    /\ pc = "loop"
    /\ ~Rejected(fr)
    /\ fr.fragment_index > frag_count
    /\ pc' = "undefined"
    /\ hdr' = fr
    /\ UNCHANGED <<frag_count, fragments, sizes, j, totalbytes, buf, out>>

(* "Same data ! discarding...": the buffer is not freed.                   *)
DuplicateFreed(fr) ==   \* mutant: the free that is commented out
    /\ pc = "loop"
    /\ ~Rejected(fr)
    /\ fr.fragment_index <= frag_count
    /\ sizes[fr.fragment_index] # 0
    /\ EndIteration(fr, Done, "freed")
    /\ NothingStored

DuplicateCounted(fr) ==   \* mutant: counted before it is recognised
    /\ pc = "loop"
    /\ ~Rejected(fr)
    /\ fr.fragment_index <= frag_count
    /\ sizes[fr.fragment_index] # 0
    /\ j' = j + 1
    /\ totalbytes' = totalbytes + fr.fragment_size
    /\ EndIteration(fr, Done, "leaked")
    /\ UNCHANGED <<frag_count, fragments, sizes, out>>

Duplicate(fr) ==
    /\ pc = "loop"
    /\ ~Rejected(fr)
    /\ fr.fragment_index <= frag_count
    /\ sizes[fr.fragment_index] # 0
    /\ EndIteration(fr, Done, "leaked")
    /\ NothingStored

(* A new fragment: its buffer is kept and counted.                         *)
StoreAgain(fr) ==   \* mutant: no duplicate check
    /\ pc = "loop"
    /\ ~Rejected(fr)
    /\ fr.fragment_index <= frag_count
    /\ fragments' = [fragments EXCEPT ![fr.fragment_index] = Payload(fr)]
    /\ sizes' = [sizes EXCEPT ![fr.fragment_index] = fr.fragment_size]
    /\ totalbytes' = totalbytes + fr.fragment_size
    /\ j' = j + 1
    /\ EndIteration(fr, Done, "stored")
    /\ UNCHANGED <<frag_count, out>>

StoreInArrivalOrder(fr) ==   \* mutant: fragments[j], not fragments[index - 1]
    /\ pc = "loop"
    /\ ~Rejected(fr)
    /\ fr.fragment_index <= frag_count
    /\ sizes[fr.fragment_index] = 0
    /\ fragments' = [fragments EXCEPT ![j + 1] = Payload(fr)]
    /\ sizes' = [sizes EXCEPT ![fr.fragment_index] = fr.fragment_size]
    /\ totalbytes' = totalbytes + fr.fragment_size
    /\ j' = j + 1
    /\ EndIteration(fr, Done, "stored")
    /\ UNCHANGED <<frag_count, out>>

StoreFragment(fr) ==
    /\ pc = "loop"
    /\ ~Rejected(fr)
    /\ fr.fragment_index <= frag_count
    /\ sizes[fr.fragment_index] = 0
    /\ fragments' = [fragments EXCEPT ![fr.fragment_index] = Payload(fr)]
    /\ sizes' = [sizes EXCEPT ![fr.fragment_index] = fr.fragment_size]
    /\ totalbytes' = totalbytes + fr.fragment_size
    /\ j' = j + 1
    /\ EndIteration(fr, Done, "stored")
    /\ UNCHANGED <<frag_count, out>>

----------------------------------------------------------------------------
(* After the loop.                                                         *)

SizeMismatch ==
    /\ pc = "exit"
    /\ hdr.file_size # totalbytes
    /\ pc' = "size_error"
    /\ UNCHANGED <<frag_count, fragments, sizes, j, totalbytes, hdr, buf, out>>

(* write_to_file() writes the fragments in index order to the file named   *)
(* by the last header, then frees every buffer it kept; the message after  *)
(* it still reads hdr->filename.  An index never received is a NULL        *)
(* pointer less the header, handed to free().                              *)
WriteFile ==
    /\ pc = "exit"
    /\ hdr.file_size = totalbytes
    /\ IF \E i \in 1 .. frag_count : fragments[i] = NULL
         THEN pc' = "undefined" /\ UNCHANGED <<buf, out>>
         ELSE /\ pc' = "completed"
              /\ out' = [name |-> hdr.filename, content |-> fragments]
              /\ buf' = IF buf = "stored" THEN "freed" ELSE buf
    /\ UNCHANGED <<frag_count, fragments, sizes, j, totalbytes, hdr>>

(* One recv that returned the frame fr.                                    *)
Recv(fr) ==
    \/ FirstFrame(fr)
    \/ Reject(fr)
    \/ OutsideTables(fr)
    \/ Duplicate(fr)
    \/ StoreFragment(fr)

Finish == SizeMismatch \/ WriteFile

Next ==
    \/ FirstRecvFails
    \/ RecvFails
    \/ \E fr \in Frames : Recv(fr)
    \/ Finish

Spec == Init /\ [][Next]_vars

----------------------------------------------------------------------------
(* The indices received, by the mark the program itself relies on.         *)
Have == {i \in 1 .. frag_count : sizes[i] # 0}

TypeOK ==
    /\ pc \in {"first", "loop", "exit", "completed", "failed", "size_error", "undefined"}
    /\ frag_count \in Nat
    /\ fragments \in [1 .. frag_count -> Payloads]
    /\ sizes \in [1 .. frag_count -> Nat]
    /\ j \in Nat
    /\ totalbytes \in Nat
    /\ hdr \in Frames
    /\ buf \in {"fresh", "stored", "leaked", "freed"}
    /\ out = NoOutput \/ out \in [name : Files \cup {NoFile}, content : {fragments}]

(* j counts each index once, and totalbytes adds up each size once.  The   *)
(* loop ends on j alone, so this is what makes "enough fragments" mean     *)
(* "every fragment", and the check of the size one of the whole file.      *)
CountExact ==
    /\ j = Cardinality(Have)
    /\ totalbytes = TotalOf(sizes, frag_count)

(* hdr is read after the loop for file_size and filename, and once more    *)
(* after write_to_file has freed every buffer it wrote.  The buffer it     *)
(* points into must be neither freed by the loop (the free commented out   *)
(* as SEGFAULT) nor one of those written.                                  *)
HeaderLive == pc \in {"exit", "completed"} => buf # "freed"

(* The tables are left only through a fragment_index the tables have no    *)
(* place for; in particular write_to_file never meets an index that was    *)
(* not received.                                                           *)
OnlyBadIndexUndefined ==
    pc = "undefined" => hdr.fragment_index \notin 1 .. frag_count

(* All that is kept passed the length and CRC checks, but for the first    *)
(* frame, which got neither: at most one fragment can be damaged.          *)
OneUnverified ==
    \A i, k \in 1 .. frag_count :
        /\ fragments[i].data # "intact"
        /\ fragments[k].data # "intact"
        => i = k

(* A fragment once received is never replaced: retransmissions of it,      *)
(* intact or not, change nothing until the file is written.                *)
FirstCopyKept ==
    [][\A i \in Have : fragments'[i] = fragments[i] /\ sizes'[i] = sizes[i]]_vars

(* Why they hold.  The marks in sizes[] and the pointers in fragments[]    *)
(* agree, and the loop is left only by a frame that found every fragment   *)
(* received, hence by a duplicate, whose buffer is leaked.                 *)
MarksAgree == \A i \in 1 .. frag_count : sizes[i] # 0 <=> fragments[i] # NULL

LeftByDuplicate ==
    pc \in {"exit", "completed"} =>
        /\ Have = 1 .. frag_count
        /\ buf = "leaked"

IInv ==
    /\ TypeOK
    /\ CountExact
    /\ MarksAgree
    /\ LeftByDuplicate
    /\ OnlyBadIndexUndefined
    /\ pc = "first" => frag_count = 0
    /\ pc # "completed" => out = NoOutput
    /\ pc = "completed" => out.content = fragments

----------------------------------------------------------------------------
(* The capture seen as a Reassembly of one channel.  A size error ends the *)
(* program with nothing delivered, so the verdict just stays open.         *)
Verdict ==
    IF pc = "completed" THEN "delivered"
    ELSE IF pc \in {"failed", "undefined"} THEN "abandoned"
    ELSE "open"

Abstract == INSTANCE Reassembly WITH
    Channels <- {"file"},
    Counts <- {fragment_count[f] : f \in Files},
    slots <- [c \in {"file"} |-> Qualities(fragments)],
    delivered <- [c \in {"file"} |-> Qualities(out.content)],
    verdict <- Verdict

EqualCounts == \A f, g \in Files : fragment_count[f] = fragment_count[g]

(* capture_file() implements Reassembly, whatever is lost, damaged,        *)
(* repeated or reordered, as long as the files sent on its ether type are  *)
(* cut into equally many fragments (EqualCounts; one sender, in            *)
(* particular): it gives up only on the first frame, and delivers only a   *)
(* full set of fragments.                                                  *)
ImplementsReassembly == Abstract!Spec
=============================================================================
