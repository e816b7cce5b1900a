---------------------------- MODULE MultiCapture ----------------------------
(***************************************************************************)
(* socketExp/fileCap1.1/fileCapture.c: capture_file() reads one file per   *)
(* ether type, each from a blocking raw socket of its own, and writes them *)
(* one after the other.  Sockets are visited in a fixed order; the program *)
(* blocks in recv on socket k until that one has a frame.                  *)
(*                                                                         *)
(* One recv, with all the code up to the next one, is one action.          *)
(***************************************************************************)
EXTENDS CaptureFormat, FiniteSets

CONSTANT sfd_size   \* ether types on the command line

(* many_capture has room for ten.                                          *)
ASSUME SocketsAssumption == sfd_size \in 1 .. 10

VARIABLES
    pc,          \* where capture_file stands
    k,           \* the socket it is reading
    old_k,       \* the socket the last frame came from
    frag_count,  \* frag_count[c]: fragments expected on socket c
    fragments,   \* fragments[c][i]: the payload kept for index i, or NULL
    sizes,       \* sizes[c][i]: its size; 0 marks an index not yet received
    counter,     \* counter[c]: fragments counted on socket c
    out          \* the file written, as one table per socket

tables == <<frag_count, fragments, sizes, counter>>
vars == <<pc, k, old_k, tables, out>>

Channels == 0 .. sfd_size - 1

NoTables == [c \in Channels |-> <<>>]

Init ==
    /\ pc = "scan"
    /\ k = 0
    /\ old_k = sfd_size
    /\ frag_count = [c \in Channels |-> 0]
    /\ fragments = NoTables
    /\ sizes = NoTables
    /\ counter = [c \in Channels |-> 0]
    /\ out = NoTables

----------------------------------------------------------------------------
(* The scan for the first frame.                                           *)

(* recv failed on socket k: the next is tried; after the last, k is set to *)
(* 0 and then incremented.  With one ether type that is a socket that was  *)
(* never opened.                                                           *)
ScanFails ==
    /\ pc = "scan"
    /\ k' = IF k + 1 = sfd_size THEN 1 ELSE k + 1
    /\ pc' = IF k' \in Channels THEN "scan" ELSE "undefined"
    /\ UNCHANGED <<old_k, tables, out>>

(* The socket the loop reads after one from the socket old: the first that *)
(* is not old, sfd_size if there is none.  The program then goes round its *)
(* loop for ever without calling recv.                                     *)
RoundRobin(old) ==   \* mutant: the sockets in turn
    (old + 1) % sfd_size

StartOver(old) == 0   \* mutant: the last socket is not skipped

FirstOther(old) ==
    IF old # 0 THEN 0
    ELSE IF sfd_size > 1 THEN 1
    ELSE sfd_size

(* The first frame lays out the tables of every socket, and is stored      *)
(* without a check.  An index outside the tables is a write outside them.  *)
FirstFrame(fr) ==
    /\ pc = "scan"
    /\ old_k' = k
    /\ k' = FirstOther(k)
    /\ IF fr.fragment_index \in 1 .. fr.fragment_count
         THEN /\ pc' = "loop"
              /\ frag_count' = [c \in Channels |-> fr.fragment_count]
              /\ fragments' = [c \in Channels |-> [i \in 1 .. fr.fragment_count |->
                     IF c = k /\ i = fr.fragment_index THEN Payload(fr) ELSE NULL]]
              /\ sizes' = [c \in Channels |-> [i \in 1 .. fr.fragment_count |->
                     IF c = k /\ i = fr.fragment_index THEN fr.fragment_size ELSE 0]]
              /\ counter' = [counter EXCEPT ![k] = @ + 1]
         ELSE pc' = "undefined" /\ UNCHANGED tables
    /\ UNCHANGED out

----------------------------------------------------------------------------
(* The loop.                                                               *)

(* recv failed on socket k: the next one but old_k is tried, from the      *)
(* first again after the last.                                             *)
RecvFails ==
    /\ pc = "loop"
    /\ k \in Channels
    /\ LET later == {c \in Channels : c > k /\ c # old_k}
       IN  \/ later = {} /\ k' = FirstOther(old_k)
           \/ k' \in later /\ \A c \in later : k' <= c
    /\ UNCHANGED <<pc, old_k, tables, out>>

BadIndex(fr) == fr.fragment_index <= 0 \/ fr.fragment_index > fr.fragment_count

(* The comparison of recv's result with the fragment size is commented out *)
(* in this version.                                                        *)
Rejected(fr) ==
    \/ fr.fragment_size > RX_BUF_SIZE
    \/ BadIndex(fr)
    \/ ~CrcMatches(fr)

(* The frame came from socket k; the next is read from another one.        *)
Visited ==
    /\ old_k' = k
    /\ k' = FirstOther(k)

Reject(fr) ==
    /\ pc = "loop"
    /\ Rejected(fr)
    /\ Visited
    /\ UNCHANGED <<pc, tables, out>>

(* done: every socket had counted its fragments before this frame.         *)
DoneAny ==   \* mutant: the flag left by the last socket looked at
    \E c \in Channels : counter[c] >= frag_count[c]

Done == \A c \in Channels : counter[c] >= frag_count[c]

(* sizes[] and fragments[] are reallocated to as many BYTES as the frame   *)
(* has fragments: 4 to an int, 8 to a pointer.  What there is room for is  *)
(* kept, and what is new is not initialised.                               *)
Unset == -1
WidthOfInt == 4
WidthOfPointer == 8

ReallocTwice(table, bytes, width, new) ==   \* mutant: bytes times width elements
    [i \in 1 .. bytes * width |-> IF i \in DOMAIN table THEN table[i] ELSE new]

Realloc(table, bytes, width, new) ==
    [i \in 1 .. bytes \div width |-> IF i \in DOMAIN table THEN table[i] ELSE new]

Resized(fr) == frag_count[k] # fr.fragment_count

SizesFor(fr) ==
    IF Resized(fr) THEN Realloc(sizes[k], fr.fragment_count, WidthOfInt, Unset)
    ELSE sizes[k]

FragmentsFor(fr) ==
    IF Resized(fr) THEN Realloc(fragments[k], fr.fragment_count, WidthOfPointer, NULL)
    ELSE fragments[k]

(* sizes[hdr->fragment_index - 1], Unset when it is not there to be read.  *)
Mark(fr) ==
    IF fr.fragment_index \in DOMAIN SizesFor(fr)
      THEN SizesFor(fr)[fr.fragment_index]
      ELSE Unset

(* missing_index() reads a sizes table up to its first 0, or its end.      *)
ReadsOutside(table, n) ==
    \/ \E i \in DOMAIN table :
           table[i] = Unset /\ \A m \in 1 .. i - 1 : table[m] # 0
    \/ DOMAIN table # 1 .. n /\ \A m \in DOMAIN table : table[m] # 0

(* "Same data ! discarding...", with a report on every socket.             *)
DuplicateCounted(fr) ==   \* mutant: counted before it is recognised
    /\ pc = "loop"
    /\ ~Rejected(fr)
    /\ Mark(fr) > 0
    /\ counter' = [counter EXCEPT ![k] = @ + 1]
    /\ pc' = IF Done THEN "exit" ELSE "loop"
    /\ Visited
    /\ UNCHANGED <<frag_count, sizes, fragments, out>>

Duplicate(fr) ==
    /\ pc = "loop"
    /\ ~Rejected(fr)
    /\ Mark(fr) > 0
    /\ frag_count' = [frag_count EXCEPT ![k] = fr.fragment_count]
    /\ sizes' = [sizes EXCEPT ![k] = SizesFor(fr)]
    /\ fragments' = [fragments EXCEPT ![k] = FragmentsFor(fr)]
    /\ pc' = IF \E c \in Channels : ReadsOutside(sizes'[c], frag_count'[c]) THEN "undefined"
             ELSE IF Done THEN "exit" ELSE "loop"
    /\ Visited
    /\ UNCHANGED <<counter, out>>

(* A new fragment.                                                         *)
StoreFragment(fr) ==
    /\ pc = "loop"
    /\ ~Rejected(fr)
    /\ Mark(fr) = 0
    /\ fr.fragment_index \in DOMAIN FragmentsFor(fr)
    /\ frag_count' = [frag_count EXCEPT ![k] = fr.fragment_count]
    /\ sizes' = [sizes EXCEPT ![k] =
           [SizesFor(fr) EXCEPT ![fr.fragment_index] = fr.fragment_size]]
    /\ fragments' = [fragments EXCEPT ![k] =
           [FragmentsFor(fr) EXCEPT ![fr.fragment_index] = Payload(fr)]]
    /\ counter' = [counter EXCEPT ![k] = @ + 1]
    /\ pc' = IF Done THEN "exit" ELSE "loop"
    /\ Visited
    /\ UNCHANGED out

(* The tables have no room for the index, or none that was initialised.    *)
OutsideTables(fr) ==
    /\ pc = "loop"
    /\ ~Rejected(fr)
    /\ \/ Mark(fr) = Unset
       \/ Mark(fr) = 0 /\ fr.fragment_index \notin DOMAIN FragmentsFor(fr)
    /\ pc' = "undefined"
    /\ frag_count' = [frag_count EXCEPT ![k] = fr.fragment_count]
    /\ sizes' = [sizes EXCEPT ![k] = SizesFor(fr)]
    /\ fragments' = [fragments EXCEPT ![k] = FragmentsFor(fr)]
    /\ Visited
    /\ UNCHANGED <<counter, out>>

----------------------------------------------------------------------------
(* After the loop.                                                         *)

(* write_to_file() writes the tables of one socket after the other.  An    *)
(* index never received is a NULL pointer less the header, handed to       *)
(* free(); one outside the table is not even that.                         *)
WriteFileReversed ==   \* mutant: the sockets in the wrong order
    /\ pc = "exit"
    /\ pc' = "completed"
    /\ out' = [c \in Channels |-> fragments[sfd_size - 1 - c]]
    /\ UNCHANGED <<k, old_k, tables>>

WriteFile ==
    /\ pc = "exit"
    /\ IF \A c \in Channels : \A i \in 1 .. frag_count[c] :
              i \in DOMAIN fragments[c] /\ fragments[c][i] # NULL
         THEN pc' = "completed" /\ out' = fragments
         ELSE pc' = "undefined" /\ UNCHANGED out
    /\ UNCHANGED <<k, old_k, tables>>

(* One recv on socket k that returned the frame fr.                        *)
Recv(fr) ==
    \/ FirstFrame(fr)
    \/ k \in Channels /\ (Reject(fr) \/ Duplicate(fr) \/ StoreFragment(fr) \/ OutsideTables(fr))

Next ==
    \/ ScanFails
    \/ RecvFails
    \/ \E fr \in Frames : Recv(fr)
    \/ WriteFile

Spec == Init /\ [][Next]_vars

----------------------------------------------------------------------------
(* The indices received on socket c.                                       *)
Have(c) == {i \in DOMAIN sizes[c] : sizes[c][i] # 0}

TypeOK ==
    /\ pc \in {"scan", "loop", "exit", "completed", "undefined"}
    /\ k \in 0 .. sfd_size
    /\ old_k \in 0 .. sfd_size
    /\ frag_count \in [Channels -> Nat]
    /\ DOMAIN fragments = Channels
    /\ DOMAIN sizes = Channels
    /\ \A c \in Channels : \E n, m \in 0 .. frag_count[c] :
          /\ fragments[c] \in [1 .. n -> Payloads]
          /\ sizes[c] \in [1 .. m -> Int]
    /\ counter \in [Channels -> Nat]
    /\ out \in {NoTables, fragments}

(* Each counter counts an index once.  The loop ends on the counters       *)
(* alone; they are right as long as no table is reallocated.               *)
CountersExact == \A c \in Channels : counter[c] = Cardinality(Have(c))

(* The program leaves its memory only through the first frame, whose index *)
(* is not checked, or after a realloc, which counts bytes for elements.    *)
OnlyResizeUndefined ==
    pc = "undefined" =>
        \/ \A c \in Channels : frag_count[c] = 0
        \/ \E c \in Channels : DOMAIN sizes[c] # 1 .. frag_count[c]

(* While recv does not fail, only the first two sockets are ever served:   *)
(* the frames of a third ether type stay in its queue, and the download    *)
(* does not end.                                                           *)
OnlyTwoServed == \A c \in Channels : c > 1 => k # c /\ counter[c] = 0

----------------------------------------------------------------------------
(* The capture seen as a Reassembly of one channel per ether type.         *)
Verdict ==
    IF pc = "completed" THEN "delivered"
    ELSE IF pc = "undefined" THEN "abandoned"
    ELSE "open"

Abstract == INSTANCE Reassembly WITH
    Counts <- {fragment_count[f] : f \in Files},
    slots <- [c \in Channels |-> Qualities(fragments[c])],
    delivered <- [c \in Channels |-> Qualities(out[c])],
    verdict <- Verdict

EqualCounts == \A f, g \in Files : fragment_count[f] = fragment_count[g]

(* With equally many fragments in every file, capture_file() implements    *)
(* Reassembly: it goes wrong only on the first frame, never replaces or    *)
(* misplaces a fragment, and delivers only when every channel is full.     *)
ImplementsReassembly == Abstract!Spec
=============================================================================
