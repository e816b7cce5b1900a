--------------------------- MODULE CaptureFormat ---------------------------
(***************************************************************************)
(* The frames exchanged by tx_file and the capture programs: the packed    *)
(* header capture_format_t of socketExp/fileCapture.c (fileCap1.1 declares *)
(* the same one) followed by at most RX_BUF_SIZE bytes of file data.       *)
(*                                                                         *)
(* Bytes are abstracted to what the receivers can tell apart: which file   *)
(* and which part of it a frame carries, whether its data still match its  *)
(* data_crc, and how many bytes recv returned for it.                      *)
(***************************************************************************)
EXTENDS Integers

CONSTANTS
    Files,           \* the files being sent, one tx_file process each
    NoFile,          \* the name read from a frame that tx_file did not send
    file_size,       \* [Files -> bytes of the file]
    fragment_count,  \* [Files -> number of fragments it is cut into]
    fragment_size    \* [Files -> [fragment index -> bytes in that fragment]]

HeaderSize == 82      \* sizeof(capture_format_t)
RX_BUF_SIZE == 1500

ASSUME NoFileAssumption == NoFile \notin Files

ASSUME GeometryAssumption ==
    /\ file_size \in [Files -> Nat]
    /\ fragment_count \in [Files -> Nat \ {0}]
    /\ \A f \in Files : fragment_size[f] \in [1 .. fragment_count[f] -> Nat]

(* The bytes in the first n entries of a table of sizes.                   *)
TotalOf(s, n) ==
    LET upto[k \in 0 .. n] == IF k = 0 THEN 0 ELSE upto[k - 1] + s[k]
    IN  upto[n]

(* tx_file cuts up the whole file and nothing else.                        *)
ASSUME CutAssumption ==
    \A f \in Files : file_size[f] = TotalOf(fragment_size[f], fragment_count[f])

(* The fragments tx_file can send: it exits on reading an empty one        *)
(* (TxFile), which a receiver could not tell from one it does not have.    *)
SentIndices(f) == {i \in 1 .. fragment_count[f] : fragment_size[f][i] > 0}

----------------------------------------------------------------------------

(* recv returns the frame cut to the RX_BUF_SIZE + header bytes it was     *)
(* given room for.                                                         *)
Received(size) == HeaderSize + (IF size > RX_BUF_SIZE THEN RX_BUF_SIZE ELSE size)

(* A frame of tx_file.  data is "intact" when the data bytes match the     *)
(* data_crc of the header and "garbled" when they do not.                  *)
SenderFrame(f, i, data) ==
    [ filename |-> f, file_size |-> file_size[f],
      fragment_count |-> fragment_count[f], fragment_index |-> i,
      fragment_size |-> fragment_size[f][i],
      data |-> data, ret |-> Received(fragment_size[f][i]) ]

(* What a receive buffer holds after a short frame of another program that *)
(* uses the same ether type (tx_raw does): the header fields past the text *)
(* are the zeros calloc left there, and the CRC of no bytes is 0.          *)
StrayFrame ==
    [ filename |-> NoFile, file_size |-> 0,
      fragment_count |-> 0, fragment_index |-> 0, fragment_size |-> 0,
      data |-> "intact", ret |-> 24 ]

SenderFrames ==
    UNION { { SenderFrame(f, i, d) : i \in SentIndices(f),
                                     d \in {"intact", "garbled"} } : f \in Files }

Frames == SenderFrames \cup {StrayFrame}

(* crc32(hdr->data) = hdr->data_crc, for a frame that fits the buffer.     *)
CrcMatches(fr) == fr.data = "intact"

(* What the data pointer of a stored frame refers to.  A fragment larger   *)
(* than the buffer was cut by recv: writing it out reads past the buffer.  *)
Payload(fr) ==
    [ filename |-> fr.filename, index |-> fr.fragment_index,
      data |-> IF fr.fragment_size > RX_BUF_SIZE THEN "cut" ELSE fr.data ]

Payloads ==
    [ filename : Files \cup {NoFile}, index : Nat,
      data : {"intact", "garbled", "cut"} ]

(* The payload a correct transfer of fragment i of f leaves behind.        *)
Original(f, i) == [filename |-> f, index |-> i, data |-> "intact"]

(* A slot of a fragments table that holds no pointer.                      *)
NULL == [filename |-> NoFile, index |-> 0, data |-> "intact"]

(* How well a slot fares: good when it holds what tx_file sent for that    *)
(* index of some file.                                                     *)
Quality(p, i) ==
    IF p = NULL THEN "missing"
    ELSE IF \E f \in Files : p = Original(f, i) THEN "good"
    ELSE "bad"

Qualities(held) == [i \in DOMAIN held |-> Quality(held[i], i)]
=============================================================================
