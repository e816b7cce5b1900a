-------------------------------- MODULE Crc --------------------------------
(***************************************************************************)
(* crc32() of the capture programs: a table of 256 words and one step per  *)
(* byte.  FileCapture and MultiCapture take a frame's data to be intact or *)
(* garbled by whether they match data_crc; here is what a match is worth.  *)
(*                                                                         *)
(* A word is the set of its bits that are 1: exclusive or is symmetric     *)
(* difference.  The sum of the data as sent and the sum of the data as     *)
(* they arrived are taken side by side, one byte of each per step.         *)
(***************************************************************************)
EXTENDS Integers, Sequences, FiniteSets

CONSTANT Messages   \* the data that may be sent, or arrive: sequences of bytes

Bits == 0 .. 31
Byte == SUBSET (0 .. 7)
Word == SUBSET Bits

ASSUME MessagesAssumption == Messages \subseteq Seq(Byte)

VARIABLES
    data,      \* the data as the sender had them
    arrived,   \* the data as they arrived
    summed,    \* the bytes summed so far
    data_crc,  \* their sum at the sender
    crc_chk    \* their sum at the receiver

crcVars == <<data, arrived, summed, data_crc, crc_chk>>

Xor(a, b) == (a \ b) \cup (b \ a)
Shr(a, n) == {k \in Bits : k + n \in a}

Polynomial == {31, 30, 29, 27, 26, 24, 23, 21, 20, 19, 15, 9, 8, 5}  \* 0xEDB88320
TopByte == {24, 25, 26, 27, 28, 29, 30, 31}                          \* 0xFF000000

(* One iteration of the loop of crc32_for_byte(), then two, four, eight.   *)
Shifted(r) == Xor(IF 0 \in r THEN {} ELSE Polynomial, Shr(r, 1))
Twice(r) == Shifted(Shifted(r))
FourTimes(r) == Twice(Twice(r))
EightTimes(r) == FourTimes(FourTimes(r))

crc32_for_byte(r) == Xor(EightTimes(r), TopByte)

(* Mutant: the table is filled for i < 0x80 only.                          *)
half_table == [i \in Byte |-> IF 7 \in i THEN {} ELSE crc32_for_byte(i)]

table == [i \in Byte |-> crc32_for_byte(i)]

(* table[(uint8_t)*crc ^ byte] ^ *crc >> 8                                 *)
Update(crc, byte) == Xor(table[Xor(crc \cap (0 .. 7), byte)], Shr(crc, 8))

CrcInit ==
    /\ data \in Messages
    /\ arrived \in Messages
    /\ Len(arrived) = Len(data)
    /\ summed = 0
    /\ data_crc = {}
    /\ crc_chk = {}

CrcNext ==
    /\ summed < Len(data)
    /\ summed' = summed + 1
    /\ data_crc' = Update(data_crc, data[summed + 1])
    /\ crc_chk' = Update(crc_chk, arrived[summed + 1])
    /\ UNCHANGED <<data, arrived>>

CrcSpec == CrcInit /\ [][CrcNext]_crcVars

----------------------------------------------------------------------------
(* The damaged bits of what has been summed, each by its place in the      *)
(* stream: a byte is sent from its bit 0 on.                               *)
Damaged == UNION {{8 * (k - 1) + b : b \in Xor(data[k], arrived[k])} : k \in 1 .. summed}

(* fileCap1.1/fileCapture.c:199.  The sums agree when no bit is damaged,   *)
(* and differ whenever the damage lies within 32 bits in a row, any of     *)
(* them, wherever and however long the data: such a frame never passes the *)
(* check, an intact one always does.                                       *)
BurstSeen ==
    /\ Damaged = {} => crc_chk = data_crc
    /\ \A p \in Damaged : Damaged \subseteq p .. p + 31 => crc_chk # data_crc

(* Why: the sums stay words of 32 bits, which each step permutes.          *)
CrcTypeOK ==
    /\ data \in Seq(Byte)
    /\ arrived \in Seq(Byte)
    /\ Len(arrived) = Len(data)
    /\ summed \in 0 .. Len(data)
    /\ data_crc \in Word
    /\ crc_chk \in Word
=============================================================================
