--------------------------- MODULE Programs_proofs ---------------------------
(***************************************************************************)
(* The programs and functions that only compute, for data, boards and      *)
(* files of any size.                                                      *)
(*                                                                         *)
(* crc32(): every step is a permutation of the 32-bit words, and the step  *)
(* of one byte differs from that of another on every word.  Hence damage   *)
(* within 32 bits in a row, as many as a word has, changes the sum.        *)
(*                                                                         *)
(* slice.cpp: each candidate of actualize() is one and the same number,    *)
(* that of unit squares less one, and the entries it is made from have     *)
(* been filled before it.                                                  *)
(*                                                                         *)
(* more: the row that is being printed is as wide as the index into the    *)
(* line says, and what has come out is what the options let through of the *)
(* lines read so far.                                                      *)
(***************************************************************************)
EXTENDS Crc, Slice, More, FiniteSetTheorems, SequenceTheorems, TLAPS

----------------------------------------------------------------------------
(* The checksum.                                                           *)

(* Shifting is undone: the new top bit tells the bit that was dropped,     *)
(* since the polynomial has bit 31 and Shr(r, 1) never does.               *)
LEMMA ShiftedIsWord ==
    ASSUME NEW r \in Word
    PROVE  Shifted(r) \in Word
BY DEF Shifted, Word, Bits, Xor, Shr, Polynomial

LEMMA ShiftedTopBit ==
    ASSUME NEW r \in Word
    PROVE  31 \in Shifted(r) <=> 0 \notin r
BY DEF Shifted, Word, Bits, Xor, Shr, Polynomial

LEMMA ShrInjective ==
    ASSUME NEW a \in Word, NEW b \in Word, 0 \in a <=> 0 \in b, Shr(a, 1) = Shr(b, 1)
    PROVE  a = b
<1>1. ASSUME NEW k \in Bits PROVE k \in a <=> k \in b
  <2>1. CASE k = 0
    BY <2>1
  <2>2. CASE k # 0
    <3>1. k - 1 \in Bits /\ (k - 1) + 1 = k
      BY <2>2 DEF Bits
    <3>2. k - 1 \in Shr(a, 1) <=> k - 1 \in Shr(b, 1)
      OBVIOUS
    <3>. QED BY <3>1, <3>2 DEF Shr
  <2>. QED BY <2>1, <2>2
<1>. QED BY <1>1 DEF Word

LEMMA XorCancels ==
    ASSUME NEW a, NEW b, NEW c, Xor(a, b) = Xor(a, c)
    PROVE  b = c
BY DEF Xor

LEMMA ShiftedInjective ==
    ASSUME NEW a \in Word, NEW b \in Word, Shifted(a) = Shifted(b)
    PROVE  a = b
<1>1. 0 \in a <=> 0 \in b
  BY ShiftedTopBit
<1>2. Shr(a, 1) = Shr(b, 1)
  BY <1>1, XorCancels DEF Shifted
<1>. QED BY <1>1, <1>2, ShrInjective

LEMMA EightTimesInjective ==
    ASSUME NEW a \in Word, NEW b \in Word, EightTimes(a) = EightTimes(b)
    PROVE  a = b
<1>1. ASSUME NEW x \in Word, NEW y \in Word PROVE Twice(x) \in Word /\ (Twice(x) = Twice(y) => x = y)
  BY ShiftedIsWord, ShiftedInjective DEF Twice
<1>2. ASSUME NEW x \in Word, NEW y \in Word PROVE FourTimes(x) \in Word /\ (FourTimes(x) = FourTimes(y) => x = y)
  BY <1>1 DEF FourTimes
<1>. QED BY <1>2 DEF EightTimes

LEMMA EightTimesIsWord ==
    ASSUME NEW r \in Word
    PROVE  EightTimes(r) \in Word
<1>1. ASSUME NEW x \in Word PROVE Twice(x) \in Word
  BY ShiftedIsWord DEF Twice
<1>. QED BY <1>1 DEF FourTimes, EightTimes

----------------------------------------------------------------------------
(* What is shifted out with low bits of 0 passes through unchanged.        *)
LEMMA ShiftedSplits ==
    ASSUME NEW a \in Word, NEW b \in Word, 0 \notin b
    PROVE  Shifted(Xor(a, b)) = Xor(Shifted(a), Shr(b, 1))
<1>1. 0 \in Xor(a, b) <=> 0 \in a
  BY DEF Xor
<1>2. Shr(Xor(a, b), 1) = Xor(Shr(a, 1), Shr(b, 1))
  BY DEF Xor, Shr
<1>. QED BY <1>1, <1>2 DEF Shifted, Xor

LEMMA XorIsWord ==
    ASSUME NEW a \in Word, NEW b \in Word
    PROVE  Xor(a, b) \in Word
BY DEF Xor, Word

LEMMA ShrIsWord ==
    ASSUME NEW a \in Word, NEW n \in Nat
    PROVE  Shr(a, n) \in Word
BY DEF Shr, Word

LEMMA ShrAdds ==
    ASSUME NEW a \in Word, NEW n \in Nat, NEW d \in Nat
    PROVE  Shr(Shr(a, n), d) = Shr(a, n + d)
<1>1. ASSUME NEW k \in Bits PROVE k \in Shr(Shr(a, n), d) <=> k \in Shr(a, n + d)
  <2>1. (k + d) + n = k + (n + d)
    BY DEF Bits
  <2>2. k + (n + d) \in a => k + d \in Bits
    BY DEF Bits, Word
  <2>. QED BY <2>1, <2>2 DEF Shr
<1>. QED BY <1>1 DEF Shr

LEMMA EightTimesSplits ==
    ASSUME NEW a \in Word, NEW b \in Word, b \cap (0 .. 7) = {}
    PROVE  EightTimes(Xor(a, b)) = Xor(EightTimes(a), Shr(b, 8))
<1>1. ASSUME NEW x \in Word, NEW y \in Word, y \cap (0 .. 1) = {}
      PROVE  Twice(Xor(x, y)) = Xor(Twice(x), Shr(y, 2))
  <2>1. Shr(y, 1) \in Word /\ 0 \notin Shr(y, 1) /\ 0 \notin y
    BY <1>1, ShrIsWord DEF Shr
  <2>. QED BY <2>1, ShiftedSplits, ShiftedIsWord, ShrAdds DEF Twice
<1>2. ASSUME NEW x \in Word PROVE Twice(x) \in Word /\ FourTimes(x) \in Word
  BY ShiftedIsWord DEF Twice, FourTimes
<1>3. ASSUME NEW x \in Word, NEW y \in Word, y \cap (0 .. 3) = {}
      PROVE  FourTimes(Xor(x, y)) = Xor(FourTimes(x), Shr(y, 4))
  <2>1. Shr(y, 2) \in Word /\ Shr(y, 2) \cap (0 .. 1) = {} /\ y \cap (0 .. 1) = {}
    BY <1>3, ShrIsWord DEF Shr
  <2>. QED BY <2>1, <1>1, <1>2, ShrAdds DEF FourTimes
<1>4. Shr(b, 4) \in Word /\ Shr(b, 4) \cap (0 .. 3) = {} /\ b \cap (0 .. 3) = {}
  BY ShrIsWord DEF Shr
<1>. QED BY <1>4, <1>3, <1>2, ShrAdds DEF EightTimes

(* The table step is the eight shifts of the word with the byte added in.  *)
LEMMA UpdateIsEightShifts ==
    ASSUME NEW crc \in Word, NEW byte \in Byte
    PROVE  /\ Update(crc, byte) = Xor(EightTimes(Xor(crc, byte)), TopByte)
           /\ Update(crc, byte) \in Word
<1>. DEFINE low == Xor(crc \cap (0 .. 7), byte)
            high == crc \ (0 .. 7)
<1>1. low \in Byte /\ low \in Word /\ high \in Word /\ high \cap (0 .. 7) = {}
  BY DEF Byte, Word, Bits, Xor
<1>2. Xor(crc, byte) = Xor(low, high)
  BY DEF Byte, Xor
<1>3. Shr(high, 8) = Shr(crc, 8)
  BY DEF Shr, Bits
<1>4. EightTimes(Xor(crc, byte)) = Xor(EightTimes(low), Shr(crc, 8))
  BY <1>1, <1>2, <1>3, EightTimesSplits
<1>5. Update(crc, byte) = Xor(Xor(EightTimes(low), TopByte), Shr(crc, 8))
  BY <1>1 DEF Update, table, crc32_for_byte
<1>6. Update(crc, byte) = Xor(EightTimes(Xor(crc, byte)), TopByte)
  BY <1>4, <1>5 DEF Xor
<1>7. TopByte \in Word
  BY DEF TopByte, Word, Bits
<1>8. EightTimes(Xor(crc, byte)) \in Word
  BY <1>1, <1>2, XorIsWord, EightTimesIsWord
<1>. QED BY <1>6, <1>7, <1>8, XorIsWord

(* Sums that differ in low bits only come from words that differ in the    *)
(* bits eight places up.                                                   *)
LEMMA DifferenceShifts ==
    ASSUME NEW c \in Word, NEW d \in Word, NEW x \in Byte, NEW y \in Byte,
           NEW B \in Int, B <= 23, Xor(Update(c, x), Update(d, y)) \subseteq 0 .. B
    PROVE  Xor(Xor(c, x), Xor(d, y)) \subseteq 8 .. B + 8
<1>. DEFINE u == Xor(c, x)
            v == Xor(d, y)
            t == Xor(Update(c, x), Update(d, y))
            b == {k \in Bits : k - 8 \in t}
<1>1. u \in Word /\ v \in Word
  BY XorIsWord DEF Byte, Word, Bits
<1>2. b \in Word /\ b \cap (0 .. 7) = {} /\ b \subseteq 8 .. B + 8
  BY DEF Word, Bits
<1>3. Shr(b, 8) = t
  <2>1. \A k \in t : k \in Bits /\ k + 8 \in Bits /\ (k + 8) - 8 = k
    BY DEF Bits
  <2>2. \A k \in Bits : (k + 8) - 8 = k
    BY DEF Bits
  <2>. QED BY <2>1, <2>2 DEF Shr
<1>4. t = Xor(EightTimes(u), EightTimes(v))
  <2>1. /\ Update(c, x) = Xor(EightTimes(u), TopByte)
        /\ Update(d, y) = Xor(EightTimes(v), TopByte)
    BY UpdateIsEightShifts
  <2>. QED BY <2>1 DEF Xor
<1>5. EightTimes(Xor(v, b)) = Xor(EightTimes(v), t)
  BY <1>1, <1>2, <1>3, EightTimesSplits
<1>6. EightTimes(Xor(v, b)) = EightTimes(u)
  BY <1>4, <1>5 DEF Xor
<1>7. Xor(v, b) = u
  BY <1>1, <1>2, <1>6, XorIsWord, EightTimesInjective
<1>8. Xor(u, v) = b
  BY <1>7 DEF Xor
<1>. QED BY <1>2, <1>8

----------------------------------------------------------------------------
(* The first damaged byte: b is its lowest damaged bit, and n of the eight *)
(* shifts are done.  Until b is shifted out the words differ from b - n up *)
(* only; from then on they differ somewhere at or above bit 32 + b - n.    *)
Differs(u, v, b, n) ==
    IF n <= b THEN b - n \in Xor(u, v) /\ \A q \in Xor(u, v) : q >= b - n
              ELSE \E q \in Xor(u, v) : q >= 32 + b - n

LEMMA DiffersShifted ==
    ASSUME NEW u \in Word, NEW v \in Word, NEW b \in 0 .. 7, NEW n \in 0 .. 7, Differs(u, v, b, n)
    PROVE  Differs(Shifted(u), Shifted(v), b, n + 1)
<1>. DEFINE d == Xor(u, v)
            e == Xor(Shifted(u), Shifted(v))
<1>1. d \subseteq Bits /\ e \subseteq Bits
  BY ShiftedIsWord, XorIsWord DEF Word
<1>2. 31 \in e <=> 0 \in d
  BY ShiftedTopBit DEF Xor
<1>3. \A q \in d : q # 0 => q - 1 \in e \/ 0 \in d
  BY <1>1 DEF Xor, Shifted, Shr, Bits
<1>4. 0 \notin d => \A q \in e : q + 1 \in d
  BY <1>1 DEF Xor, Shifted, Shr, Bits
<1>. HIDE DEF d, e
<1>5. CASE n < b
  <2>1. b - n \in d /\ \A q \in d : q >= b - n
    BY <1>5 DEF Differs, d
  <2>2. 0 \notin d /\ b - n # 0
    BY <1>5, <2>1
  <2>3. b - (n + 1) \in e /\ \A q \in e : q >= b - (n + 1)
    BY <1>1, <1>3, <1>4, <2>1, <2>2 DEF Bits
  <2>. QED BY <1>5, <2>3 DEF Differs, e
<1>6. CASE n = b
  <2>1. 0 \in d
    BY <1>6 DEF Differs, d
  <2>2. 31 \in e /\ 31 >= 32 + b - (n + 1) /\ ~(n + 1 <= b)
    BY <1>2, <1>6, <2>1
  <2>. QED BY <2>2 DEF Differs, e
<1>7. CASE n > b
  <2>1. PICK q \in d : q >= 32 + b - n
    BY <1>7 DEF Differs, d
  <2>2. q \in Int /\ q <= 31 /\ q # 0
    BY <1>1, <2>1 DEF Bits
  <2>3. \E r \in e : r >= 32 + b - (n + 1)
    <3>1. CASE 0 \in d
      BY <1>2, <1>7, <3>1
    <3>2. CASE 0 \notin d
      <4>1. q - 1 \in e /\ q - 1 >= 32 + b - (n + 1)
        BY <1>3, <2>1, <2>2, <3>2
      <4>. QED BY <4>1
    <3>. QED BY <3>1, <3>2
  <2>. QED BY <1>7, <2>3 DEF Differs, e
<1>. QED BY <1>5, <1>6, <1>7

LEMMA FirstDifference ==
    ASSUME NEW u \in Word, NEW v \in Word, NEW b \in 0 .. 7, Differs(u, v, b, 0)
    PROVE  \E q \in Xor(EightTimes(u), EightTimes(v)) : q >= 24 + b
<1>1. ASSUME NEW x \in Word, NEW y \in Word, NEW n \in 0 .. 6, Differs(x, y, b, n)
      PROVE  Twice(x) \in Word /\ Twice(y) \in Word /\ Differs(Twice(x), Twice(y), b, n + 2)
  <2>1. Shifted(x) \in Word /\ Shifted(y) \in Word /\ Twice(x) \in Word /\ Twice(y) \in Word
    BY ShiftedIsWord DEF Twice
  <2>2. Differs(Shifted(x), Shifted(y), b, n + 1) /\ n + 1 \in 0 .. 7
    BY <1>1, DiffersShifted
  <2>3. Differs(Twice(x), Twice(y), b, (n + 1) + 1)
    BY <2>1, <2>2, DiffersShifted DEF Twice
  <2>4. (n + 1) + 1 = n + 2
    OBVIOUS
  <2>. QED BY <2>1, <2>3, <2>4
<1>2. ASSUME NEW x \in Word, NEW y \in Word, NEW n \in 0 .. 4, Differs(x, y, b, n)
      PROVE  FourTimes(x) \in Word /\ FourTimes(y) \in Word /\ Differs(FourTimes(x), FourTimes(y), b, n + 4)
  <2>1. Twice(x) \in Word /\ Twice(y) \in Word /\ Differs(Twice(x), Twice(y), b, n + 2) /\ n + 2 \in 0 .. 6
    BY <1>1, <1>2
  <2>2. (n + 2) + 2 = n + 4
    OBVIOUS
  <2>. QED BY <1>1, <2>1, <2>2 DEF FourTimes
<1>3. Differs(EightTimes(u), EightTimes(v), b, 8)
  <2>1. FourTimes(u) \in Word /\ FourTimes(v) \in Word /\ Differs(FourTimes(u), FourTimes(v), b, 0 + 4)
    BY <1>2
  <2>2. Differs(EightTimes(u), EightTimes(v), b, 4 + 4)
    BY <1>2, <2>1 DEF EightTimes
  <2>. QED BY <2>2
<1>. QED BY <1>3 DEF Differs

----------------------------------------------------------------------------
(* Bit q of the sums is where bit 8 * summed + q of the stream will be     *)
(* added.  Once damage has begun at p the sums differ beyond the 32 bits   *)
(* from p on, where damage within those bits cannot make up for it.        *)
Reaches ==
    \A p \in Damaged : Damaged \subseteq p .. p + 31 =>
        ~ (Xor(crc_chk, data_crc) \subseteq 0 .. p + 31 - 8 * summed)

CrcInv ==
    /\ CrcTypeOK
    /\ Damaged = {} => crc_chk = data_crc
    /\ Reaches

LEMMA CrcInitInv == CrcInit => CrcInv
<1>. SUFFICES ASSUME CrcInit PROVE CrcInv
  OBVIOUS
<1>1. CrcTypeOK
  BY MessagesAssumption DEF CrcInit, CrcTypeOK, Word
<1>2. Damaged = {}
  BY DEF CrcInit, Damaged
<1>. QED BY <1>1, <1>2 DEF CrcInv, Reaches, CrcInit

LEMMA CrcStepInv == CrcInv /\ [CrcNext]_crcVars => CrcInv'
<1>. SUFFICES ASSUME CrcInv, [CrcNext]_crcVars PROVE CrcInv'
  OBVIOUS
<1>1. CASE UNCHANGED crcVars
  <2>1. /\ data' = data /\ arrived' = arrived /\ summed' = summed
        /\ data_crc' = data_crc /\ crc_chk' = crc_chk
    BY <1>1 DEF crcVars
  <2>2. Damaged' = Damaged
    BY <2>1 DEF Damaged
  <2>. QED BY <2>1, <2>2 DEF CrcInv, CrcTypeOK, Reaches
<1>2. CASE CrcNext
  <2>. DEFINE n == summed + 1
              x == arrived[n]
              y == data[n]
  <2>1. /\ n \in 1 .. Len(data) /\ summed' = n /\ summed \in Nat
        /\ y \in Byte /\ x \in Byte
        /\ data_crc \in Word /\ crc_chk \in Word
        /\ data_crc' = Update(data_crc, y)
        /\ crc_chk' = Update(crc_chk, x)
        /\ data' = data /\ arrived' = arrived
    BY <1>2 DEF CrcNext, CrcInv, CrcTypeOK
  <2>2. CrcTypeOK'
    BY <2>1, UpdateIsEightShifts DEF CrcInv, CrcTypeOK
  <2>3. /\ Damaged' = Damaged \cup {8 * summed + b : b \in Xor(y, x)}
        /\ \A p \in Damaged : p \in Nat /\ p < 8 * summed
    <3>1. 1 .. n = (1 .. summed) \cup {n}
      BY <2>1
    <3>2. Damaged' = UNION {{8 * (k - 1) + b : b \in Xor(data[k], arrived[k])} : k \in 1 .. n}
      BY <2>1 DEF Damaged
    <3>3. n - 1 = summed
      BY <2>1
    <3>4. Damaged' = Damaged \cup {8 * (n - 1) + b : b \in Xor(y, x)}
      <4>. DEFINE D(k) == {8 * (k - 1) + b : b \in Xor(data[k], arrived[k])}
      <4>1. Damaged' = UNION {D(k) : k \in 1 .. n} /\ Damaged = UNION {D(k) : k \in 1 .. summed}
        BY <3>2 DEF Damaged
      <4>2. D(n) = {8 * (n - 1) + b : b \in Xor(y, x)}
        OBVIOUS
      <4>. HIDE DEF D
      <4>3. UNION {D(k) : k \in 1 .. n} = (UNION {D(k) : k \in 1 .. summed}) \cup D(n)
        BY <3>1
      <4>. QED BY <4>1, <4>2, <4>3
    <3>5. ASSUME NEW k \in 1 .. summed, NEW b \in Xor(data[k], arrived[k])
          PROVE  8 * (k - 1) + b \in Nat /\ 8 * (k - 1) + b < 8 * summed
      <4>1. k \in 1 .. Len(data) /\ data[k] \in Byte /\ arrived[k] \in Byte
        BY <2>1 DEF CrcInv, CrcTypeOK
      <4>2. b \in 0 .. 7
        BY <4>1 DEF Byte, Xor
      <4>. QED BY <2>1, <4>2
    <3>6. \A p \in Damaged : p \in Nat /\ p < 8 * summed
      BY <3>5 DEF Damaged
    <3>. QED BY <3>3, <3>4, <3>6
  <2>4. Damaged' = {} => crc_chk' = data_crc'
    <3>. SUFFICES ASSUME Damaged' = {} PROVE crc_chk' = data_crc'
      OBVIOUS
    <3>1. Damaged = {} /\ Xor(y, x) = {}
      BY <2>3
    <3>2. crc_chk = data_crc /\ x = y
      BY <3>1 DEF CrcInv, Xor
    <3>. QED BY <2>1, <3>2
  <2>5. ASSUME NEW p \in Damaged', Damaged' \subseteq p .. p + 31,
               Xor(crc_chk', data_crc') \subseteq 0 .. p + 31 - 8 * summed'
        PROVE  FALSE
    <3>. DEFINE w == 8 * summed
                u == Xor(crc_chk, x)
                v == Xor(data_crc, y)
    <3>1. /\ w \in Nat /\ 8 * summed' = w + 8
          /\ \A b \in Xor(y, x) : b \in 0 .. 7 /\ w + b \in Damaged'
          /\ Xor(x, y) = Xor(y, x)
      BY <2>1, <2>3 DEF Byte, Xor
    <3>2. u \in Word /\ v \in Word
      <4>1. x \in Word /\ y \in Word
        BY <2>1 DEF Byte, Word, Bits
      <4>. QED BY <2>1, <4>1, XorIsWord
    <3>3. CASE p \in Damaged
      <4>. DEFINE B == p + 31 - (w + 8)
      <4>1. p \in Nat /\ p < w /\ B \in Int /\ B <= 23 /\ B + 8 = p + 31 - w
        BY <2>3, <3>1, <3>3
      <4>2. Xor(u, v) \subseteq 8 .. B + 8
        <5>1. Xor(Update(crc_chk, x), Update(data_crc, y)) \subseteq 0 .. B
          BY <2>1, <2>5, <3>1
        <5>. HIDE DEF B, n, x, y
        <5>. QED BY <2>1, <4>1, <5>1, DifferenceShifts
      <4>3. \A b \in Xor(x, y) : b \in 0 .. B + 8
        BY <2>5, <3>1, <4>1
      <4>4. Xor(crc_chk, data_crc) \subseteq Xor(x, y) \cup Xor(u, v)
        BY DEF Xor
      <4>5. 8 .. B + 8 \subseteq 0 .. B + 8
        BY <4>1
      <4>6. Xor(crc_chk, data_crc) \subseteq 0 .. p + 31 - w
        BY <4>1, <4>2, <4>3, <4>4, <4>5
      <4>7. Damaged \subseteq p .. p + 31
        BY <2>3, <2>5
      <4>. QED BY <3>3, <4>6, <4>7 DEF CrcInv, Reaches
    <3>4. CASE p \notin Damaged
      <4>1. PICK b \in Xor(y, x) : p = w + b
        BY <2>3, <3>4
      <4>2. b \in 0 .. 7 /\ p >= w
        BY <3>1, <4>1
      <4>3. Damaged = {}
        <5>1. \A q \in Damaged : q < w /\ q \in Nat /\ q >= p
          BY <2>3, <2>5
        <5>. QED BY <3>1, <4>1, <4>2, <5>1
      <4>4. crc_chk = data_crc
        BY <4>3 DEF CrcInv
      <4>5. Xor(u, v) = Xor(y, x)
        BY <4>4 DEF Xor
      <4>6. \A q \in Xor(y, x) : q >= b
        BY <2>5, <3>1, <4>1, <4>2
      <4>7. Differs(u, v, b, 0)
        BY <4>1, <4>2, <4>5, <4>6 DEF Differs
      <4>8. PICK q \in Xor(EightTimes(u), EightTimes(v)) : q >= 24 + b
        BY <3>2, <4>2, <4>7, FirstDifference
      <4>9. Xor(crc_chk', data_crc') = Xor(EightTimes(u), EightTimes(v))
        <5>1. /\ Update(crc_chk, x) = Xor(EightTimes(u), TopByte)
              /\ Update(data_crc, y) = Xor(EightTimes(v), TopByte)
          BY <2>1, UpdateIsEightShifts
        <5>. QED BY <2>1, <5>1 DEF Xor
      <4>10. q \in 0 .. p + 31 - (w + 8)
        BY <2>5, <3>1, <4>8, <4>9
      <4>. QED BY <3>1, <4>1, <4>2, <4>8, <4>10
    <3>. QED BY <3>3, <3>4
  <2>. QED BY <2>2, <2>4, <2>5 DEF CrcInv, Reaches
<1>. QED BY <1>1, <1>2

(* A frame whose damage lies within 32 bits in a row is never taken for    *)
(* intact, for data of any length.                                         *)
THEOREM DamagedBurstIsSeen == CrcSpec => []BurstSeen
<1>1. CrcInv => BurstSeen
  <2>. SUFFICES ASSUME CrcInv, NEW p \in Damaged, Damaged \subseteq p .. p + 31,
                       crc_chk = data_crc
                PROVE  FALSE
    BY DEF CrcInv, BurstSeen
  <2>1. Xor(crc_chk, data_crc) = {}
    BY DEF Xor
  <2>. QED BY <2>1 DEF CrcInv, Reaches
<1>. QED BY <1>1, CrcInitInv, CrcStepInv, PTL DEF CrcSpec

----------------------------------------------------------------------------
(* The cut table.                                                          *)

SliceTypeOK ==
    /\ M \in [Index -> [Index -> Int]]
    /\ row \in 1 .. MAX
    /\ col \in 1 .. MAX
    /\ Filling => col < MAX
    /\ asked # NoBoard => ~Filling

(* The entry that main() passes over stays as the global was initialised.  *)
UnitSquareIsZero == 1 \in Board => M[1][1] = 0

SliceInv == SliceTypeOK /\ UnitSquareIsZero /\ FewestCuts

LEMMA MinOfOneAndLarger ==
    ASSUME NEW S, NEW v \in Int, v \in S, \A s \in S : s = v \/ (s \in Int /\ v < s)
    PROVE  Min(S) = v
<1>1. \A s \in S : v <= s
  OBVIOUS
<1>2. \A x \in S : (\A y \in S : x <= y) => x = v
  OBVIOUS
<1>. QED BY <1>1, <1>2 DEF Min

(* k rows and the rest, or k columns and the rest, need as many cuts.      *)
LEMMA CutAway ==
    ASSUME NEW x \in Int, NEW y \in Int, NEW k \in Int
    PROVE  (k * y - 1) + ((x - k) * y - 1) + 1 = x * y - 1
<1>1. (x - k) * y = x * y - k * y
  OBVIOUS
<1>. QED BY <1>1

LEMMA CutAwayColumns ==
    ASSUME NEW x \in Int, NEW y \in Int, NEW k \in Int
    PROVE  (x * k - 1) + (x * (y - k) - 1) + 1 = x * y - 1
<1>1. x * (y - k) = x * y - x * k
  OBVIOUS
<1>. QED BY <1>1

LEMMA ProductBound ==
    ASSUME NEW x \in Board, NEW y \in Board
    PROVE  x * y - 1 < INF /\ x * y \in Int
<1>1. MAX \in Nat /\ INF \in Nat /\ MAX * MAX <= INF
  BY SliceAssumption
<1>2. x \in Nat /\ y \in Nat /\ x <= MAX /\ y <= MAX
  BY <1>1 DEF Board
<1>3. x * y <= MAX * y
  BY <1>1, <1>2
<1>4. MAX * y <= MAX * MAX
  BY <1>1, <1>2
<1>. QED BY <1>1, <1>2, <1>3, <1>4

LEMMA EntryIsExact ==
    ASSUME SliceInv, Filling, ~(row = 1 /\ col = 1)
    PROVE  Min({INF} \cup CutRows(row, col) \cup CutColumns(row, col)) = row * col - 1
<1>. DEFINE S == {INF} \cup CutRows(row, col) \cup CutColumns(row, col)
            v == row * col - 1
<1>1. row \in Board /\ col \in Board /\ MAX \in Nat
  BY SliceAssumption DEF SliceInv, SliceTypeOK, Filling, Board
<1>2. v \in Int /\ v < INF /\ INF \in Int
  BY <1>1, ProductBound, SliceAssumption DEF Board
<1>3. ASSUME NEW k \in 1 .. row - 1
      PROVE  M[k][col] + M[row - k][col] + 1 = v
  <2>1. k \in Board /\ row - k \in Board /\ k < row /\ row - k < row
    BY <1>1 DEF Board
  <2>2. M[k][col] = k * col - 1 /\ M[row - k][col] = (row - k) * col - 1
    BY <1>1, <2>1 DEF SliceInv, FewestCuts, Filled
  <2>. QED BY <1>1, <2>1, <2>2, CutAway DEF Board
<1>4. ASSUME NEW k \in 1 .. col - 1
      PROVE  M[row][k] + M[row][col - k] + 1 = v
  <2>1. k \in Board /\ col - k \in Board /\ k < col /\ col - k < col
    BY <1>1 DEF Board
  <2>2. M[row][k] = row * k - 1 /\ M[row][col - k] = row * (col - k) - 1
    BY <1>1, <2>1 DEF SliceInv, FewestCuts, Filled
  <2>. QED BY <1>1, <2>1, <2>2, CutAwayColumns DEF Board
<1>5. \A s \in S : s = v \/ (s \in Int /\ v < s)
  BY <1>2, <1>3, <1>4 DEF CutRows, CutColumns
<1>6. v \in S
  <2>1. CASE row > 1
    <3>1. 1 \in 1 .. row - 1
      BY <1>1, <2>1 DEF Board
    <3>. QED BY <3>1, <1>3 DEF CutRows
  <2>2. CASE col > 1
    <3>1. 1 \in 1 .. col - 1
      BY <1>1, <2>2 DEF Board
    <3>. QED BY <3>1, <1>4 DEF CutColumns
  <2>. QED BY <1>1, <2>1, <2>2 DEF Board
<1>. QED BY <1>2, <1>5, <1>6, MinOfOneAndLarger

LEMMA SliceInitInv == SliceInit => SliceInv
BY SliceAssumption DEF SliceInit, SliceInv, SliceTypeOK, UnitSquareIsZero, FewestCuts, Filled, Filling, Board, Index, NoBoard

LEMMA SliceStepInv == SliceInv /\ [SliceNext]_sliceVars => SliceInv'
<1>. SUFFICES ASSUME SliceInv, [SliceNext]_sliceVars PROVE SliceInv'
  OBVIOUS
<1>. USE SliceAssumption
<1>1. CASE FillEntry
  <2>1. /\ row \in Board /\ col \in Board /\ asked = NoBoard /\ asked' = asked
        /\ row * col - 1 \in Int
    BY <1>1 DEF FillEntry, SliceInv, SliceTypeOK, Filling, Board
  <2>2. /\ M' \in [Index -> [Index -> Int]]
        /\ M'[row][col] = row * col - 1
        /\ \A x, y \in Board : <<x, y>> # <<row, col>> => M'[x][y] = M[x][y]
    <3>1. row \in Index /\ col \in Index /\ Board \subseteq Index /\ M \in [Index -> [Index -> Int]]
      BY <2>1 DEF Board, Index, SliceInv, SliceTypeOK
    <3>2. CASE row = 1 /\ col = 1
      BY <1>1, <2>1, <3>1, <3>2 DEF FillEntry, SliceInv, UnitSquareIsZero
    <3>3. CASE ~(row = 1 /\ col = 1)
      BY <1>1, <2>1, <3>1, <3>3, EntryIsExact DEF FillEntry, actualize
    <3>. QED BY <3>2, <3>3
  <2>3. \A x, y \in Board : Filled(x, y)' => (Filled(x, y) \/ <<x, y>> = <<row, col>>)
    BY <1>1, <2>1 DEF FillEntry, Filled, Board
  <2>4. SliceTypeOK'
    BY <1>1, <2>1, <2>2 DEF FillEntry, SliceTypeOK, Filling, Board
  <2>5. UnitSquareIsZero'
    BY <2>2 DEF SliceInv, UnitSquareIsZero, Board
  <2>6. FewestCuts'
    <3>1. \A x, y \in Board : Filled(x, y)' => M'[x][y] = x * y - 1
      BY <2>2, <2>3 DEF SliceInv, FewestCuts
    <3>2. \A m, n \in Board : asked' # <<m, n>>
      BY <2>1 DEF NoBoard
    <3>. QED BY <3>1, <3>2 DEF FewestCuts, Board, Filled
  <2>. QED BY <2>4, <2>5, <2>6 DEF SliceInv
<1>2. CASE Ask
  <2>1. PICK m, n \in Sides : /\ asked' = <<m, n>>
                              /\ answer' = IF m \in Index /\ n \in Index THEN <<M[m][n]>> ELSE Garbage
    BY <1>2 DEF Ask
  <2>2. /\ ~Filling /\ row = MAX /\ M' = M /\ row' = row /\ col' = col
    BY <1>2 DEF Ask, Filling, SliceInv, SliceTypeOK
  <2>3. \A x, y \in Board : M[x][y] = x * y - 1 /\ x \in Index /\ y \in Index
    BY <2>2 DEF SliceInv, FewestCuts, Filled, Board, Index
  <2>4. \A x, y \in Board : asked' = <<x, y>> => answer' = <<x * y - 1>>
    BY <2>1, <2>3
  <2>. QED BY <2>2, <2>3, <2>4 DEF SliceInv, SliceTypeOK, UnitSquareIsZero, FewestCuts, Filling, Filled, Board
<1>3. CASE UNCHANGED sliceVars
  BY <1>3 DEF sliceVars, SliceInv, SliceTypeOK, UnitSquareIsZero, Board, FewestCuts, Filling, Filled
<1>. QED BY <1>1, <1>2, <1>3 DEF SliceNext

(* For a table of any size, every entry is the fewest cuts when the loops  *)
(* have passed it, and so is the answer for every board in the table.      *)
THEOREM TableIsExact == SliceSpec => []FewestCuts
<1>1. SliceInv => FewestCuts
  BY DEF SliceInv
<1>. QED BY <1>1, SliceInitInv, SliceStepInv, PTL DEF SliceSpec

----------------------------------------------------------------------------
(* more: its variables, and the line in the buffer.                        *)

Token == {NewLine} \cup {Number(n) : n \in Nat} \cup {<<line, p>> : line \in Nat, p \in Nat}

MoreTypeOK ==
    /\ screenSize \in Int /\ startline \in Int
    /\ isShowNumbers \in BOOLEAN /\ isFold \in BOOLEAN
    /\ contents \in Files
    /\ inp \in [read : 0 .. Lines, eof : BOOLEAN]
    /\ len \in Nat /\ j \in 0 .. len
    /\ i \in Nat
    /\ out \in Seq(Token)
    /\ more_pc \in {"options", "lines", "chars", "cut", "done", "error", "unopened", "killed"}

(* The line in the buffer, and how much of it has come out.                *)
LineInv ==
    /\ more_pc = "options" => out = <<>> /\ inp.read = 0
    /\ more_pc \in {"lines", "chars", "cut", "done"} =>
           inp.read >= Skipped \/ (inp.eof /\ inp.read = Lines)
    /\ more_pc \in {"lines", "chars", "cut", "done"} /\ inp.eof => inp.read = Lines
    /\ more_pc \in {"chars", "cut"} =>
           IF len = 0
           THEN inp.eof
           ELSE /\ inp.read \in 1 .. Lines /\ inp.read > Skipped
                /\ len = LengthOf(inp.read)
                /\ inp.eof <=> inp.read = Lines /\ ~contents.ended
    /\ more_pc \in {"chars", "cut"} /\ j > 0 => Columns > 0
    /\ more_pc = "chars" /\ ~isFold => j = 0 \/ j < Columns
    /\ more_pc = "cut" => ~isFold /\ j < len /\ Columns = j + 1
    /\ more_pc = "done" => inp.eof

----------------------------------------------------------------------------
LEMMA FirstOfTwo ==
    ASSUME NEW a \in Int, NEW b \in Int
    PROVE  Min({a, b}) = IF a <= b THEN a ELSE b
BY DEF Min

LEMMA Tokens ==
    /\ ~IsText(NewLine)
    /\ \A n \in Nat : ~IsText(Number(n)) /\ ~EndsRow(Number(n))
    /\ \A line, p \in Nat : IsText(<<line, p>>)
BY DEF IsText, NewLine, Number, EndsRow

LEMMA Remainder ==
    ASSUME NEW w \in Nat, w > 0, NEW n \in Nat, NEW q \in Int, NEW r \in 0 .. w - 1, n = w * q + r
    PROVE  n % w = r
<1>. DEFINE p == n \div w
            s == n % w
<1>1. p \in Int /\ s \in 0 .. w - 1 /\ n = w * p + s
  OBVIOUS
<1>. HIDE DEF p, s
<1>2. CASE p = q
  <2>1. w * p = w * q /\ w * p \in Int
    BY <1>1, <1>2
  <2>. QED BY <1>1, <2>1 DEF s
<1>3. CASE p < q
  <2>1. q - p - 1 \in Nat /\ w * (q - p - 1) \in Nat
    BY <1>1, <1>3
  <2>2. w * q = w * p + w + w * (q - p - 1)
    BY <1>1, <2>1
  <2>3. w * q \in Int /\ w * p \in Int
    BY <1>1
  <2>. QED BY <1>1, <2>1, <2>2, <2>3
<1>4. CASE q < p
  <2>1. p - q - 1 \in Nat /\ w * (p - q - 1) \in Nat
    BY <1>1, <1>4
  <2>2. w * p = w * q + w + w * (p - q - 1)
    BY <1>1, <2>1
  <2>3. w * q \in Int /\ w * p \in Int
    BY <1>1
  <2>. QED BY <1>1, <2>1, <2>2, <2>3
<1>. QED BY <1>1, <1>2, <1>3, <1>4

LEMMA Modulo ==
    ASSUME NEW w \in Nat, w > 0, NEW n \in Nat
    PROVE  /\ n % w \in 0 .. w - 1
           /\ (n + 1) % w = IF n % w = w - 1 THEN 0 ELSE (n % w) + 1
           /\ n < w => n % w = n
<1>. DEFINE q == n \div w
            r == n % w
<1>1. q \in Int /\ r \in 0 .. w - 1 /\ n = w * q + r
  OBVIOUS
<1>2. n < w => n = w * 0 + n /\ n \in 0 .. w - 1
  OBVIOUS
<1>3. n < w => n % w = n
  BY <1>2, Remainder
<1>. HIDE DEF q, r
<1>4. CASE r = w - 1
  <2>1. n + 1 = w * (q + 1) + 0
    BY <1>1, <1>4
  <2>2. (n + 1) % w = 0
    BY <1>1, <2>1, Remainder
  <2>. QED BY <1>1, <1>3, <1>4, <2>2 DEF r
<1>5. CASE r # w - 1
  <2>1. n + 1 = w * q + (r + 1) /\ r + 1 \in 0 .. w - 1
    BY <1>1, <1>5
  <2>2. (n + 1) % w = r + 1
    BY <1>1, <2>1, Remainder
  <2>. QED BY <1>1, <1>3, <1>5, <2>2 DEF r
<1>. QED BY <1>4, <1>5

----------------------------------------------------------------------------
(* What a token adds to the text of an output o.                           *)
TextOf(o) == {k \in DOMAIN o : IsText(o[k])}
Printed(o) == {o[k] : k \in TextOf(o)}
Sorted(o) == \A a, b \in TextOf(o) : a < b => Before(o[a], o[b])

LEMMA TokenAdded ==
    ASSUME NEW o \in Seq(Token), NEW t \in Token
    PROVE  /\ Append(o, t) \in Seq(Token)
           /\ Printed(Append(o, t)) = Printed(o) \cup (IF IsText(t) THEN {t} ELSE {})
           /\ (Sorted(o) /\ (IsText(t) => \A c \in Printed(o) : Before(c, t))) => Sorted(Append(o, t))
<1>. DEFINE q == Append(o, t)
            n == Len(o)
<1>1. /\ q \in Seq(Token) /\ DOMAIN q = 1 .. n + 1 /\ DOMAIN o = 1 .. n /\ n \in Nat
      /\ \A k \in 1 .. n : q[k] = o[k]
      /\ q[n + 1] = t
  BY AppendProperties
<1>2. TextOf(q) = TextOf(o) \cup (IF IsText(t) THEN {n + 1} ELSE {})
  BY <1>1 DEF TextOf
<1>3. \A k \in TextOf(o) : k \in 1 .. n /\ q[k] = o[k]
  BY <1>1 DEF TextOf
<1>. HIDE DEF q, n
<1>4. Printed(q) = Printed(o) \cup (IF IsText(t) THEN {t} ELSE {})
  BY <1>1, <1>2, <1>3 DEF Printed
<1>5. ASSUME Sorted(o), IsText(t) => \A c \in Printed(o) : Before(c, t),
             NEW a \in TextOf(q), NEW b \in TextOf(q), a < b
      PROVE  Before(q[a], q[b])
  <2>1. a \in TextOf(o)
    BY <1>1, <1>2, <1>3, <1>5
  <2>2. CASE b \in TextOf(o)
    BY <1>3, <1>5, <2>1, <2>2 DEF Sorted
  <2>3. CASE b = n + 1 /\ IsText(t)
    BY <1>1, <1>3, <1>5, <2>1, <2>3 DEF Printed
  <2>. QED BY <1>2, <1>5, <2>2, <2>3
<1>6. (Sorted(o) /\ (IsText(t) => \A c \in Printed(o) : Before(c, t))) => Sorted(q)
  BY <1>5 DEF Sorted
<1>. QED BY <1>1, <1>4, <1>6 DEF q

(* Rows of an output o: Row(o, a, b) counts as in RowsFit.                 *)
Row(o, a, b) == {k \in a .. b : IsText(o[k]) /\ ~EndsRow(o[k])}
Open(o, a, b) == \A k \in a .. b : ~EndsRow(o[k])
Fits(o, w) == \A a, b \in DOMAIN o : a <= b /\ Open(o, a, b) => Cardinality(Row(o, a, b)) <= w
(* The last row, if it is still open, has n characters at most.            *)
LastRow(o, n) == \A a \in DOMAIN o : Open(o, a, Len(o)) => Cardinality(Row(o, a, Len(o))) <= n

LEMMA RowIsFinite ==
    ASSUME NEW o, NEW a \in Int, NEW b \in Int
    PROVE  IsFiniteSet(Row(o, a, b)) /\ Cardinality(Row(o, a, b)) \in Nat
<1>1. Row(o, a, b) \in SUBSET (a .. b) /\ IsFiniteSet(a .. b)
  BY FS_Interval DEF Row
<1>. QED BY <1>1, FS_Subset, FS_CardinalityType

LEMMA RowGrows ==
    ASSUME NEW o \in Seq(Token), NEW t \in Token, NEW w \in Nat, NEW n \in Nat, n <= w,
           Fits(o, w), LastRow(o, n), IsText(t) /\ ~EndsRow(t) => n < w
    PROVE  /\ Fits(Append(o, t), w)
           /\ EndsRow(t) => LastRow(Append(o, t), 0)
           /\ IsText(t) => LastRow(Append(o, t), n + 1)
           /\ ~IsText(t) => LastRow(Append(o, t), n)
<1>. DEFINE q == Append(o, t)
            l == Len(o)
            c == IF IsText(t) THEN n + 1 ELSE n
<1>1. /\ DOMAIN q = 1 .. l + 1 /\ DOMAIN o = 1 .. l /\ l \in Nat /\ Len(q) = l + 1
      /\ \A k \in 1 .. l : q[k] = o[k]
      /\ q[l + 1] = t
  BY AppendProperties
<1>. HIDE DEF q, l
<1>2. ASSUME NEW a \in 1 .. l, NEW b \in 1 .. l
      PROVE  Row(q, a, b) = Row(o, a, b) /\ (Open(q, a, b) <=> Open(o, a, b))
  <2>1. \A k \in a .. b : k \in 1 .. l
    BY <1>1
  <2>. QED BY <1>1, <2>1 DEF Row, Open
<1>3. ASSUME NEW a \in 1 .. l + 1, Open(q, a, l + 1)
      PROVE  /\ ~EndsRow(t)
             /\ Cardinality(Row(q, a, l + 1)) <= c
  <2>1. ~EndsRow(t)
    BY <1>1, <1>3 DEF Open
  <2>2. CASE a = l + 1
    <3>1. Row(q, a, l + 1) = IF IsText(t) THEN {l + 1} ELSE {}
      BY <1>1, <2>1, <2>2 DEF Row
    <3>2. Cardinality(Row(q, a, l + 1)) = IF IsText(t) THEN 1 ELSE 0
      BY <3>1, FS_EmptySet, FS_Singleton, Zenon
    <3>. QED BY <2>1, <3>2
  <2>3. CASE a \in 1 .. l
    <3>1. Open(o, a, l) /\ l \in 1 .. l
      <4>1. \A k \in a .. l : k \in a .. l + 1 /\ q[k] = o[k]
        BY <1>1, <2>3
      <4>. QED BY <1>1, <1>3, <2>3, <4>1 DEF Open
    <3>2. Cardinality(Row(o, a, l)) <= n
      BY <1>1, <2>3, <3>1 DEF LastRow, l
    <3>3. Row(q, a, l + 1) = Row(o, a, l) \cup (IF IsText(t) THEN {l + 1} ELSE {})
      BY <1>1, <2>1, <2>3 DEF Row
    <3>4. IsFiniteSet(Row(o, a, l)) /\ Cardinality(Row(o, a, l)) \in Nat
      BY <1>1, <2>3, RowIsFinite
    <3>5. Cardinality(Row(q, a, l + 1)) <= Cardinality(Row(o, a, l)) + (IF IsText(t) THEN 1 ELSE 0)
      <4>1. CASE IsText(t)
        <5>1. Row(q, a, l + 1) = Row(o, a, l) \cup {l + 1}
          BY <3>3, <4>1
        <5>. DEFINE R == Row(o, a, l)
        <5>2. Cardinality(R \cup {l + 1}) = IF l + 1 \in R THEN Cardinality(R) ELSE Cardinality(R) + 1
          BY <3>4, FS_AddElement, Zenon
        <5>. HIDE DEF R
        <5>3. Cardinality(R) \in Nat
          BY <3>4 DEF R
        <5>4. Cardinality(R \cup {l + 1}) <= Cardinality(R) + 1
          BY <5>2, <5>3
        <5>. QED BY <4>1, <5>1, <5>4 DEF R
      <4>2. CASE ~IsText(t)
        <5>1. Row(q, a, l + 1) = Row(o, a, l)
          BY <3>3, <4>2
        <5>. QED BY <3>4, <4>2, <5>1
      <4>. QED BY <4>1, <4>2
    <3>6. Cardinality(Row(q, a, l + 1)) \in Nat
      BY <1>1, RowIsFinite
    <3>. QED BY <2>1, <3>2, <3>4, <3>5, <3>6
  <2>. QED BY <1>1, <2>1, <2>2, <2>3
<1>4. Fits(q, w)
  <2>. SUFFICES ASSUME NEW a \in 1 .. l + 1, NEW b \in 1 .. l + 1, a <= b, Open(q, a, b)
                PROVE  Cardinality(Row(q, a, b)) <= w
    BY <1>1 DEF Fits
  <2>1. CASE b = l + 1
    <3>1. Cardinality(Row(q, a, b)) <= c /\ ~EndsRow(t)
      BY <1>3, <2>1
    <3>2. c <= w
      BY <3>1
    <3>3. Cardinality(Row(q, a, b)) \in Nat
      BY <1>1, RowIsFinite
    <3>. QED BY <3>1, <3>2, <3>3
  <2>2. CASE b \in 1 .. l
    <3>1. a \in 1 .. l
      BY <1>1, <2>2
    <3>. QED BY <1>1, <1>2, <2>2, <3>1 DEF Fits
  <2>. QED BY <1>1, <2>1, <2>2
<1>5. EndsRow(t) => LastRow(q, 0)
  BY <1>1, <1>3 DEF LastRow
<1>6. LastRow(q, c)
  BY <1>1, <1>3 DEF LastRow
<1>. QED BY <1>4, <1>5, <1>6 DEF q

----------------------------------------------------------------------------
(* Types and the line in the buffer.                                       *)

LEMMA FileTypes ==
    ASSUME contents \in Files
    PROVE  /\ Lines \in Nat
           /\ \A line \in 1 .. Lines : contents.text[line] \in Nat /\ LengthOf(line) \in Nat
BY MoreAssumption DEF Lines, LengthOf

LEMMA OptionTypes ==
    ASSUME MoreTypeOK
    PROVE  Columns \in Nat /\ Skipped \in Nat
BY DEF MoreTypeOK, Columns, Skipped

LEMMA OptionsStay ==
    ASSUME UNCHANGED <<screenSize, startline>>
    PROVE  Columns' = Columns /\ Skipped' = Skipped
BY DEF Columns, Skipped

LEMMA MoreTypes == MoreInit => MoreTypeOK /\ LineInv
<1>. SUFFICES ASSUME MoreInit PROVE MoreTypeOK /\ LineInv
  OBVIOUS
<1>1. Lines \in Nat /\ inp \in [read : 0 .. Lines, eof : BOOLEAN]
  BY FileTypes DEF MoreInit
<1>2. out \in Seq(Token) /\ j \in 0 .. len
  BY DEF MoreInit
<1>a. screenSize \in Int /\ startline \in Int
  BY DEF MoreInit
<1>3. MoreTypeOK
  BY <1>1, <1>2, <1>a DEF MoreInit, MoreTypeOK
<1>4. LineInv
  BY <1>1 DEF MoreInit, LineInv
<1>. QED BY <1>3, <1>4

LEMMA TypesStep == MoreTypeOK /\ LineInv /\ [MoreNext]_moreVars => MoreTypeOK' /\ LineInv'
<1>. SUFFICES ASSUME MoreTypeOK, LineInv, [MoreNext]_moreVars PROVE MoreTypeOK' /\ LineInv'
  OBVIOUS
<1>0. contents' = contents /\ Lines' = Lines
  BY DEF MoreNext, ParseNumber, ParseSwitch, ParseError, CannotOpen, SkipLines, GetLine, PrintChar, DivideByZero,
         EndLine, EndOfFile, moreVars, Lines
<1>a. /\ Lines \in Nat /\ contents \in Files
      /\ \A line \in 1 .. Lines : contents.text[line] \in Nat /\ LengthOf(line) \in Nat
      /\ inp.read \in 0 .. Lines /\ inp.eof \in BOOLEAN /\ inp \in [read : 0 .. Lines, eof : BOOLEAN]
      /\ Columns \in Nat /\ Skipped \in Nat
  BY FileTypes, OptionTypes DEF MoreTypeOK
<1>b. Lines' \in Nat /\ 0 .. Lines' = 0 .. Lines
  BY <1>0, <1>a
<1>1. CASE UNCHANGED moreVars
  <2>1. LengthOf(inp.read)' = LengthOf(inp.read)
    BY <1>0, <1>1 DEF moreVars, LengthOf
  <2>. QED BY <1>0, <1>1, <2>1, OptionsStay DEF moreVars, MoreTypeOK, LineInv
<1>2. CASE ParseNumber
  <2>1. \A args : Atoi(args) \in Int
    BY MoreAssumption DEF Atoi
  <2>2. screenSize' \in Int /\ startline' \in Int /\ more_pc = "options" /\ more_pc' = "options"
    BY <1>2, <2>1 DEF ParseNumber, MoreTypeOK
  <2>. QED BY <1>0, <1>2, <2>2 DEF ParseNumber, MoreTypeOK, LineInv
<1>3. CASE ParseSwitch
  BY <1>0, <1>a, <1>3 DEF ParseSwitch, MoreTypeOK, LineInv
<1>4. CASE ParseError \/ CannotOpen
  BY <1>0, <1>a, <1>4 DEF ParseError, CannotOpen, options, MoreTypeOK, LineInv
<1>5. CASE SkipLines
  <2>0. UNCHANGED <<options, contents, len, j, i, out>> /\ more_pc' = "lines" /\ more_pc = "options"
    BY <1>5 DEF SkipLines
  <2>. DEFINE e == Skipped > Lines \/ (Skipped = Lines /\ ~contents.ended)
  <2>a. inp' = [read |-> Min({Skipped, Lines}), eof |-> e]
    BY <1>5 DEF SkipLines
  <2>b. e \in BOOLEAN /\ (e => Skipped >= Lines) /\ (Skipped > Lines => e)
    BY <1>a DEF MoreTypeOK
  <2>. HIDE DEF e
  <2>1. /\ inp'.read = (IF Skipped <= Lines THEN Skipped ELSE Lines)
        /\ inp'.eof = e
        /\ inp' = [read |-> inp'.read, eof |-> e]
    BY <1>a, <2>a, FirstOfTwo DEF MoreTypeOK
  <2>2. inp'.read \in 0 .. Lines /\ inp' \in [read : 0 .. Lines, eof : BOOLEAN]
    BY <1>a, <2>1, <2>b DEF MoreTypeOK
  <2>3. MoreTypeOK'
    BY <1>0, <2>0, <2>2 DEF MoreTypeOK, options
  <2>4. LineInv'
    BY <1>0, <1>a, <2>0, <2>1, <2>2, <2>b, OptionsStay DEF LineInv, MoreTypeOK, options
  <2>. QED BY <2>3, <2>4
<1>6. CASE GetLine
  <2>0. /\ UNCHANGED <<options, contents, i>> /\ more_pc' = "chars" /\ more_pc = "lines" /\ j' = 0 /\ ~inp.eof
    BY <1>6 DEF GetLine
  <2>1. out' \in Seq(Token)
    <3>1. Number(i) \in Token
      BY DEF Token, MoreTypeOK
    <3>. QED BY <1>6, <3>1, AppendProperties DEF GetLine, MoreTypeOK
  <2>2. CASE inp.read < Lines
    <3>1. inp.read + 1 \in 1 .. Lines
      BY <1>a, <2>2
    <3>a. len' = LengthOf(inp.read + 1) /\ len' \in Nat
      BY <1>6, <1>a, <2>2, <3>1 DEF GetLine
    <3>. DEFINE e == inp.read + 1 = Lines /\ ~contents.ended
    <3>b. inp' = [read |-> inp.read + 1, eof |-> e]
      BY <1>6, <2>2 DEF GetLine
    <3>c. e \in BOOLEAN /\ (e <=> inp.read + 1 = Lines /\ ~contents.ended)
      OBVIOUS
    <3>. HIDE DEF e
    <3>2. inp'.read = inp.read + 1 /\ inp'.eof = e /\ inp' \in [read : 0 .. Lines, eof : BOOLEAN]
      BY <1>a, <3>1, <3>b, <3>c
    <3>3. MoreTypeOK'
      BY <1>0, <2>0, <2>1, <3>a, <3>2 DEF MoreTypeOK, options
    <3>4. inp.read >= Skipped
      BY <2>0 DEF LineInv
    <3>5. len' = LengthOf(inp.read)' /\ (inp.eof <=> inp.read = Lines /\ ~contents.ended)'
      BY <1>0, <3>a, <3>2, <3>c DEF LengthOf
    <3>d. len' = 0 => inp'.eof
      BY <1>a, <3>1, <3>a, <3>2, <3>c DEF LengthOf
    <3>6. LineInv'
      BY <1>0, <1>a, <2>0, <3>1, <3>2, <3>4, <3>5, <3>d, OptionsStay DEF LineInv, MoreTypeOK, options
    <3>. QED BY <3>3, <3>6
  <2>3. CASE ~(inp.read < Lines)
    <3>0. inp' = [inp EXCEPT !.eof = TRUE] /\ len' = 0
      BY <1>6, <2>3 DEF GetLine
    <3>1. inp'.read = Lines /\ inp'.eof = TRUE /\ len' = 0 /\ inp' \in [read : 0 .. Lines, eof : BOOLEAN]
      <4>1. inp.read = Lines
        BY <1>a, <2>3
      <4>2. inp' = [read |-> Lines, eof |-> TRUE]
        BY <1>a, <3>0, <4>1
      <4>3. [read |-> Lines, eof |-> TRUE] \in [read : 0 .. Lines, eof : BOOLEAN]
        BY <1>a
      <4>4. inp'.eof = TRUE
        BY <4>2, Zenon
      <4>5. inp'.read = Lines
        BY <4>2
      <4>. QED BY <3>0, <4>2, <4>3, <4>4, <4>5, Zenon
    <3>2. MoreTypeOK'
      BY <1>0, <2>0, <2>1, <3>1 DEF MoreTypeOK, options
    <3>3. LineInv'
      BY <1>0, <1>a, <2>0, <3>1, OptionsStay DEF LineInv, MoreTypeOK, options
    <3>. QED BY <3>2, <3>3
  <2>. QED BY <2>2, <2>3
<1>7. CASE PrintChar
  <2>1. /\ more_pc = "chars" /\ j < len /\ Columns # 0 /\ UNCHANGED <<options, inp, contents, len, i>>
        /\ IF (j + 1) % Columns = 0 /\ ~isFold
           THEN more_pc' = "cut" /\ j' = j
           ELSE more_pc' = "chars" /\ j' = j + 1
        /\ out' = out \o <<<<inp.read, j + 1>>>>
                      \o (IF (j + 1) % Columns = 0 /\ isFold THEN <<NewLine>> ELSE <<>>)
    BY <1>7 DEF PrintChar
  <2>2. out' \in Seq(Token)
    <3>1. <<inp.read, j + 1>> \in Token /\ NewLine \in Token
      BY <1>a DEF Token, MoreTypeOK
    <3>. QED BY <2>1, <3>1, ConcatProperties DEF MoreTypeOK
  <2>3. MoreTypeOK'
    BY <1>0, <2>1, <2>2 DEF MoreTypeOK, options
  <2>4. /\ Columns \in Nat /\ Columns > 0 /\ j \in Nat /\ len \in Nat /\ isFold \in BOOLEAN
        /\ ~isFold => j = 0 \/ j < Columns
    BY <1>a, <2>1 DEF MoreTypeOK, LineInv
  <2>5. ~isFold => IF (j + 1) % Columns = 0 THEN Columns = j + 1 ELSE j + 1 < Columns
    BY <2>4, Modulo
  <2>6. LengthOf(inp.read)' = LengthOf(inp.read)
    BY <1>0, <2>1 DEF LengthOf
  <2>7. LineInv'
    BY <1>0, <1>a, <2>1, <2>4, <2>5, <2>6, OptionsStay DEF LineInv, options
  <2>. QED BY <2>3, <2>7
<1>8. CASE DivideByZero
  <2>1. <<inp.read, j + 1>> \in Token
    BY <1>a DEF Token, MoreTypeOK
  <2>2. out' \in Seq(Token)
    BY <1>8, <2>1, AppendProperties DEF DivideByZero, MoreTypeOK
  <2>3. MoreTypeOK'
    BY <1>0, <1>8, <2>2 DEF DivideByZero, MoreTypeOK, options
  <2>4. LineInv'
    BY <1>8 DEF DivideByZero, LineInv
  <2>. QED BY <2>3, <2>4
<1>9. CASE EndLine
  <2>1. NewLine \in Token
    BY DEF Token
  <2>2. out' \in Seq(Token)
    BY <1>9, <2>1, AppendProperties DEF EndLine, MoreTypeOK
  <2>3. MoreTypeOK'
    BY <1>0, <1>9, <2>2 DEF EndLine, MoreTypeOK, options
  <2>4. LineInv'
    BY <1>0, <1>9, OptionsStay DEF EndLine, LineInv, options
  <2>. QED BY <2>3, <2>4
<1>10. CASE EndOfFile
  BY <1>0, <1>a, <1>10 DEF EndOfFile, options, MoreTypeOK, LineInv
<1>. QED BY <1>1, <1>2, <1>3, <1>4, <1>5, <1>6, <1>7, <1>8, <1>9, <1>10 DEF MoreNext

----------------------------------------------------------------------------
(* Rows.                                                                   *)

----------------------------------------------------------------------------
(* Rows.                                                                   *)

(* What the last row has at most, while it is open.  A line that has come  *)
(* out with its newline, or has been cut off, leaves none open.            *)
RowLength ==
    IF j = 0 THEN 0 ELSE IF isFold THEN j % Columns ELSE j

RowInv ==
    /\ more_pc # "killed" => Fits(out, Columns)
    /\ more_pc = "lines" => LastRow(out, IF inp.eof THEN Columns ELSE 0)
    /\ more_pc = "chars" =>
           LastRow(out, IF len = 0 THEN Columns ELSE IF j = len /\ ~inp.eof THEN 0 ELSE RowLength)
    /\ more_pc = "cut" => LastRow(out, Columns)

LEMMA EmptyOutput == \A w : Fits(<<>>, w) /\ LastRow(<<>>, w)
BY DEF Fits, LastRow

LEMMA Wider ==
    ASSUME NEW o \in Seq(Token), NEW n \in Nat, NEW w \in Nat, n <= w, LastRow(o, n)
    PROVE  LastRow(o, w)
<1>1. \A a \in DOMAIN o : a \in Int /\ Len(o) \in Int
  OBVIOUS
<1>2. \A a \in DOMAIN o : Cardinality(Row(o, a, Len(o))) \in Nat
  BY <1>1, RowIsFinite
<1>. QED BY <1>2 DEF LastRow

(* Before a character is printed there is room for it in its row.          *)
LEMMA Room ==
    ASSUME MoreTypeOK, LineInv, more_pc = "chars", j < len, Columns # 0
    PROVE  RowLength \in 0 .. Columns - 1
BY OptionTypes, Modulo DEF MoreTypeOK, LineInv, RowLength

(* The rows of the next state, told with the tokens' meaning in this one. *)
LEMMA NextRows ==
    ASSUME contents' = contents, Columns' = Columns,
           more_pc' # "killed" => Fits(out', Columns),
           more_pc' = "lines" => LastRow(out', IF inp'.eof THEN Columns ELSE 0),
           more_pc' = "chars" =>
               LastRow(out', IF len' = 0 THEN Columns ELSE IF j' = len' /\ ~inp'.eof THEN 0 ELSE RowLength'),
           more_pc' = "cut" => LastRow(out', Columns)
    PROVE  RowInv'
BY DEF RowInv, Fits, LastRow, Row, Open, EndsRow, RowLength

LEMMA RowsInit == MoreInit => RowInv
BY EmptyOutput DEF MoreInit, RowInv

(* The output after a character: q, and a row that is ended by hand.       *)
LEMMA PrintedChar ==
    ASSUME MoreTypeOK, LineInv, RowInv, PrintChar
    PROVE  \E q \in Seq(Token) :
              /\ q = Append(out, <<inp.read, j + 1>>)
              /\ out' = IF (j + 1) % Columns = 0 /\ isFold THEN Append(q, NewLine) ELSE q
              /\ Fits(q, Columns)
              /\ LastRow(q, RowLength + 1)
              /\ j + 1 = len /\ ~inp.eof => LastRow(q, 0)
<1>. DEFINE t == <<inp.read, j + 1>>
            q == Append(out, t)
<1>1. /\ more_pc = "chars" /\ j < len /\ Columns # 0
      /\ out' = out \o <<t>> \o (IF (j + 1) % Columns = 0 /\ isFold THEN <<NewLine>> ELSE <<>>)
  BY DEF PrintChar
<1>2. inp.read \in Nat /\ j + 1 \in Nat /\ Columns \in Nat /\ out \in Seq(Token)
  BY FileTypes, OptionTypes DEF MoreTypeOK
<1>3. t \in Token /\ NewLine \in Token /\ IsText(t)
  BY <1>2, Tokens DEF Token
<1>4. q \in Seq(Token) /\ q = out \o <<t>>
  BY <1>2, <1>3, AppendProperties, AppendIsConcat
<1>5. Append(q, NewLine) = q \o <<NewLine>> /\ q \o <<>> = q
  BY <1>3, <1>4, AppendIsConcat, ConcatEmptySeq
<1>6. out' = IF (j + 1) % Columns = 0 /\ isFold THEN Append(q, NewLine) ELSE q
  BY <1>1, <1>4, <1>5
<1>7. RowLength \in 0 .. Columns - 1 /\ RowLength \in Nat /\ RowLength < Columns /\ RowLength <= Columns
  BY <1>1, <1>2, Room
<1>8. Fits(out, Columns) /\ LastRow(out, RowLength)
  BY <1>1 DEF RowInv, MoreTypeOK
<1>9. /\ Fits(q, Columns)
      /\ LastRow(q, RowLength + 1)
      /\ EndsRow(t) => LastRow(q, 0)
  <2>. HIDE DEF t
  <2>. QED BY <1>2, <1>3, <1>7, <1>8, RowGrows
<1>10. j + 1 = len /\ ~inp.eof => EndsRow(t)
  <2>. SUFFICES ASSUME j + 1 = len, ~inp.eof PROVE EndsRow(t)
    OBVIOUS
  <2>1. inp.read \in 1 .. Lines /\ len = LengthOf(inp.read) /\ (inp.read < Lines \/ contents.ended)
    BY <1>1, FileTypes DEF LineInv, MoreTypeOK
  <2>2. t[1] = inp.read /\ t[2] = contents.text[inp.read] + 1 /\ contents.text[inp.read] \in Nat
    BY <2>1, FileTypes DEF LengthOf, MoreTypeOK
  <2>. QED BY <1>3, <2>2 DEF EndsRow
<1>. HIDE DEF t
<1>. QED BY <1>4, <1>6, <1>9, <1>10 DEF t

(* A newline printed ends the row.                                         *)
LEMMA NewLineEnds ==
    ASSUME NEW o \in Seq(Token), NEW w \in Nat, NEW n \in 0 .. w, Fits(o, w), LastRow(o, n)
    PROVE  Fits(Append(o, NewLine), w) /\ LastRow(Append(o, NewLine), 0)
<1>1. NewLine \in Token /\ ~IsText(NewLine) /\ EndsRow(NewLine)
  BY Tokens DEF Token, EndsRow
<1>. QED BY <1>1, RowGrows

LEMMA RowsStep == MoreTypeOK /\ LineInv /\ RowInv /\ [MoreNext]_moreVars => RowInv'
<1>. SUFFICES ASSUME MoreTypeOK, LineInv, RowInv, [MoreNext]_moreVars PROVE RowInv'
  OBVIOUS
<1>0. contents' = contents /\ Columns \in Nat /\ out \in Seq(Token) /\ j \in Nat /\ len \in Nat
  BY OptionTypes DEF MoreNext, ParseNumber, ParseSwitch, ParseError, CannotOpen, SkipLines, GetLine, PrintChar,
         DivideByZero, EndLine, EndOfFile, moreVars, MoreTypeOK
<1>1. CASE UNCHANGED moreVars
  BY <1>1, OptionsStay DEF moreVars, RowInv, Fits, LastRow, Row, Open, EndsRow, RowLength
<1>2. CASE ParseNumber \/ ParseSwitch \/ ParseError \/ CannotOpen \/ SkipLines
  <2>1. out' = <<>> /\ more_pc' \in {"options", "error", "unopened", "lines"}
    BY <1>2 DEF ParseNumber, ParseSwitch, ParseError, CannotOpen, SkipLines, LineInv
  <2>2. \A w : Fits(<<>>, w)' /\ LastRow(<<>>, w)'
    BY DEF Fits, LastRow
  <2>. QED BY <2>1, <2>2 DEF RowInv
<1>3. CASE GetLine
  <2>1. /\ more_pc = "lines" /\ ~inp.eof /\ more_pc' = "chars" /\ j' = 0 /\ Columns' = Columns
        /\ out' = IF isShowNumbers THEN Append(out, Number(i)) ELSE out
        /\ len' \in Nat
    BY <1>3, TypesStep, OptionsStay DEF GetLine, options, MoreTypeOK
  <2>2. Fits(out, Columns) /\ LastRow(out, 0)
    BY <2>1 DEF RowInv
  <2>3. Number(i) \in Token /\ ~IsText(Number(i))
    BY Tokens DEF MoreTypeOK, Token
  <2>4. Fits(Append(out, Number(i)), Columns) /\ LastRow(Append(out, Number(i)), 0)
    BY <1>0, <2>2, <2>3, RowGrows
  <2>5. out' \in Seq(Token) /\ Fits(out', Columns) /\ LastRow(out', 0)
    BY <1>0, <2>1, <2>2, <2>3, <2>4, AppendProperties
  <2>6. LastRow(out', Columns)
    BY <1>0, <2>5, Wider
  <2>7. RowLength' = 0
    BY <2>1 DEF RowLength
  <2>. QED BY <1>0, <2>1, <2>5, <2>6, <2>7, NextRows
<1>4. CASE PrintChar
  <2>1. PICK q \in Seq(Token) :
              /\ q = Append(out, <<inp.read, j + 1>>)
              /\ out' = IF (j + 1) % Columns = 0 /\ isFold THEN Append(q, NewLine) ELSE q
              /\ Fits(q, Columns)
              /\ LastRow(q, RowLength + 1)
              /\ j + 1 = len /\ ~inp.eof => LastRow(q, 0)
    BY <1>4, PrintedChar
  <2>2. /\ more_pc = "chars" /\ j < len /\ Columns # 0 /\ Columns' = Columns
        /\ isFold' = isFold /\ inp' = inp /\ len' = len
        /\ IF (j + 1) % Columns = 0 /\ ~isFold
           THEN more_pc' = "cut" /\ j' = j
           ELSE more_pc' = "chars" /\ j' = j + 1
    BY <1>4, OptionsStay DEF PrintChar, options
  <2>3. RowLength \in 0 .. Columns - 1 /\ RowLength + 1 \in Nat /\ RowLength + 1 <= Columns
    BY <1>0, <2>2, Room
  <2>4. (j + 1) % Columns = IF j % Columns = Columns - 1 THEN 0 ELSE (j % Columns) + 1
    BY <1>0, <2>2, Modulo
  <2>5. CASE (j + 1) % Columns = 0 /\ isFold
    <3>1. Fits(out', Columns) /\ LastRow(out', 0)
      <4>1. RowLength + 1 \in 0 .. Columns
        BY <2>3
      <4>2. out' = Append(q, NewLine)
        BY <2>1, <2>5
      <4>. QED BY <1>0, <2>1, <4>1, <4>2, NewLineEnds
    <3>2. RowLength' = 0
      BY <2>2, <2>5 DEF RowLength
    <3>. QED BY <1>0, <2>2, <2>5, <3>1, <3>2, NextRows
  <2>6. CASE (j + 1) % Columns = 0 /\ ~isFold
    <3>1. LastRow(q, Columns)
      BY <1>0, <2>1, <2>3, Wider
    <3>. QED BY <1>0, <2>1, <2>2, <2>6, <3>1, NextRows
  <2>7. CASE (j + 1) % Columns # 0
    <3>1. out' = q /\ more_pc' = "chars" /\ j' = j + 1
      BY <2>1, <2>2, <2>7
    <3>2. RowLength' = RowLength + 1
      <4>1. (isFold => RowLength = j % Columns) /\ (~isFold => RowLength = j)
        BY <1>0, <2>2, Modulo DEF RowLength
      <4>2. RowLength' = IF isFold THEN (j + 1) % Columns ELSE j + 1
        BY <1>0, <2>2, <3>1 DEF RowLength
      <4>. QED BY <2>4, <2>7, <4>1, <4>2
    <3>. QED BY <1>0, <2>1, <2>2, <3>1, <3>2, NextRows
  <2>. QED BY <2>5, <2>6, <2>7
<1>5. CASE EndLine
  <2>1. /\ more_pc = "cut" \/ (more_pc = "chars" /\ j = len)
        /\ out' = IF j < len THEN Append(out, NewLine) ELSE out
        /\ more_pc' = "lines" /\ Columns' = Columns /\ inp' = inp
    BY <1>5, OptionsStay DEF EndLine, options
  <2>2. Fits(out, Columns)
    BY <2>1 DEF RowInv
  <2>3. CASE more_pc = "cut"
    <3>1. LastRow(out, Columns) /\ j < len
      BY <2>3 DEF RowInv, LineInv
    <3>2. Fits(out', Columns) /\ LastRow(out', 0) /\ out' \in Seq(Token)
      <4>1. NewLine \in Token
        BY DEF Token
      <4>. QED BY <1>0, <2>1, <2>2, <3>1, <4>1, NewLineEnds, AppendProperties
    <3>3. LastRow(out', Columns)
      BY <1>0, <3>2, Wider
    <3>. QED BY <1>0, <2>1, <3>2, <3>3, NextRows
  <2>4. CASE more_pc = "chars" /\ j = len
    <3>1. out' = out
      BY <1>0, <2>1, <2>4
    <3>2. LastRow(out, IF inp.eof THEN Columns ELSE 0)
      <4>1. CASE len = 0
        BY <2>4, <4>1 DEF RowInv, LineInv
      <4>2. CASE len # 0 /\ ~inp.eof
        BY <2>4, <4>2 DEF RowInv
      <4>3. CASE len # 0 /\ inp.eof
        <5>1. LastRow(out, RowLength)
          BY <2>4, <4>3 DEF RowInv
        <5>2. RowLength \in Nat /\ RowLength <= Columns
          BY <1>0, <2>4, <4>3, Modulo DEF RowLength, LineInv
        <5>. QED BY <1>0, <4>3, <5>1, <5>2, Wider
      <4>. QED BY <4>1, <4>2, <4>3
    <3>. QED BY <1>0, <2>1, <2>2, <3>1, <3>2, NextRows
  <2>. QED BY <2>1, <2>3, <2>4
<1>6. CASE DivideByZero
  BY <1>6 DEF DivideByZero, RowInv
<1>7. CASE EndOfFile
  <2>1. more_pc = "lines" /\ more_pc' = "done" /\ out' = out /\ Columns' = Columns
    BY <1>7, OptionsStay DEF EndOfFile, options
  <2>2. Fits(out, Columns)
    BY <2>1 DEF RowInv
  <2>. QED BY <1>0, <2>1, <2>2, NextRows
<1>. QED BY <1>1, <1>2, <1>3, <1>4, <1>5, <1>6, <1>7 DEF MoreNext

(* more/main.c:74-82.  Whatever the file, the options and the numbers that *)
(* atoi() makes of them, negative ones included, no row printed has more   *)
(* characters than the absolute value of the width, line numbers aside.    *)
THEOREM RowsAlwaysFit == MoreSpec => []RowsFit
<1>1. RowInv => RowsFit
  BY DEF RowInv, RowsFit, Fits, Open, Row, InRow
<1>. QED BY <1>1, MoreTypes, TypesStep, RowsInit, RowsStep, PTL DEF MoreSpec

----------------------------------------------------------------------------
(* Text.                                                                   *)

(* What has come out of a line that has been read.                         *)
Shown(line) == IF line = inp.read /\ more_pc = "chars" /\ len > 0 THEN 1 .. j ELSE Visible(line)
CameOut == {c \in (Skipped + 1 .. inp.read) \X Nat : c[2] \in Shown(c[1])}

TextInv ==
    /\ Sorted(out)
    /\ more_pc \in {"lines", "chars", "cut", "done"} => Printed(out) = CameOut

LEMMA NothingPrinted == Sorted(<<>>) /\ Printed(<<>>) = {} /\ TextOf(<<>>) = {}
BY DEF Sorted, Printed, TextOf

(* A line number or a newline that printFile() adds.                       *)
LEMMA NoText ==
    ASSUME NEW o \in Seq(Token), NEW t \in Token, ~IsText(t), Sorted(o)
    PROVE  Sorted(Append(o, t)) /\ Printed(Append(o, t)) = Printed(o)
BY TokenAdded

(* The next character comes after all the others.                          *)
LEMMA CharacterAdded ==
    ASSUME MoreTypeOK, LineInv, TextInv, more_pc = "chars", j < len
    PROVE  LET t == <<inp.read, j + 1>>
               q == Append(out, t)
           IN  t \in Token /\ q \in Seq(Token) /\ Sorted(q) /\ Printed(q) = CameOut \cup {t}
<1>. DEFINE t == <<inp.read, j + 1>>
<1>1. /\ inp.read \in Nat /\ j \in Nat /\ Skipped \in Nat /\ out \in Seq(Token)
      /\ Sorted(out) /\ Printed(out) = CameOut /\ len > 0
  BY FileTypes, OptionTypes DEF MoreTypeOK, TextInv
<1>2. t \in Token
  BY <1>1 DEF Token
<1>3. ASSUME NEW c \in CameOut PROVE Before(c, t)
  <2>1. c[1] \in Skipped + 1 .. inp.read /\ c[2] \in Nat /\ c[2] \in Shown(c[1])
    BY <1>3 DEF CameOut
  <2>2. CASE c[1] = inp.read
    BY <1>1, <2>1, <2>2 DEF Shown, Before
  <2>3. CASE c[1] # inp.read
    BY <1>1, <2>1, <2>3 DEF Before
  <2>. QED BY <2>2, <2>3
<1>4. IsText(t)
  BY <1>1, Tokens
<1>. HIDE DEF t
<1>5. Append(out, t) \in Seq(Token) /\ Sorted(Append(out, t)) /\ Printed(Append(out, t)) = CameOut \cup {t}
  BY <1>1, <1>2, <1>3, <1>4, TokenAdded
<1>. QED BY <1>2, <1>5 DEF t

LEMMA TextStep == MoreTypeOK /\ LineInv /\ TextInv /\ [MoreNext]_moreVars => TextInv'
<1>. SUFFICES ASSUME MoreTypeOK, LineInv, TextInv, [MoreNext]_moreVars PROVE TextInv'
  OBVIOUS
<1>0. MoreTypeOK' /\ LineInv'
  BY TypesStep
<1>a. /\ contents' = contents /\ Lines' = Lines /\ contents \in Files
      /\ Lines \in Nat /\ inp.read \in 0 .. Lines /\ Skipped \in Nat /\ Columns \in Nat
      /\ j \in 0 .. len /\ len \in Nat /\ out \in Seq(Token) /\ isFold \in BOOLEAN
  BY FileTypes, OptionTypes DEF MoreNext, ParseNumber, ParseSwitch, ParseError, CannotOpen, SkipLines, GetLine, PrintChar, DivideByZero,
         EndLine, EndOfFile, moreVars, Lines, MoreTypeOK
<1>1. CASE UNCHANGED moreVars
  <2>1. Sorted(out)' = Sorted(out) /\ Printed(out)' = Printed(out)
    BY <1>1 DEF moreVars, Sorted, Printed, TextOf, IsText, Before
  <2>2. \A line : Shown(line)' = Shown(line)
    BY <1>1, OptionsStay DEF moreVars, Shown, Visible, LengthOf, Lines
  <2>3. CameOut' = CameOut
    BY <1>1, <2>2, OptionsStay DEF moreVars, CameOut
  <2>. QED BY <1>1, <2>1, <2>3 DEF moreVars, TextInv
<1>2. CASE ParseNumber \/ ParseSwitch \/ ParseError \/ CannotOpen
  <2>1. out' = <<>> /\ more_pc' \notin {"lines", "chars", "cut", "done"}
    BY <1>2 DEF ParseNumber, ParseSwitch, ParseError, CannotOpen, LineInv
  <2>. QED BY <2>1, NothingPrinted DEF TextInv, Sorted, TextOf
<1>3. CASE SkipLines
  <2>1. out' = <<>> /\ more_pc' = "lines" /\ Skipped' = Skipped /\ inp'.read <= Skipped /\ inp'.read \in Nat
    <3>1. out' = <<>> /\ more_pc' = "lines" /\ Skipped' = Skipped /\ inp'.read = Min({Skipped, Lines})
      BY <1>3, OptionsStay DEF SkipLines, LineInv, options
    <3>. QED BY <1>a, <3>1, FirstOfTwo
  <2>2. Skipped' + 1 .. inp'.read = {}
    BY <1>a, <2>1
  <2>3. CameOut' = {}
    BY <2>2 DEF CameOut
  <2>4. Sorted(out)' /\ Printed(out)' = {}
    BY <2>1 DEF Sorted, Printed, TextOf
  <2>. QED BY <2>3, <2>4 DEF TextInv
<1>. DEFINE Rest == UNCHANGED <<Skipped, isFold, Columns, contents>>
<1>b. Rest => \A line : Visible(line)' = Visible(line)
  BY <1>a DEF Visible, LengthOf
<1>c. Sorted(out)' = Sorted(out') /\ Printed(out)' = Printed(out')
  BY DEF Sorted, Printed, TextOf, IsText, Before
<1>4. CASE GetLine
  <2>1. /\ more_pc = "lines" /\ ~inp.eof /\ more_pc' = "chars" /\ j' = 0 /\ Rest
        /\ out' = IF isShowNumbers THEN Append(out, Number(i)) ELSE out
    BY <1>4, <1>a, OptionsStay DEF GetLine, options
  <2>2. Sorted(out') /\ Printed(out') = CameOut
    <3>1. Number(i) \in Token /\ ~IsText(Number(i))
      BY Tokens DEF MoreTypeOK, Token
    <3>. QED BY <1>a, <2>1, <3>1, NoText DEF TextInv
  <2>3. CameOut' = CameOut
    <3>1. CASE inp.read < Lines
      <4>1. inp'.read = inp.read + 1 /\ inp.read + 1 \in 1 .. Lines /\ len' = LengthOf(inp.read + 1) /\ len' \in Nat
        BY <1>4, <1>a, <1>0, <3>1 DEF GetLine, MoreTypeOK
      <4>2. \A line \in Skipped + 1 .. inp.read : Shown(line)' = Visible(line) /\ Shown(line) = Visible(line)
        <5>1. \A line \in Skipped + 1 .. inp.read : line # inp'.read
          BY <1>a, <4>1
        <5>. QED BY <1>b, <2>1, <5>1 DEF Shown
      <4>3. Shown(inp.read)' = {}
        <5>1. CASE len' = 0
          <6>1. Visible(inp.read)' = Visible(inp.read + 1) /\ Visible(inp.read + 1) = {}
            BY <1>a, <2>1, <4>1, <5>1 DEF Visible, LengthOf
          <6>. QED BY <2>1, <5>1, <6>1 DEF Shown
        <5>2. CASE len' > 0
          BY <2>1, <4>1, <5>2 DEF Shown
        <5>. QED BY <4>1, <5>1, <5>2
      <4>4. ASSUME NEW line \in Skipped + 1 .. inp.read + 1
            PROVE  line = inp.read + 1 \/ line \in Skipped + 1 .. inp.read
        BY <1>a
      <4>5. \A c \in (Skipped + 1 .. inp.read + 1) \X Nat :
                c[2] \in Shown(c[1])' <=> c[1] # inp.read + 1 /\ c[2] \in Shown(c[1])
        <5>2. \A line : line = inp'.read => Shown(line)' = {}
          BY <4>3 DEF Shown, Visible, LengthOf, Lines
        <5>. QED BY <4>1, <4>2, <4>4, <5>2
      <4>6. CameOut' = {c \in (Skipped + 1 .. inp.read + 1) \X Nat : c[2] \in Shown(c[1])'}
        BY <2>1, <4>1 DEF CameOut
      <4>. QED BY <1>a, <4>4, <4>5, <4>6 DEF CameOut
    <3>2. CASE ~(inp.read < Lines)
      <4>1. inp'.read = inp.read /\ len' = 0
        BY <1>4, <1>a, <3>2 DEF GetLine, MoreTypeOK
      <4>2. \A line : Shown(line)' = Shown(line)
        BY <1>b, <2>1, <4>1 DEF Shown
      <4>. QED BY <2>1, <4>1, <4>2 DEF CameOut
    <3>. QED BY <3>1, <3>2
  <2>. QED BY <1>c, <2>1, <2>2, <2>3 DEF TextInv
<1>5. CASE PrintChar
  <2>. DEFINE t == <<inp.read, j + 1>>
              q == Append(out, t)
  <2>1. /\ more_pc = "chars" /\ j < len /\ Rest /\ inp' = inp /\ len' = len
        /\ out' = out \o <<t>> \o (IF (j + 1) % Columns = 0 /\ isFold THEN <<NewLine>> ELSE <<>>)
        /\ \/ more_pc' = "cut" /\ j' = j
           \/ more_pc' = "chars" /\ j' = j + 1
    BY <1>5, <1>a, OptionsStay DEF PrintChar, options
  <2>2. t \in Token /\ q \in Seq(Token) /\ Sorted(q) /\ Printed(q) = CameOut \cup {t}
    BY <2>1, CharacterAdded
  <2>3. q = out \o <<t>> /\ q \o <<>> = q /\ Append(q, NewLine) = q \o <<NewLine>>
    <3>1. q = out \o <<t>>
      <4>. HIDE DEF t
      <4>. QED BY <1>a, <2>2, AppendIsConcat
    <3>2. q \o <<>> = q /\ Append(q, NewLine) = q \o <<NewLine>>
      <4>1. NewLine \in Token
        BY DEF Token
      <4>. HIDE DEF q
      <4>. QED BY <2>2, <4>1, AppendIsConcat, ConcatEmptySeq
    <3>. QED BY <3>1, <3>2
  <2>4. Sorted(out') /\ Printed(out') = CameOut \cup {t}
    <3>1. NewLine \in Token /\ ~IsText(NewLine)
      BY Tokens DEF Token
    <3>2. out' = q \/ out' = Append(q, NewLine)
      BY <2>1, <2>3
    <3>3. Sorted(Append(q, NewLine)) /\ Printed(Append(q, NewLine)) = Printed(q)
      <4>. HIDE DEF q
      <4>. QED BY <2>2, <3>1, NoText
    <3>. QED BY <2>2, <3>2, <3>3
  <2>5. CameOut' = CameOut \cup {t}
    <3>1. inp.read \in 1 .. Lines /\ inp.read > Skipped /\ len = LengthOf(inp.read) /\ len > 0
      BY <1>a, <2>1 DEF LineInv
    <3>2. Shown(inp.read) = 1 .. j
      BY <2>1, <3>1 DEF Shown
    <3>3. Shown(inp.read)' = 1 .. j + 1
      <4>1. CASE more_pc' = "cut"
        <5>1. ~isFold /\ Columns = j + 1
          BY <1>0, <2>1, <4>1 DEF LineInv
        <5>2. Visible(inp.read) = 1 .. j + 1
          BY <1>a, <2>1, <3>1, <5>1 DEF Visible
        <5>. QED BY <1>b, <2>1, <4>1, <5>2 DEF Shown
      <4>2. CASE more_pc' = "chars"
        BY <2>1, <3>1, <4>2 DEF Shown
      <4>. QED BY <2>1, <4>1, <4>2
    <3>4. \A line : line # inp.read => Shown(line)' = Shown(line)
      BY <1>b, <2>1 DEF Shown
    <3>5. Skipped' = Skipped /\ inp'.read = inp.read
      BY <2>1
    <3>6. ASSUME NEW c \in (Skipped + 1 .. inp.read) \X Nat
          PROVE  c[2] \in Shown(c[1])' <=> (c[2] \in Shown(c[1]) \/ c = t)
      <4>1. CASE c[1] = inp.read
        <5>1. c = t <=> c[2] = j + 1
          BY <4>1
        <5>2. Shown(c[1])' = 1 .. j + 1 /\ Shown(c[1]) = 1 .. j
          BY <3>2, <3>3, <4>1, <2>1 DEF Shown, Visible, LengthOf, Lines
        <5>. QED BY <1>a, <5>1, <5>2
      <4>2. CASE c[1] # inp.read
        BY <3>4, <4>2
      <4>. QED BY <4>1, <4>2
    <3>7. t \in (Skipped + 1 .. inp.read) \X Nat
      BY <1>a, <3>1
    <3>. HIDE DEF t
    <3>. QED BY <3>5, <3>6, <3>7 DEF CameOut
  <2>. QED BY <1>c, <2>4, <2>5 DEF TextInv
<1>6. CASE DivideByZero
  <2>. DEFINE q == Append(out, <<inp.read, j + 1>>)
  <2>1. more_pc = "chars" /\ j < len /\ out' = q /\ more_pc' = "killed"
    BY <1>6 DEF DivideByZero
  <2>2. Sorted(q)
    BY <2>1, CharacterAdded
  <2>. QED BY <1>c, <2>1, <2>2 DEF TextInv
<1>7. CASE EndLine
  <2>1. /\ more_pc = "cut" \/ (more_pc = "chars" /\ j = len)
        /\ out' = IF j < len THEN Append(out, NewLine) ELSE out
        /\ more_pc' = "lines" /\ Rest /\ inp' = inp
    BY <1>7, <1>a, OptionsStay DEF EndLine, options
  <2>2. Sorted(out') /\ Printed(out') = CameOut
    <3>1. NewLine \in Token /\ ~IsText(NewLine)
      BY Tokens DEF Token
    <3>. QED BY <1>a, <2>1, <3>1, NoText DEF TextInv
  <2>3. \A line : Shown(line)' = Shown(line)
    <3>1. CASE more_pc = "cut" \/ len = 0
      BY <1>b, <2>1, <3>1 DEF Shown
    <3>2. CASE more_pc = "chars" /\ j = len /\ len # 0
      <4>1. len = LengthOf(inp.read) /\ (isFold \/ j < Columns)
        BY <3>2 DEF LineInv
      <4>2. Visible(inp.read) = 1 .. j
        BY <1>a, <3>2, <4>1 DEF Visible
      <4>. QED BY <1>a, <1>b, <2>1, <3>2, <4>2 DEF Shown
    <3>. QED BY <2>1, <3>1, <3>2
  <2>4. CameOut' = CameOut
    BY <2>1, <2>3 DEF CameOut
  <2>. QED BY <1>c, <2>1, <2>2, <2>4 DEF TextInv
<1>8. CASE EndOfFile
  <2>1. more_pc = "lines" /\ more_pc' = "done" /\ out' = out /\ Rest /\ inp' = inp
    BY <1>8, <1>a, OptionsStay DEF EndOfFile, options
  <2>2. \A line : Shown(line)' = Shown(line)
    BY <1>b, <2>1 DEF Shown
  <2>3. CameOut' = CameOut
    BY <2>1, <2>2 DEF CameOut
  <2>. QED BY <1>c, <2>1, <2>3 DEF TextInv
<1>. QED BY <1>1, <1>2, <1>3, <1>4, <1>5, <1>6, <1>7, <1>8 DEF MoreNext

(* more/main.c:72-79.  Whatever the file and the options, the text that    *)
(* comes out is in the order of the file, and in the end it is what the    *)
(* options let through of every line after those skipped.                  *)
THEOREM TextIsKept == MoreSpec => []KeepsText
<1>1. MoreInit => TextInv
  BY NothingPrinted DEF MoreInit, TextInv
<1>2. MoreTypeOK /\ LineInv /\ TextInv => KeepsText
  <2>. SUFFICES ASSUME MoreTypeOK, LineInv, TextInv PROVE KeepsText
    OBVIOUS
  <2>1. \A a, b \in Texts : a < b => Before(out[a], out[b])
    BY DEF TextInv, Sorted, TextOf, Texts
  <2>2. ASSUME more_pc = "done"
        PROVE  {out[k] : k \in Texts} = UNION {{line} \X Visible(line) : line \in Skipped + 1 .. Lines}
    <3>1. inp.read = Lines /\ Printed(out) = CameOut /\ \A line : Shown(line) = Visible(line)
      BY <2>2 DEF LineInv, TextInv, Shown
    <3>2. {out[k] : k \in Texts} = CameOut
      BY <3>1 DEF Printed, TextOf, Texts
    <3>3. CameOut = {c \in (Skipped + 1 .. Lines) \X Nat : c[2] \in Visible(c[1])}
      BY <3>1 DEF CameOut
    <3>4. \A line : \A p \in Visible(line) : p \in Nat
      BY DEF Visible
    <3>. QED BY <3>2, <3>3, <3>4
  <2>. QED BY <2>1, <2>2 DEF KeepsText
<1>. QED BY <1>1, <1>2, MoreTypes, TypesStep, TextStep, PTL DEF MoreSpec
=============================================================================
