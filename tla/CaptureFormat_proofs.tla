------------------------ MODULE CaptureFormat_proofs ------------------------
(***************************************************************************)
(* What the frames of CaptureFormat can hold: facts both capture programs  *)
(* rest on.                                                                *)
(***************************************************************************)
EXTENDS CaptureFormat, Recursion, TLAPS

(* What the fields of any frame are.                                       *)
LEMMA FrameFields ==
    ASSUME NEW fr \in Frames
    PROVE  /\ fr.filename \in Files \cup {NoFile}
           /\ fr.fragment_count \in Nat
           /\ fr.fragment_index \in Nat
           /\ fr.fragment_size \in Nat
           /\ fr.data \in {"intact", "garbled"}
<1>1. CASE fr = StrayFrame
    BY <1>1 DEF StrayFrame
<1>2. CASE fr \in SenderFrames
    <2>1. PICK f \in Files :
              \E i \in SentIndices(f), d \in {"intact", "garbled"} :
                  fr = SenderFrame(f, i, d)
        BY <1>2 DEF SenderFrames
    <2>2. PICK i \in SentIndices(f), d \in {"intact", "garbled"} :
              fr = SenderFrame(f, i, d)
        BY <2>1
    <2>3. fragment_count[f] \in Nat /\ fragment_size[f][i] \in Nat /\ i \in Nat
        BY GeometryAssumption DEF SentIndices
    <2>. QED
        BY <2>2, <2>3 DEF SenderFrame
<1>. QED
    BY <1>1, <1>2 DEF Frames

(* A frame whose index is in its own range came from a sender: it holds    *)
(* that fragment of that file, and is not empty.                           *)
LEMMA IndexedFrame ==
    ASSUME NEW fr \in Frames, fr.fragment_index \in 1 .. fr.fragment_count
    PROVE  \E f \in Files :
              /\ fr.filename = f
              /\ fr.fragment_count = fragment_count[f]
              /\ fr.fragment_index \in 1 .. fragment_count[f]
              /\ fr.fragment_size = fragment_size[f][fr.fragment_index]
              /\ fr.fragment_size \in Nat \ {0}
              /\ fr.ret = Received(fr.fragment_size)
<1>1. fr # StrayFrame
    BY DEF StrayFrame
<1>2. PICK f \in Files :
          \E i \in SentIndices(f), d \in {"intact", "garbled"} :
              fr = SenderFrame(f, i, d)
    BY <1>1 DEF Frames, SenderFrames
<1>3. PICK i \in SentIndices(f), d \in {"intact", "garbled"} :
          fr = SenderFrame(f, i, d)
    BY <1>2
<1>4. fragment_size[f][i] \in Nat \ {0} /\ i \in 1 .. fragment_count[f]
    BY GeometryAssumption DEF SentIndices
<1>. QED
    BY <1>3, <1>4 DEF SenderFrame

LEMMA PayloadType ==
    ASSUME NEW fr \in Frames
    PROVE  Payload(fr) \in Payloads
BY FrameFields DEF Payload, Payloads

LEMMA NullPayload == NULL \in Payloads
BY DEF NULL, Payloads

(* A stored payload is never mistaken for an empty slot.                   *)
LEMMA StoredNotNull ==
    ASSUME NEW fr \in Frames, fr.fragment_index > 0
    PROVE  Payload(fr) # NULL
BY FrameFields DEF Payload, NULL

----------------------------------------------------------------------------
(* Adding up a table of sizes.                                             *)

(* The sums that TotalOf goes through.                                     *)
LEMMA TotalSteps ==
    ASSUME NEW n \in Nat, NEW s \in [1 .. n -> Nat]
    PROVE  \E f \in [0 .. n -> Nat] :
              /\ f[0] = 0
              /\ \A k \in 0 .. n - 1 : f[k + 1] = f[k] + s[k + 1]
              /\ TotalOf(s, n) = f[n]
<1>. DEFINE Eq(g) == g = [k \in 0 .. n |-> IF k = 0 THEN 0 ELSE g[k - 1] + s[k]]
            F == [k \in Nat |-> [v \in Nat |-> IF k < n THEN v + s[k + 1] ELSE v]]
            g == CHOOSE g : Eq(g)
<1>1. F \in [Nat -> [Nat -> Nat]]
    <2>. SUFFICES ASSUME NEW k \in Nat, NEW v \in Nat
                  PROVE  (IF k < n THEN v + s[k + 1] ELSE v) \in Nat
        OBVIOUS
    <2>1. k < n => k + 1 \in 1 .. n
        OBVIOUS
    <2>. QED
        BY <2>1
<1>2. PICK e : Iterates(e, Nat, 0, F)
    <2>. HIDE DEF F
    <2>. QED
        BY <1>1, SequenceExists
<1>3. e \in [Nat -> Nat] /\ e[0] = 0 /\ \A k \in 0 .. n - 1 : e[k + 1] = e[k] + s[k + 1]
    <2>1. e \in [Nat -> Nat] /\ e[0] = 0 /\ \A k \in Nat : e[k + 1] = F[k][e[k]]
        <3>. HIDE DEF F
        <3>. QED
            BY <1>2 DEF Iterates
    <2>2. ASSUME NEW k \in 0 .. n - 1 PROVE e[k + 1] = e[k] + s[k + 1]
        <3>1. k \in Nat /\ k < n /\ e[k] \in Nat
            BY <2>1
        <3>2. F[k][e[k]] = e[k] + s[k + 1]
            BY <3>1
        <3>. HIDE DEF F
        <3>. QED
            BY <2>1, <3>1, <3>2
    <2>. QED
        BY <2>1, <2>2
<1>. DEFINE f == [k \in 0 .. n |-> e[k]]
<1>4. Eq(f)
    <2>. SUFFICES ASSUME NEW k \in 0 .. n, k # 0 PROVE e[k] = f[k - 1] + s[k]
        BY <1>3
    <2>1. k - 1 \in 0 .. n - 1 /\ k - 1 \in 0 .. n /\ (k - 1) + 1 = k
        OBVIOUS
    <2>. QED
        BY <1>3, <2>1
<1>5. Eq(g)
    <2>. HIDE DEF Eq, f
    <2>. QED
        BY <1>4
<1>6. TotalOf(s, n) = g[n]
    BY DEF TotalOf
<1>. HIDE DEF g
<1>7. g[0] = 0 /\ \A k \in 0 .. n - 1 : g[k + 1] = g[k] + s[k + 1]
    <2>1. g[0] = 0
        BY <1>5
    <2>2. ASSUME NEW k \in 0 .. n - 1 PROVE g[k + 1] = g[k] + s[k + 1]
        <3>1. k + 1 \in 0 .. n /\ k + 1 # 0 /\ (k + 1) - 1 = k
            OBVIOUS
        <3>. QED
            BY <1>5, <3>1
    <2>. QED
        BY <2>1, <2>2
<1>8. \A k \in 0 .. n : g[k] \in Nat
    <2>. DEFINE P == {k \in Nat : k <= n => g[k] \in Nat}
    <2>1. 0 \in P
        BY <1>7
    <2>2. ASSUME NEW k \in Nat, k \in P PROVE k + 1 \in P
        <3>1. CASE k + 1 <= n
            <4>1. k \in 0 .. n - 1 /\ k + 1 \in 1 .. n /\ k <= n
                BY <3>1
            <4>2. g[k + 1] = g[k] + s[k + 1] /\ s[k + 1] \in Nat /\ g[k] \in Nat
                BY <1>7, <2>2, <4>1
            <4>. QED
                BY <4>2
        <3>. QED
            BY <3>1
    <2>3. \A k \in Nat : k \in P
        <3>. HIDE DEF P
        <3>. QED
            BY <2>1, <2>2, Induction
    <2>. QED
        BY <2>3
<1>9. g \in [0 .. n -> Nat]
    BY <1>5, <1>8
<1>. QED
    BY <1>6, <1>7, <1>9

LEMMA TotalIsNat ==
    ASSUME NEW n \in Nat, NEW s \in [1 .. n -> Nat]
    PROVE  TotalOf(s, n) \in Nat
BY TotalSteps

(* Nothing received adds up to nothing.                                    *)
LEMMA TotalOfNothing ==
    ASSUME NEW n \in Nat, NEW s \in [1 .. n -> Nat], \A k \in 1 .. n : s[k] = 0
    PROVE  TotalOf(s, n) = 0
<1>1. PICK f \in [0 .. n -> Nat] :
              /\ f[0] = 0
              /\ \A k \in 0 .. n - 1 : f[k + 1] = f[k] + s[k + 1]
              /\ TotalOf(s, n) = f[n]
    BY TotalSteps
<1>. DEFINE P == {k \in Nat : k <= n => f[k] = 0}
<1>2. 0 \in P
    BY <1>1
<1>3. ASSUME NEW k \in Nat, k \in P PROVE k + 1 \in P
    <2>1. CASE k + 1 <= n
        <3>1. k \in 0 .. n - 1 /\ k + 1 \in 1 .. n /\ k <= n
            BY <2>1
        <3>2. f[k + 1] = f[k] + s[k + 1] /\ s[k + 1] = 0 /\ f[k] = 0
            BY <1>1, <1>3, <3>1
        <3>. QED
            BY <3>2
    <2>. QED
        BY <2>1
<1>4. n \in P
    <2>. HIDE DEF P
    <2>. QED
        BY <1>2, <1>3, Induction
<1>. QED
    BY <1>1, <1>4

(* The arithmetic of the step below, away from its functions.              *)
LEMMA SumInAnyOrder ==
    \A u, v, w \in Nat : (u + v) + w = (u + w) + v
OBVIOUS

(* An entry filled in adds its size to the total.                          *)
LEMMA TotalGrows ==
    ASSUME NEW n \in Nat, NEW s \in [1 .. n -> Nat], NEW t \in [1 .. n -> Nat],
           NEW x \in 1 .. n, s[x] = 0, \A k \in 1 .. n : k # x => t[k] = s[k]
    PROVE  TotalOf(t, n) = TotalOf(s, n) + t[x]
<1>1. PICK f \in [0 .. n -> Nat] :
              /\ f[0] = 0
              /\ \A k \in 0 .. n - 1 : f[k + 1] = f[k] + s[k + 1]
              /\ TotalOf(s, n) = f[n]
    BY TotalSteps
<1>2. PICK g \in [0 .. n -> Nat] :
              /\ g[0] = 0
              /\ \A k \in 0 .. n - 1 : g[k + 1] = g[k] + t[k + 1]
              /\ TotalOf(t, n) = g[n]
    BY TotalSteps
<1>. DEFINE P == {k \in Nat : k <= n => g[k] = f[k] + (IF k >= x THEN t[x] ELSE 0)}
<1>3. 0 \in P
    BY <1>1, <1>2
<1>4. ASSUME NEW k \in Nat, k \in P PROVE k + 1 \in P
    <2>1. CASE k + 1 <= n
        <3>1. k \in 0 .. n - 1 /\ k + 1 \in 1 .. n /\ k <= n /\ k \in 0 .. n
            BY <2>1
        <3>2. f[k + 1] = f[k] + s[k + 1] /\ g[k + 1] = g[k] + t[k + 1]
            BY <1>1, <1>2, <3>1
        <3>3. g[k] = f[k] + (IF k >= x THEN t[x] ELSE 0)
            BY <1>4, <3>1
        <3>4. s[k + 1] \in Nat /\ t[k + 1] \in Nat /\ t[x] \in Nat /\ f[k] \in Nat
            BY <3>1
        <3>5. CASE k + 1 = x
            <4>1. g[k] = f[k] /\ t[k + 1] = t[x] /\ s[k + 1] = 0
                <5>1. t[k + 1] = t[x] /\ s[k + 1] = 0
                    BY <3>5
                <5>2. ~ (k >= x)
                    BY <3>5
                <5>3. g[k] = f[k] + 0
                    BY <3>3, <5>2
                <5>. QED
                    BY <3>4, <5>1, <5>3
            <4>2. g[k + 1] = f[k + 1] + t[x] /\ k + 1 >= x
                BY <3>2, <3>4, <3>5, <4>1
            <4>. QED
                BY <4>2
        <3>6. CASE k + 1 # x
            <4>1. t[k + 1] = s[k + 1]
                BY <3>1, <3>6
            <4>2. k + 1 >= x <=> k >= x
                BY <3>6
            <4>. DEFINE b == IF k >= x THEN t[x] ELSE 0
            <4>3. b = (IF k + 1 >= x THEN t[x] ELSE 0) /\ b \in Nat /\ g[k] = f[k] + b
                BY <3>3, <3>4, <4>2
            <4>. HIDE DEF b
            <4>4. g[k + 1] = f[k + 1] + b
                <5>1. g[k + 1] = (f[k] + b) + s[k + 1]
                    BY <3>2, <4>1, <4>3
                <5>2. (f[k] + b) + s[k + 1] = (f[k] + s[k + 1]) + b
                    <6>1. f[k] \in Nat /\ b \in Nat /\ s[k + 1] \in Nat
                        BY <3>4, <4>3
                    <6>2. \A u, v, w \in Nat : (u + v) + w = (u + w) + v
                        BY SumInAnyOrder
                    <6>. QED
                        BY ONLY <6>1, <6>2, Zenon
                <5>. QED
                    BY <3>2, <5>1, <5>2
            <4>. QED
                BY <4>3, <4>4
        <3>. QED
            BY <3>5, <3>6
    <2>. QED
        BY <2>1
<1>5. n \in P
    <2>. HIDE DEF P
    <2>. QED
        BY <1>3, <1>4, Induction
<1>6. g[n] = f[n] + t[x]
    BY <1>5
<1>. QED
    BY <1>1, <1>2, <1>6
=============================================================================
