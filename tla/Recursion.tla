------------------------------ MODULE Recursion ------------------------------
(***************************************************************************)
(* Induction over the natural numbers and definition by recursion, stated  *)
(* about sets: a property is the set of the numbers that have it.  Both    *)
(* rest on the order of the naturals being well founded.                   *)
(***************************************************************************)
EXTENDS Integers, WellFoundedInduction, TLAPS

(* Every nonempty set of natural numbers has a least one.                  *)
LEMMA LeastNumber ==
    ASSUME NEW T, T \subseteq Nat, T # {}
    PROVE  \E n \in T : \A k \in T : n <= k
<1>. DEFINE R == OpToRel(<, Nat)
<1>1. IsWellFoundedOn(R, Nat)
    BY NatLessThanWellFounded
<1>2. \A x, y \in Nat : <<x, y>> \in R <=> x < y
    BY DEF OpToRel
<1>. HIDE DEF R
<1>3. PICK n \in T : \A k \in T : ~(<<k, n>> \in R)
    BY <1>1, WFMin
<1>4. ASSUME NEW k \in T PROVE n <= k
    <2>1. k \in Nat /\ n \in Nat /\ ~(k < n)
        BY <1>2, <1>3
    <2>. QED
        BY <2>1
<1>. QED
    BY <1>4

(* A set that holds 0, and with each number the next, holds them all: the  *)
(* least number it lacked would have a predecessor.                        *)
LEMMA Induction ==
    ASSUME NEW P, 0 \in P, \A n \in Nat : n \in P => n + 1 \in P
    PROVE  \A n \in Nat : n \in P
<1>. SUFFICES ASSUME NEW n \in Nat, n \notin P PROVE FALSE
    OBVIOUS
<1>1. PICK k \in Nat \ P : \A l \in Nat \ P : k <= l
    <2>1. Nat \ P \subseteq Nat /\ Nat \ P # {}
        OBVIOUS
    <2>. QED
        BY <2>1, LeastNumber
<1>2. k # 0 /\ k - 1 \in Nat /\ (k - 1) + 1 = k
    BY <1>1
<1>3. k - 1 \in P
    BY <1>1, <1>2
<1>. QED
    BY <1>1, <1>2, <1>3

(* f starts at a, and gets from its k-th value to the next by F[k].        *)
Iterates(f, S, a, F) ==
    /\ f \in [Nat -> S]
    /\ f[0] = a
    /\ \A k \in Nat : f[k + 1] = F[k][f[k]]

(* A first value and a step define a sequence of values: its beginnings    *)
(* exist, by induction, and agree with each other.                         *)
LEMMA SequenceExists ==
    ASSUME NEW S, NEW a \in S, NEW F \in [Nat -> [S -> S]]
    PROVE  \E f : Iterates(f, S, a, F)
<1>. DEFINE Start(g, n) == /\ g \in [0 .. n -> S]
                           /\ g[0] = a
                           /\ \A k \in 0 .. n - 1 : g[k + 1] = F[k][g[k]]
            P == {n \in Nat : \E g : Start(g, n)}
<1>1. 0 \in P
    <2>1. Start([k \in 0 .. 0 |-> a], 0)
        OBVIOUS
    <2>. QED
        BY <2>1
<1>2. ASSUME NEW n \in Nat, n \in P PROVE n + 1 \in P
    <2>1. PICK g : Start(g, n)
        BY <1>2
    <2>. DEFINE h == [k \in 0 .. n + 1 |-> IF k = n + 1 THEN F[n][g[n]] ELSE g[k]]
    <2>2. h \in [0 .. n + 1 -> S] /\ h[0] = a
        BY <2>1
    <2>3. \A k \in 0 .. n : h[k + 1] = F[k][h[k]]
        <3>1. ASSUME NEW k \in 0 .. n - 1 PROVE h[k + 1] = F[k][h[k]]
            <4>1. h[k] = g[k] /\ h[k + 1] = g[k + 1]
                OBVIOUS
            <4>. QED
                BY <2>1, <3>1, <4>1
        <3>2. h[n] = g[n] /\ h[n + 1] = F[n][g[n]]
            OBVIOUS
        <3>3. \A k \in 0 .. n : k = n \/ k \in 0 .. n - 1
            OBVIOUS
        <3>. HIDE DEF h
        <3>. QED
            BY <3>1, <3>2, <3>3
    <2>4. (n + 1) - 1 = n /\ n + 1 \in Nat
        OBVIOUS
    <2>5. Start(h, n + 1)
        BY <2>2, <2>3, <2>4
    <2>. HIDE DEF h, Start
    <2>. QED
        BY <2>4, <2>5
<1>3. \A n \in Nat : n \in P
    <2>. HIDE DEF P
    <2>. QED
        BY <1>1, <1>2, Induction
<1>4. ASSUME NEW m \in Nat, NEW n \in Nat, m <= n, NEW g, Start(g, m), NEW h, Start(h, n)
      PROVE  \A k \in 0 .. m : g[k] = h[k]
    <2>. DEFINE Q == {k \in Nat : k <= m => g[k] = h[k]}
    <2>1. 0 \in Q
        BY <1>4
    <2>2. ASSUME NEW k \in Nat, k \in Q PROVE k + 1 \in Q
        <3>1. CASE k + 1 <= m
            <4>1. g[k] = h[k] /\ k \in 0 .. m - 1 /\ k \in 0 .. n - 1
                BY <1>4, <2>2, <3>1
            <4>2. g[k + 1] = F[k][g[k]] /\ h[k + 1] = F[k][h[k]]
                BY <1>4, <4>1
            <4>. QED
                BY <4>1, <4>2
        <3>. QED
            BY <3>1
    <2>3. \A k \in Nat : k \in Q
        <3>. HIDE DEF Q
        <3>. QED
            BY <2>1, <2>2, Induction
    <2>. QED
        BY <2>3
<1>. DEFINE G(n) == CHOOSE g : Start(g, n)
            f == [n \in Nat |-> G(n)[n]]
<1>5. ASSUME NEW n \in Nat PROVE Start(G(n), n)
    <2>. HIDE DEF Start
    <2>. QED
        BY <1>3
<1>6. ASSUME NEW n \in Nat PROVE f[n] \in S /\ f[n] = G(n)[n]
    <2>. HIDE DEF G
    <2>. QED
        BY <1>5
<1>7. ASSUME NEW k \in Nat PROVE f[k + 1] = F[k][f[k]]
    <2>1. Start(G(k), k) /\ Start(G(k + 1), k + 1)
        <3>1. k + 1 \in Nat
            OBVIOUS
        <3>. HIDE DEF Start, G
        <3>. QED
            BY <1>5, <3>1
    <2>2. G(k)[k] = G(k + 1)[k]
        <3>. HIDE DEF G, Start
        <3>. QED
            BY <1>4, <2>1
    <2>3. G(k + 1)[k + 1] = F[k][G(k + 1)[k]]
        <3>. HIDE DEF G
        <3>. QED
            BY <2>1
    <2>. HIDE DEF G
    <2>. QED
        BY <1>6, <2>2, <2>3
<1>8. f[0] = a
    <2>1. Start(G(0), 0)
        BY <1>5
    <2>. HIDE DEF G
    <2>. QED
        BY <2>1
<1>9. f \in [Nat -> S]
    <2>. HIDE DEF G
    <2>. QED
        BY <1>6
<1>. HIDE DEF f
<1>. QED
    BY <1>7, <1>8, <1>9 DEF Iterates
=============================================================================
