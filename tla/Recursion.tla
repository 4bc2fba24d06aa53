----------------------------- MODULE Recursion ------------------------------
(***************************************************************************)
(* Induction over numbers and functions defined by recursion, which the    *)
(* proofs about lists and tables of any length rest on.                    *)
(***************************************************************************)
EXTENDS Naturals, Sequences, FiniteSets, FiniteSetTheorems, TLAPS

(* Induction, from the order of the finite sets 0..n: every set of natural *)
(* numbers has a least one.                                                *)
LEMMA LeastNumber ==
  ASSUME NEW T \in SUBSET Nat, T # {}
  PROVE  \E m \in T : \A k \in T : m <= k
<1> DEFINE Below(n) == 0..n
           F == {Below(n) : n \in T}
<1>1. F \subseteq FiniteSubsetsOf(Nat)
  <2>1. \A n \in T : IsFiniteSet(Below(n)) /\ Below(n) \subseteq Nat
    BY FS_Interval
  <2> QED
    BY <2>1 DEF FiniteSubsetsOf
<1>2. F # {}
  OBVIOUS
<1>3. IsWellFoundedOn(StrictSubsetOrdering(Nat), FiniteSubsetsOf(Nat))
  BY FS_StrictSubsetOrderingWellFounded
<1>4. PICK x \in F : \A y \in F : ~(<<y, x>> \in StrictSubsetOrdering(Nat))
  <2> HIDE DEF F
  <2> QED
    BY <1>1, <1>2, <1>3, WFMin
<1>5. PICK m \in T : x = Below(m)
  OBVIOUS
<1>6. ASSUME NEW k \in T, k < m PROVE FALSE
  <2>1. Below(k) \in F /\ Below(k) \subseteq Below(m) /\ Below(k) # Below(m)
    BY <1>6
  <2>2. <<Below(k), Below(m)>> \in StrictSubsetOrdering(Nat)
    BY <2>1 DEF StrictSubsetOrdering
  <2> QED
    BY <1>4, <1>5, <2>1, <2>2
<1> QED
  BY <1>6

(* Induction over the natural numbers: the numbers of which something is   *)
(* true are all of them.                                                   *)
LEMMA Induction ==
  ASSUME NEW P \in SUBSET Nat, 0 \in P, \A n \in P : n + 1 \in P
  PROVE  P = Nat
<1> SUFFICES ASSUME Nat \ P # {} PROVE FALSE
  OBVIOUS
<1>1. PICK m \in Nat \ P : \A k \in Nat \ P : m <= k
  BY LeastNumber
<1>2. m # 0 /\ m - 1 \in Nat
  OBVIOUS
<1>3. m - 1 \in P
  BY <1>1, <1>2
<1> QED
  BY <1>3

(* There is a function that makes each of its values from the one before.  *)
IsIteration(g, n, base, step) ==
  g[0] = base /\ \A i \in 1..n : g[i] = step[<<g[i - 1], i>>]

LEMMA Iteration ==
  ASSUME NEW S, NEW base \in S, NEW step \in [S \X Nat -> S], NEW n \in Nat
  PROVE  \E g \in [0..n -> S] : IsIteration(g, n, base, step)
<1> DEFINE Is(g, k) == IsIteration(g, k, base, step)
           P == {k \in Nat : \E g \in [0..k -> S] : Is(g, k)}
<1> USE DEF IsIteration
<1>1. 0 \in P
  <2>1. [i \in 0..0 |-> base] \in [0..0 -> S] /\ Is([i \in 0..0 |-> base], 0)
    OBVIOUS
  <2> QED
    BY <2>1
<1>2. ASSUME NEW k \in P PROVE k + 1 \in P
  <2>1. k \in Nat
    OBVIOUS
  <2>2. PICK g \in [0..k -> S] : Is(g, k)
    BY <1>2
  <2> DEFINE h == [i \in 0..(k + 1) |-> IF i = k + 1 THEN step[<<g[k], k + 1>>] ELSE g[i]]
  <2>3. h \in [0..(k + 1) -> S]
    BY <2>1
  <2>4. Is(h, k + 1)
    <3>1. h[0] = base
      BY <2>1, <2>2
    <3>2. ASSUME NEW i \in 1..(k + 1) PROVE h[i] = step[<<h[i - 1], i>>]
      <4>1. CASE i = k + 1
        <5>1. k \in 0..(k + 1) /\ k + 1 \in 0..(k + 1) /\ k # k + 1
          BY <2>1
        <5>2. h[k + 1] = step[<<g[k], k + 1>>] /\ h[k] = g[k]
          BY <5>1
        <5>3. i - 1 = k
          BY <2>1, <4>1
        <5> HIDE DEF h
        <5> QED
          BY <4>1, <5>2, <5>3
      <4>2. CASE i # k + 1
        <5>1. i \in 1..k /\ i - 1 \in 0..k
          BY <2>1, <4>2
        <5>2. h[i] = g[i] /\ h[i - 1] = g[i - 1]
          BY <2>1, <5>1
        <5> QED
          BY <2>2, <5>1, <5>2
      <4> QED
        BY <4>1, <4>2
    <3> HIDE DEF h
    <3> QED
      BY <3>1, <3>2
  <2> HIDE DEF h, Is
  <2> QED
    BY <2>1, <2>3, <2>4
<1>3. P = Nat
  <2> HIDE DEF P
  <2>1. P \subseteq Nat
    BY DEF P
  <2> QED
    BY <1>1, <1>2, <2>1, Induction
<1> QED
  BY <1>3

(* What each step keeps holds all along.                                   *)
LEMMA Along ==
  ASSUME NEW n \in Nat, NEW g, NEW C, g[0] \in C,
         \A i \in 1..n : g[i - 1] \in C => g[i] \in C
  PROVE  \A i \in 0..n : g[i] \in C
<1> DEFINE P == {k \in Nat : k <= n => g[k] \in C}
<1>1. 0 \in P
  OBVIOUS
<1>2. ASSUME NEW k \in P PROVE k + 1 \in P
  <2>1. k + 1 <= n => k + 1 \in 1..n /\ (k + 1) - 1 = k
    OBVIOUS
  <2> QED
    BY <2>1
<1>3. P = Nat
  <2> HIDE DEF P
  <2>1. P \subseteq Nat
    BY DEF P
  <2> QED
    BY <1>1, <1>2, <2>1, Induction
<1> QED
  BY <1>3

(* Two functions that go on in the same way are the same.                  *)
LEMMA OneIteration ==
  ASSUME NEW n \in Nat, NEW base, NEW step, NEW f, NEW g,
         IsIteration(f, n, base, step), IsIteration(g, n, base, step)
  PROVE  \A i \in 0..n : f[i] = g[i]
<1> DEFINE P == {k \in Nat : k <= n => f[k] = g[k]}
<1>1. 0 \in P
  BY DEF IsIteration
<1>2. ASSUME NEW k \in P PROVE k + 1 \in P
  <2> SUFFICES ASSUME k + 1 <= n PROVE f[k + 1] = g[k + 1]
    OBVIOUS
  <2>1. k \in Nat /\ f[k] = g[k] /\ k + 1 \in 1..n /\ (k + 1) - 1 = k
    OBVIOUS
  <2>2. f[k + 1] = step[<<f[k], k + 1>>] /\ g[k + 1] = step[<<g[k], k + 1>>]
    BY <2>1 DEF IsIteration
  <2> QED
    BY <2>1, <2>2
<1>3. P = Nat
  <2> HIDE DEF P
  <2>1. P \subseteq Nat
    BY DEF P
  <2> QED
    BY <1>1, <1>2, <2>1, Induction
<1> QED
  BY <1>3

(* Induction over the numbers up to n, upwards and downwards.              *)
LEMMA Upwards ==
  ASSUME NEW n \in Nat, NEW G \in SUBSET (0..n), 0 \in G,
         \A i \in 1..n : i - 1 \in G => i \in G
  PROVE  \A i \in 0..n : i \in G
<1> DEFINE P == {k \in Nat : k <= n => k \in G}
<1>1. 0 \in P
  OBVIOUS
<1>2. ASSUME NEW k \in P PROVE k + 1 \in P
  <2>1. k + 1 <= n => k + 1 \in 1..n /\ (k + 1) - 1 = k
    OBVIOUS
  <2> QED
    BY <2>1
<1>3. P = Nat
  <2> HIDE DEF P
  <2>1. P \subseteq Nat
    BY DEF P
  <2> QED
    BY <1>1, <1>2, <2>1, Induction
<1> QED
  BY <1>3

LEMMA Downwards ==
  ASSUME NEW n \in Nat, NEW G \in SUBSET (0..n), n \in G,
         \A i \in 1..n : i \in G => i - 1 \in G
  PROVE  \A i \in 0..n : i \in G
<1> DEFINE U == {k \in 0..n : n - k \in G}
<1>1. 0 \in U
  OBVIOUS
<1>2. ASSUME NEW i \in 1..n, i - 1 \in U PROVE i \in U
  <2>1. n - (i - 1) \in 1..n /\ (n - (i - 1)) - 1 = n - i /\ n - (i - 1) \in G
    BY <1>2
  <2> QED
    BY <2>1
<1>3. \A i \in 0..n : i \in U
  <2>1. U \in SUBSET (0..n)
    OBVIOUS
  <2> HIDE DEF U
  <2> QED
    BY <1>1, <1>2, <2>1, Upwards
<1>4. ASSUME NEW i \in 0..n PROVE i \in G
  <2>1. n - i \in 0..n /\ n - (n - i) = i
    OBVIOUS
  <2>2. n - i \in U
    BY <1>3, <2>1
  <2> QED
    BY <2>1, <2>2
<1> QED
  BY <1>4
=============================================================================
