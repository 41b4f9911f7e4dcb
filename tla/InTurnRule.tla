----------------------------- MODULE InTurnRule -----------------------------
(***************************************************************************)
(* The rule for loops that go through the elements of a sequence (InTurn   *)
(* of Transfers), for any body F with a parameter. A proof names its loop  *)
(* bodies and instantiates this module for each: the induction on the      *)
(* length of the sequence is done once, here.                              *)
(***************************************************************************)
EXTENDS Transfers, WellFoundedInduction, TLAPS
CONSTANT F(_, _, _)

(* A set of numbers that has 0 and with every number the next has all: <   *)
(* is well founded, so what it lacks would have a least element.           *)
LEMMA SetInduction ==
  ASSUME NEW G, 0 \in G, \A n \in Nat : n \in G => n + 1 \in G
  PROVE  Nat \subseteq G
<1> SUFFICES ASSUME Nat \ G # {} PROVE FALSE
  OBVIOUS
<1> DEFINE R == OpToRel(<, Nat)
<1>1. IsWellFoundedOn(R, Nat)
  BY NatLessThanWellFounded
<1>2. PICK T : T = Nat \ G
  OBVIOUS
<1>3. T \subseteq Nat /\ T # {}
  BY <1>2
<1> HIDE DEF R
<1>4. PICK x \in T : \A y \in T : ~(<<y, x>> \in R)
  BY <1>1, <1>3, WFMin
<1>5. x \in Nat /\ x # 0
  BY <1>2
<1>6. x - 1 \in T
  BY <1>2, <1>5
<1>7. <<x - 1, x>> \in R
  BY <1>2, <1>5 DEF R, OpToRel
<1> QED BY <1>4, <1>6, <1>7

(* The outcomes g[n] after the first n elements.                           *)
After(s, seq, p, m, g) ==
  g = [n \in 0 .. m |-> IF n = 0 THEN {[s |-> s, ok |-> TRUE]}
                        ELSE UNION {F(o.s, seq[n], p) : o \in g[n - 1]}]

(* The recursive function of InTurn, from its first value to any later     *)
(* one, exists.                                                            *)
LEMMA AfterExists ==
  ASSUME NEW s, NEW seq, NEW p, NEW N \in Nat
  PROVE  \E g : After(s, seq, p, N, g)
<1> DEFINE G == {m \in Nat : \E g : After(s, seq, p, m, g)}
<1>1. 0 \in G
  <2>1. PICK g : g = [n \in 0 .. 0 |-> {[s |-> s, ok |-> TRUE]}]
    OBVIOUS
  <2>2. After(s, seq, p, 0, g)
    BY <2>1 DEF After
  <2> QED BY <2>2
<1>2. ASSUME NEW m \in Nat, m \in G
      PROVE  m + 1 \in G
  <2>1. PICK g : After(s, seq, p, m, g)
    BY <1>2
  <2>2. PICK next : next = UNION {F(o.s, seq[m + 1], p) : o \in g[m]}
    OBVIOUS
  <2>3. PICK h : h = [n \in 0 .. m + 1 |-> IF n = m + 1 THEN next ELSE g[n]]
    OBVIOUS
  <2>4. \A n \in 0 .. m + 1 : h[n] = IF n = 0 THEN {[s |-> s, ok |-> TRUE]}
                                     ELSE UNION {F(o.s, seq[n], p) : o \in h[n - 1]}
    <3> TAKE n \in 0 .. m + 1
    <3>1. CASE n = m + 1
      <4>1. h[n - 1] = g[m] /\ h[n] = next /\ n # 0
        BY <2>3, <3>1
      <4> QED BY <2>2, <3>1, <4>1
    <3>2. CASE n # m + 1
      <4>1. n \in 0 .. m /\ h[n] = g[n] /\ (n # 0 => n - 1 \in 0 .. m + 1 /\ n - 1 # m + 1 /\ h[n - 1] = g[n - 1])
        BY <2>3, <3>2
      <4>2. g[n] = IF n = 0 THEN {[s |-> s, ok |-> TRUE]} ELSE UNION {F(o.s, seq[n], p) : o \in g[n - 1]}
        BY <2>1, <4>1 DEF After
      <4> QED BY <4>1, <4>2
    <3> QED BY <3>1, <3>2
  <2>5. After(s, seq, p, m + 1, h)
    BY <2>3, <2>4 DEF After
  <2> QED BY <2>5
<1> HIDE DEF G
<1>3. N \in G
  BY <1>1, <1>2, SetInduction
<1> QED BY <1>3 DEF G

(* The outcomes of the whole loop, as the modules of the code state it.    *)
Outcomes(s, seq, p) == InTurn(s, seq, LAMBDA t, x : F(t, x, p))

(* What holds of the state before the elements of a sequence are gone      *)
(* through, and is kept by each of them in its turn, holds of every        *)
(* outcome: the loop invariant of the loops of the code over channels and  *)
(* devices.                                                                *)
THEOREM InTurnRule ==
  ASSUME NEW p, NEW s, NEW seq, Len(seq) \in Nat, NEW I,
         <<0, s>> \in I,
         \A n \in 1 .. Len(seq) : \A t :
           <<n - 1, t>> \in I => \A o \in F(t, seq[n], p) : <<n, o.s>> \in I
  PROVE  \A o \in Outcomes(s, seq, p) : <<Len(seq), o.s>> \in I
<1> DEFINE N == Len(seq)
           g == CHOOSE g : After(s, seq, p, N, g)
           G == {m \in Nat : m \in 0 .. N => \A o \in g[m] : <<m, o.s>> \in I}
<1>1. After(s, seq, p, N, g)
  BY AfterExists
<1>2. \A n \in 0 .. N :
        g[n] = IF n = 0 THEN {[s |-> s, ok |-> TRUE]}
               ELSE UNION {F(o.s, seq[n], p) : o \in g[n - 1]}
  BY <1>1 DEF After
<1>3. Outcomes(s, seq, p) = g[N]
  BY DEF Outcomes, InTurn, After, Regardless, Done
<1> HIDE DEF g, N
<1>4. N \in Nat /\ N = Len(seq)
  BY DEF N
<1>5. 0 \in G
  <2>1. g[0] = {[s |-> s, ok |-> TRUE]}
    <3>1. 0 \in 0 .. N
      BY <1>4
    <3> QED BY <1>2, <3>1, Zenon
  <2>2. \A o \in g[0] : o.s = s
    BY <2>1
  <2> QED BY <2>2
<1>6. ASSUME NEW m \in Nat, m \in G PROVE m + 1 \in G
  <2> SUFFICES ASSUME m + 1 \in 0 .. N, NEW q \in g[m + 1] PROVE <<m + 1, q.s>> \in I
    OBVIOUS
  <2>1. \A o \in g[m] : <<m, o.s>> \in I
    BY <1>4, <1>6
  <2>2. PICK o \in g[m] : q \in F(o.s, seq[m + 1], p)
    <3>1. m + 1 # 0 /\ (m + 1) - 1 = m
      OBVIOUS
    <3>2. g[m + 1] = UNION {F(x.s, seq[m + 1], p) : x \in g[m]}
      BY <1>2, <3>1
    <3> QED BY <3>2
  <2>3. m + 1 \in 1 .. Len(seq) /\ (m + 1) - 1 = m
    BY <1>4
  <2> QED BY <2>1, <2>2, <2>3
<1> HIDE DEF G
<1>7. N \in G
  BY <1>4, <1>5, <1>6, SetInduction
<1>8. N \in 0 .. N /\ \A o \in g[N] : <<N, o.s>> \in I
  BY <1>4, <1>7 DEF G
<1> QED BY <1>3, <1>4, <1>8, Zenon
=============================================================================
