------------------------------ MODULE Induction ------------------------------
(***************************************************************************)
(* Induction over the natural numbers in a form the provers can use: about *)
(* a set of numbers instead of a predicate, which is a parameter they      *)
(* cannot instantiate. A property P is proved for every number from        *)
(* Induction with S <- {n \in Nat : P(n)}. What a recursive function       *)
(* computes follows from its equations (Recursion says that they have a    *)
(* solution) in the same way.                                              *)
(***************************************************************************)
EXTENDS Integers, WellFoundedInduction, TLAPS

(* Every non-empty set of natural numbers has a least member.               *)
LEMMA LeastNumber ==
    ASSUME NEW T \in SUBSET Nat, T # {}
    PROVE  \E n \in T : \A m \in T : n <= m
<1> DEFINE R == OpToRel(<, Nat)
<1>1. PICK n \in T : \A m \in T : ~(<<m, n>> \in R)
  <2> HIDE DEF R
  <2>1. IsWellFoundedOn(R, Nat)
    BY NatLessThanWellFounded DEF R
  <2> QED
    BY <2>1, WFMin
<1>2. ASSUME NEW m \in T
      PROVE  n <= m
  <2>1. ~(<<m, n>> \in {x \in Nat \X Nat : x[1] < x[2]})
    BY <1>1 DEF OpToRel
  <2> QED
    BY <2>1
<1> QED
  BY <1>2

(* A set that holds 0 and with each number the next one holds them all.     *)
LEMMA Induction ==
    ASSUME NEW S, 0 \in S, \A n \in Nat : n \in S => n + 1 \in S
    PROVE  \A n \in Nat : n \in S
<1> DEFINE T == {n \in Nat : n \notin S}
<1>1. ASSUME T # {}
      PROVE  FALSE
  <2>1. PICK n \in T : \A m \in T : n <= m
    BY <1>1, LeastNumber
  <2>2. n # 0 /\ n - 1 \in Nat /\ n - 1 \in S
    BY <2>1
  <2> QED
    BY <2>1, <2>2
<1> QED
  BY <1>1

(* The equations of a recursive function on 0..N.                           *)
Solves(g, N, base, step) == g[0] = base /\ \A n \in 1..N : g[n] = step[<<n, g[n - 1]>>]
Solvable(N, V, base, step) == \E g \in [0..N -> V] : Solves(g, N, base, step)

(* They have a solution.                                                    *)
LEMMA Recursion ==
    ASSUME NEW N \in Nat, NEW V, NEW base \in V, NEW step \in [(1..N) \X V -> V]
    PROVE  Solvable(N, V, base, step)
<1> USE DEF Solvable, Solves
<1> DEFINE S == {k \in Nat : k <= N => \E g \in [0..k -> V] : Solves(g, k, base, step)}
<1>1. 0 \in S
  <2>1. Solves([n \in 0..0 |-> base], 0, base, step)
    OBVIOUS
  <2> QED
    BY <2>1
<1>2. ASSUME NEW k \in Nat, k \in S
      PROVE  k + 1 \in S
  <2> SUFFICES ASSUME k + 1 <= N
               PROVE  \E g \in [0..(k + 1) -> V] : Solves(g, k + 1, base, step)
    OBVIOUS
  <2>1. PICK g \in [0..k -> V] : Solves(g, k, base, step)
    BY <1>2
  <2> DEFINE h == [n \in 0..(k + 1) |-> IF n = k + 1 THEN step[<<n, g[k]>>] ELSE g[n]]
  <2>2. step[<<k + 1, g[k]>>] \in V
    OBVIOUS
  <2>3. h \in [0..(k + 1) -> V]
    BY <2>2
  <2>4. Solves(h, k + 1, base, step)
    BY <2>1
  <2> QED
    BY <2>3, <2>4
<1>3. N \in S
  <2> HIDE DEF S
  <2> QED
    BY <1>1, <1>2, Induction
<1> QED
  BY <1>3
=============================================================================
