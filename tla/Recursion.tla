----------------------------- MODULE Recursion ------------------------------
(***************************************************************************)
(* Induction on numbers, and functions defined by recursion on them, for   *)
(* the proofs about what is read out of a text or a path position by       *)
(* position.  Sets stand for the predicates that induction is over.        *)
(***************************************************************************)
EXTENDS Integers, Sequences, WellFoundedInduction, TLAPS

LEMMA Least == ASSUME NEW S \in SUBSET Nat, S # {}
               PROVE  \E m \in S : \A k \in S : m <= k
<1> DEFINE R == OpToRel(<, Nat)
<1>1. IsWellFoundedOn(R, Nat)
  BY NatLessThanWellFounded
<1>2. PICK m \in S : \A k \in S : <<k, m>> \notin R
  <2> HIDE DEF R
  <2> QED BY <1>1, WFMin
<1>3. \A k \in S : ~(k < m)
  BY <1>2 DEF OpToRel
<1> QED BY <1>3

LEMMA Induction == ASSUME NEW S, 0 \in S, \A n \in Nat : n \in S => n + 1 \in S
                   PROVE  Nat \subseteq S
<1> DEFINE T == Nat \ S
<1> SUFFICES ASSUME T # {} PROVE FALSE
  OBVIOUS
<1>1. PICK m \in T : \A k \in T : m <= k
  <2> HIDE DEF T
  <2>1. T \in SUBSET Nat
    BY DEF T
  <2> QED BY <2>1, Least
<1>2. m # 0 /\ m - 1 \in Nat /\ m - 1 \in S
  BY <1>1
<1> QED BY <1>1, <1>2

(* The values of f, from 0 to m, follow from one another.                  *)
Follows(f, base, m, step) ==
    f[0] = base /\ \A i \in 1..m : f[i] = step[<<f[i - 1], i>>]

(* A recursive definition that goes through the positions of a sequence    *)
(* has a solution: step gives the next value.                              *)
LEMMA Recursion ==
    ASSUME NEW V, NEW base \in V, NEW m \in Nat,
           NEW step \in [V \X (1..m) -> V]
    PROVE  \E f \in [0..m -> V] : Follows(f, base, m, step)
<1> DEFINE Good(n) == \E f \in [0..n -> V] :
                         /\ f[0] = base
                         /\ \A i \in 1..n : f[i] = step[<<f[i - 1], i>>]
           S == {n \in Nat : n <= m => Good(n)}
<1>1. 0 \in S
  <2> DEFINE f == [i \in 0..0 |-> base]
  <2>1. f \in [0..0 -> V] /\ f[0] = base /\ \A i \in 1..0 : f[i] = step[<<f[i - 1], i>>]
    OBVIOUS
  <2>2. Good(0)
    <3> HIDE DEF f
    <3> QED BY <2>1
  <2> HIDE DEF Good
  <2> QED BY <2>2
<1>2. ASSUME NEW n \in Nat, n \in S PROVE n + 1 \in S
  <2> SUFFICES ASSUME n + 1 <= m PROVE Good(n + 1)
    OBVIOUS
  <2>1. PICK f \in [0..n -> V] : /\ f[0] = base
                                 /\ \A i \in 1..n : f[i] = step[<<f[i - 1], i>>]
    BY <1>2
  <2> DEFINE g == [i \in 0..n + 1 |-> IF i = n + 1 THEN step[<<f[n], n + 1>>]
                                                   ELSE f[i]]
  <2>2. step[<<f[n], n + 1>>] \in V
    <3>1. <<f[n], n + 1>> \in V \X (1..m)
      BY <2>1
    <3> QED BY <3>1
  <2>3. g \in [0..n + 1 -> V]
    <3>1. ASSUME NEW i \in 0..n + 1 PROVE g[i] \in V
      BY <2>1, <2>2
    <3> QED BY <3>1
  <2>4. g[0] = base
    BY <2>1
  <2>5. ASSUME NEW i \in 1..n + 1 PROVE g[i] = step[<<g[i - 1], i>>]
    <3>1. CASE i = n + 1
      <4>1. g[n + 1] = step[<<f[n], n + 1>>] /\ g[n] = f[n] /\ i - 1 = n
        BY <3>1
      <4> HIDE DEF g
      <4> QED BY <3>1, <4>1
    <3>2. CASE i # n + 1
      <4>1. i \in 1..n /\ g[i] = f[i] /\ g[i - 1] = f[i - 1]
        BY <3>2
      <4> QED BY <2>1, <4>1
    <3> QED BY <3>1, <3>2
  <2> HIDE DEF g
  <2> QED BY <2>3, <2>4, <2>5
<1>3. Nat \subseteq S
  <2> HIDE DEF S
  <2> QED BY <1>1, <1>2, Induction
<1>4. m \in S
  <2> HIDE DEF S
  <2> QED BY <1>3
<1>5. Good(m)
  <2> HIDE DEF Good
  <2> QED BY <1>4
<1> QED BY <1>5 DEF Follows

LEMMA RecursionType ==
    ASSUME NEW V, NEW m \in Nat, NEW f, f[0] \in V,
           \A i \in 1..m : f[i - 1] \in V => f[i] \in V
    PROVE  \A i \in 0..m : f[i] \in V
<1> DEFINE S == {n \in Nat : n <= m => f[n] \in V}
<1>1. 0 \in S
  OBVIOUS
<1>2. ASSUME NEW n \in Nat, n \in S PROVE n + 1 \in S
  <2>1. (n + 1) - 1 = n /\ (n + 1 <= m => n + 1 \in 1..m)
    OBVIOUS
  <2> QED BY <1>2, <2>1
<1>3. Nat \subseteq S
  <2> HIDE DEF S
  <2> QED BY <1>1, <1>2, Induction
<1> QED BY <1>3

(* Two solutions whose steps are the same agree.                           *)
InStep(f, g, m) ==
    f[0] = g[0] /\ \A i \in 1..m : f[i - 1] = g[i - 1] => f[i] = g[i]

Agree(f, g, m) == \A i \in 0..m : f[i] = g[i]

LEMMA RecursionAgrees ==
    ASSUME NEW m \in Nat, NEW f, NEW g, InStep(f, g, m)
    PROVE  Agree(f, g, m)
<1> DEFINE S == {n \in Nat : n <= m => f[n] = g[n]}
<1>1. 0 \in S
  BY DEF InStep
<1>2. ASSUME NEW n \in Nat, n \in S PROVE n + 1 \in S
  <2>1. (n + 1) - 1 = n /\ (n + 1 <= m => n + 1 \in 1..m)
    OBVIOUS
  <2> QED BY <1>2, <2>1 DEF InStep
<1>3. Nat \subseteq S
  <2> HIDE DEF S
  <2> QED BY <1>1, <1>2, Induction
<1> QED BY <1>3 DEF Agree

=============================================================================
