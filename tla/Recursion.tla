----------------------------- MODULE Recursion ------------------------------
(***************************************************************************)
(* Induction over the natural numbers, and functions defined by recursion  *)
(* over them.  The induction theorems of the library speak of a predicate  *)
(* P(_); here a property of numbers is the set of those that have it, and  *)
(* a step of a recursion is a function.                                    *)
(***************************************************************************)
EXTENDS Naturals, WellFoundedInduction, TLAPS

\* A set that has 0, and with every number its successor, has all numbers: otherwise
\* the least number that it lacks would be the successor of one that it has.
LEMMA Induction ==
  ASSUME NEW S, 0 \in S, \A n \in Nat : n \in S => n + 1 \in S
  PROVE  \A n \in Nat : n \in S
<1> DEFINE Less == OpToRel(<, Nat)
           Rest == Nat \ S
<1>1. SUFFICES ASSUME Rest # {}
               PROVE  FALSE
  OBVIOUS
<1>2. Rest \subseteq Nat /\ IsWellFoundedOn(Less, Nat)
  BY NatLessThanWellFounded
<1>3. PICK least \in Rest : \A n \in Rest : <<n, least>> \notin Less
  <2> HIDE DEF Less, Rest
  <2> QED
    BY <1>1, <1>2, WFMin
<1>4. \A n \in Rest : ~ (n < least)
  BY <1>2, <1>3 DEF OpToRel
<1>5. least \in Nat /\ least \notin S /\ least # 0
  BY <1>2
<1>6. least - 1 \in Nat /\ least - 1 \in S
  BY <1>4, <1>5
<1> QED
  BY <1>5, <1>6

\* f is defined by recursion from value base with step.
Recursive(f, base, step) ==
  f = [n \in Nat |-> IF n = 0 THEN base ELSE step[n][f[n - 1]]]

\* Every recursion with a step on a set of values defines a function.  Its values are
\* collected from approximations up to n, on which any two agree.
LEMMA Recursion ==
  ASSUME NEW V, NEW base \in V, NEW step \in [Nat -> [V -> V]]
  PROVE  \E f \in [Nat -> V] : Recursive(f, base, step)
<1> DEFINE Up(g, n) ==
             /\ g \in [0 .. n -> V]
             /\ g[0] = base
             /\ \A k \in 1 .. n : g[k] = step[k][g[k - 1]]
           Some == { n \in Nat : \E g : Up(g, n) }
<1>1. \A n \in Nat : n \in Some
  <2>1. 0 \in Some
    <3>1. PICK g : g = [k \in 0 .. 0 |-> base]
      OBVIOUS
    <3>2. Up(g, 0)
      BY <3>1
    <3> QED
      BY <3>2
  <2>2. ASSUME NEW n \in Nat, n \in Some
        PROVE  n + 1 \in Some
    <3>1. PICK g : Up(g, n)
      BY <2>2
    <3>2. PICK v \in V : v = step[n + 1][g[n]]
      BY <3>1
    <3>3. PICK h : h = [k \in 0 .. n + 1 |-> IF k = n + 1 THEN v ELSE g[k]]
      OBVIOUS
    <3>4. h \in [0 .. n + 1 -> V] /\ h[0] = base
      BY <3>1, <3>3
    <3>5. \A k \in 1 .. n + 1 : h[k] = step[k][h[k - 1]]
      BY <3>1, <3>2, <3>3
    <3> QED
      BY <3>4, <3>5
  <2> HIDE DEF Some
  <2> QED
    BY <2>1, <2>2, Induction
<1>2. ASSUME NEW g, NEW h, NEW m \in Nat, NEW n \in Nat, Up(g, m), Up(h, n), m <= n
      PROVE  g[m] = h[m]
  <2> DEFINE Equal == { k \in Nat : k <= m => g[k] = h[k] }
  <2>1. 0 \in Equal
    BY <1>2
  <2>2. ASSUME NEW k \in Nat, k \in Equal
        PROVE  k + 1 \in Equal
    BY <1>2, <2>2
  <2>3. \A k \in Nat : k \in Equal
    <3> HIDE DEF Equal
    <3> QED
      BY <2>1, <2>2, Induction
  <2> QED
    BY <2>3
<1>3. \A n \in Nat : \E g : Up(g, n)
  BY <1>1
<1> HIDE DEF Up
<1> DEFINE G(n) == CHOOSE g : Up(g, n)
<1>4. \A n \in Nat : Up(G(n), n)
  BY <1>3
<1> HIDE DEF G
<1>5. PICK f : f = [n \in Nat |-> G(n)[n]]
  OBVIOUS
<1>6. f \in [Nat -> V]
  <2> SUFFICES ASSUME NEW n \in Nat
               PROVE  G(n)[n] \in V
    BY <1>5
  <2> QED
    BY <1>4 DEF Up
<1>7. Recursive(f, base, step)
  <2> SUFFICES ASSUME NEW n \in Nat
               PROVE  f[n] = IF n = 0 THEN base ELSE step[n][f[n - 1]]
    BY <1>5 DEF Recursive
  <2>1. CASE n = 0
    BY <1>4, <1>5, <2>1 DEF Up
  <2>2. CASE n # 0
    <3>1. n - 1 \in Nat /\ n \in 1 .. n
      BY <2>2
    <3>2. PICK g, h : g = G(n - 1) /\ h = G(n)
      OBVIOUS
    <3>3. Up(g, n - 1) /\ Up(h, n)
      BY <1>4, <3>1, <3>2
    <3>4. g[n - 1] = h[n - 1]
      BY <1>2, <3>1, <3>3
    <3>5. h[n] = step[n][h[n - 1]]
      BY <3>1, <3>3 DEF Up
    <3>6. f[n] = h[n] /\ f[n - 1] = g[n - 1]
      BY <1>5, <3>1, <3>2
    <3> QED
      BY <2>2, <3>4, <3>5, <3>6
  <2> QED
    BY <2>1, <2>2
<1> QED
  BY <1>6, <1>7
=============================================================================
