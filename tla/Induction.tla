------------------------------ MODULE Induction ------------------------------
(***************************************************************************)
(* Induction over natural numbers and recursion, stated with sets and      *)
(* functions: a property is the set of numbers that have it, a step is a   *)
(* function.                                                               *)
(***************************************************************************)
EXTENDS Integers, WellFoundedInduction, TLAPS

(* The order of the natural numbers, as a relation. *)
Below == { p \in Nat \X Nat : p[1] < p[2] }

LEMMA BelowWellFounded == IsWellFoundedOn(Below, Nat)
<1>1. OpToRel(<, Nat) = Below
  BY DEF OpToRel, Below
<1> QED
  BY <1>1, NatLessThanWellFounded

(* A set of numbers that has 0, and with each number the next, has all:    *)
(* there is no smallest number that it has not.                            *)
LEMMA SetInduction ==
  ASSUME NEW S \in SUBSET Nat, 0 \in S, \A n \in S : n + 1 \in S
  PROVE  S = Nat
<1> SUFFICES ASSUME S # Nat PROVE FALSE
  OBVIOUS
<1> DEFINE U == Nat \ S
<1>1. U \subseteq Nat /\ U # {}
  OBVIOUS
<1> HIDE DEF U
<1>2. PICK x \in U : \A y \in U : ~ (<< y, x >> \in Below)
  BY <1>1, BelowWellFounded, WFMin
<1>3. x \in Nat /\ x \notin S /\ x # 0
  BY <1>2 DEF U
<1>4. x - 1 \in Nat /\ x - 1 < x /\ (x - 1) + 1 = x
  BY <1>3
<1>5. x - 1 \notin U
  BY <1>2, <1>3, <1>4 DEF Below
<1> QED
  BY <1>3, <1>4, <1>5 DEF U

(* The same up to a bound.                                                 *)
LEMMA BoundedInduction ==
  ASSUME NEW n \in Nat, NEW S, 0 \in S, \A k \in 0..(n - 1) : k \in S => k + 1 \in S
  PROVE  0..n \subseteq S
<1> DEFINE T == { k \in Nat : k <= n => k \in S }
<1>1. T \in SUBSET Nat /\ 0 \in T
  OBVIOUS
<1>2. ASSUME NEW k \in T PROVE k + 1 \in T
  <2>1. CASE k + 1 <= n
    <3>1. k \in 0..(n - 1) /\ k \in S /\ k + 1 \in Nat
      BY <2>1
    <3> QED
      BY <3>1
  <2>2. CASE ~(k + 1 <= n)
    BY <2>2
  <2> QED
    BY <2>1, <2>2
<1>3. T = Nat
  <2> HIDE DEF T
  <2> QED
    BY <1>1, <1>2, SetInduction
<1> QED
  BY <1>3

(* Steps from states in T to states in T, one after the other. *)
Step(T) == [ T -> T ]

Steps(n, T) == [ 1..n -> Step(T) ]

(* The states that n of them lead to, from b. *)
Follows(f, n, b, step) == f[0] = b /\ \A k \in 1..n : f[k] = step[k][f[k - 1]]

LEMMA Recursion ==
  ASSUME NEW n \in Nat, NEW T, NEW b \in T, NEW step \in Steps(n, T)
  PROVE  \E f \in [ 0..n -> T ] : Follows(f, n, b, step)
<1> DEFINE Upto(m, f) == f[0] = b /\ \A k \in 1..m : f[k] = step[k][f[k - 1]]
           S == { m \in Nat : \E f \in [ 0..m -> T ] : Upto(m, f) }
<1>1. 0 \in S
  <2>1. [ k \in 0..0 |-> b ] \in [ 0..0 -> T ] /\ Upto(0, [ k \in 0..0 |-> b ])
    OBVIOUS
  <2> QED
    BY <2>1
<1>2. ASSUME NEW m \in 0..(n - 1), m \in S PROVE m + 1 \in S
  <2>1. PICK f \in [ 0..m -> T ] : Upto(m, f)
    BY <1>2
  <2> DEFINE g == [ k \in 0..(m + 1) |-> IF k <= m THEN f[k] ELSE step[m + 1][f[m]] ]
  <2>2. step[m + 1][f[m]] \in T
    BY DEF Steps, Step
  <2>3. g \in [ 0..(m + 1) -> T ]
    BY <2>2
  <2>4. g[0] = b
    BY <2>1
  <2>5. ASSUME NEW k \in 1..(m + 1) PROVE g[k] = step[k][g[k - 1]]
    <3>1. CASE k <= m
      <4>1. k \in 1..m /\ k - 1 \in 0..(m + 1) /\ k - 1 <= m /\ k \in 0..(m + 1)
        BY <3>1
      <4>2. g[k] = f[k] /\ g[k - 1] = f[k - 1]
        BY <3>1, <4>1
      <4> QED
        BY <2>1, <4>1, <4>2
    <3>2. CASE k = m + 1
      <4>1. k - 1 = m /\ m \in 0..(m + 1) /\ k \in 0..(m + 1) /\ ~(k <= m)
        BY <3>2
      <4>2. g[k] = step[m + 1][f[m]] /\ g[k - 1] = f[m]
        BY <4>1
      <4> QED
        BY <3>2, <4>2
    <3> QED
      BY <3>1, <3>2
  <2>6. m + 1 \in Nat
    OBVIOUS
  <2> HIDE DEF g
  <2> QED
    BY <2>3, <2>4, <2>5, <2>6
<1>3. n \in S
  <2> HIDE DEF S
  <2>1. 0..n \subseteq S
    BY <1>1, <1>2, BoundedInduction
  <2> QED
    BY <2>1
<1> QED
  BY <1>3 DEF Follows

(* States that follow from the first, one step at a time, are given by     *)
(* their number.                                                           *)
LEMMA SameStates ==
  ASSUME NEW n \in Nat, NEW step, NEW f, NEW g, f[0] = g[0],
         \A k \in 0..(n - 1) : f[k + 1] = step[f[k]] /\ g[k + 1] = step[g[k]]
  PROVE  f[n] = g[n]
<1> DEFINE S == { k \in 0..n : f[k] = g[k] }
<1>1. 0 \in S
  OBVIOUS
<1>2. ASSUME NEW k \in 0..(n - 1), k \in S PROVE k + 1 \in S
  <2>1. k + 1 \in 0..n /\ f[k] = g[k]
    BY <1>2
  <2> QED
    BY <2>1
<1>3. 0..n \subseteq S
  <2> HIDE DEF S
  <2> QED
    BY <1>1, <1>2, BoundedInduction
<1> QED
  BY <1>3

(* So one step can be taken for ever. *)
LEMMA Iteration ==
  ASSUME NEW T, NEW b \in T, NEW step \in Step(T)
  PROVE  \E f \in [ Nat -> T ] : f[0] = b /\ \A n \in Nat : f[n + 1] = step[f[n]]
<1> DEFINE Upto(n, f) == f[0] = b /\ \A k \in 0..(n - 1) : f[k + 1] = step[f[k]]
           some(n) == CHOOSE f : f \in [ 0..n -> T ] /\ Upto(n, f)
           all == [ n \in Nat |-> some(n)[n] ]
<1>1. ASSUME NEW n \in Nat PROVE \E f \in [ 0..n -> T ] : Upto(n, f)
  <2> DEFINE steps == [ k \in 1..n |-> step ]
  <2>1. steps \in Steps(n, T)
    BY DEF Steps
  <2>2. \A k \in 1..n : steps[k] = step
    OBVIOUS
  <2> HIDE DEF steps
  <2>3. PICK f \in [ 0..n -> T ] : f[0] = b /\ \A k \in 1..n : f[k] = steps[k][f[k - 1]]
    BY <2>1, Recursion DEF Follows
  <2>4. ASSUME NEW k \in 0..(n - 1) PROVE f[k + 1] = step[f[k]]
    <3>1. k + 1 \in 1..n /\ (k + 1) - 1 = k
      OBVIOUS
    <3> QED
      BY <3>1, <2>2, <2>3
  <2> QED
    BY <2>3, <2>4
<1>2. \A n \in Nat : some(n) \in [ 0..n -> T ] /\ Upto(n, some(n))
  BY <1>1
<1> HIDE DEF some
<1>3. all \in [ Nat -> T ] /\ all[0] = b
  BY <1>2
<1>4. ASSUME NEW n \in Nat PROVE all[n + 1] = step[all[n]]
  <2>1. n + 1 \in Nat /\ n \in 0..((n + 1) - 1)
    OBVIOUS
  <2>2. /\ some(n)[0] = b /\ some(n + 1)[0] = b
        /\ some(n + 1)[n + 1] = step[some(n + 1)[n]]
        /\ \A k \in 0..(n - 1) : /\ some(n)[k + 1] = step[some(n)[k]]
                                 /\ some(n + 1)[k + 1] = step[some(n + 1)[k]]
    BY <1>2, <2>1
  <2>3. some(n)[n] = some(n + 1)[n]
    BY <2>2, SameStates
  <2> QED
    BY <2>1, <2>2, <2>3
<1> QED
  BY <1>3, <1>4

=============================================================================
