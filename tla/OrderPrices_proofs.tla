-------------------------- MODULE OrderPrices_proofs -------------------------
(***************************************************************************)
(* The numbers of symbols, for any universe and any list of dex that the   *)
(* exchange may grow between downloads; and the prices and quantities that *)
(* are sent, for any orders of decimal numbers of any length.              *)
(*                                                                         *)
(* The arithmetic comes first: powers of ten, what a multiple is, what the *)
(* last zeros are, how far a rounding goes and what it leaves of the       *)
(* figures.  Then the invariant, and the theorems.                         *)
(***************************************************************************)
EXTENDS OrderPrices, Induction

-----------------------------------------------------------------------------
(* Powers of ten                                                           *)

(* The recursion has a solution, and Ten is it. *)
LEMMA TenEquations ==
  /\ Ten \in [ Nat -> Nat ] /\ Ten[0] = 1
  /\ \A k \in Nat : Ten[k + 1] = 10 * Ten[k]
<1> DEFINE Solves(f) == f = [ k \in Nat |-> IF k = 0 THEN 1 ELSE 10 * f[k - 1] ]
           step == [ n \in Nat |-> 10 * n ]
<1>1. step \in Step(Nat) /\ \A n \in Nat : step[n] = 10 * n
  BY DEF Step
<1> HIDE DEF step
<1>2. PICK f \in [ Nat -> Nat ] : f[0] = 1 /\ \A n \in Nat : f[n + 1] = step[f[n]]
  <2> DEFINE one == 1
             T   == Nat
  <2>1. one \in T /\ step \in Step(T)
    BY <1>1
  <2> HIDE DEF one, T
  <2>2. \E f \in [ Nat -> T ] : f[0] = one /\ \A n \in Nat : f[n + 1] = step[f[n]]
    BY <2>1, Iteration
  <2> QED
    BY <2>2 DEF one, T
<1>3. Solves(f)
  <2>1. ASSUME NEW k \in Nat, k # 0 PROVE f[k] = 10 * f[k - 1]
    <3>1. k - 1 \in Nat /\ (k - 1) + 1 = k
      BY <2>1
    <3>2. f[k - 1] \in Nat
      BY <3>1
    <3>3. f[k] = step[f[k - 1]]
      BY <1>2, <3>1
    <3> QED
      BY <1>1, <3>2, <3>3
  <2>2. \A k \in Nat : f[k] = IF k = 0 THEN 1 ELSE 10 * f[k - 1]
    BY <1>2, <2>1
  <2> QED
    BY <2>2
<1>4. Ten = CHOOSE g : Solves(g)
  BY DEF Ten
<1>5. Solves(Ten)
  BY <1>3, <1>4
<1> HIDE DEF Solves
<1>6. Ten[0] = 1 /\ DOMAIN Ten = Nat /\ \A k \in Nat : Ten[k + 1] = 10 * Ten[k]
  <2>1. Ten = [ k \in Nat |-> IF k = 0 THEN 1 ELSE 10 * Ten[k - 1] ]
    BY <1>5 DEF Solves
  <2>2. \A k \in Nat : k + 1 \in Nat /\ k + 1 # 0 /\ (k + 1) - 1 = k
    OBVIOUS
  <2> QED
    BY <2>1, <2>2
<1> DEFINE S == { k \in Nat : Ten[k] \in Nat }
<1>7. S = Nat
  <2>1. 0 \in S /\ \A k \in S : k + 1 \in S
    BY <1>6
  <2>2. S \in SUBSET Nat
    OBVIOUS
  <2> HIDE DEF S
  <2> QED
    BY <2>1, <2>2, SetInduction
<1>8. \A k \in Nat : Ten[k] \in Nat
  BY <1>7
<1>9. Ten = [ k \in Nat |-> Ten[k] ]
  BY <1>5 DEF Solves
<1>10. Ten \in [ Nat -> Nat ]
  <2> HIDE DEF S
  <2> QED
    BY <1>8, <1>9
<1> QED
  BY <1>6, <1>10

(* A power of ten is a number from 1, and the next is ten times it. *)
LEMMA TenPositive ==
  ASSUME NEW k \in Nat
  PROVE  Ten[k] \in Nat /\ 1 <= Ten[k] /\ Ten[k + 1] = 10 * Ten[k]
<1> DEFINE S == { n \in Nat : 1 <= Ten[n] }
<1>1. S \in SUBSET Nat /\ 0 \in S
  BY TenEquations
<1>2. ASSUME NEW n \in S PROVE n + 1 \in S
  <2>1. Ten[n] \in Nat /\ Ten[n + 1] = 10 * Ten[n] /\ 1 <= Ten[n]
    BY TenEquations
  <2>2. 1 <= Ten[n + 1]
    BY <2>1
  <2> QED
    BY <2>2
<1>3. S = Nat
  <2> HIDE DEF S
  <2> QED
    BY <1>1, <1>2, SetInduction
<1> QED
  BY <1>3, TenEquations

(* Exponents add up: by induction on the second. *)
LEMMA TenPlus ==
  ASSUME NEW a \in Nat, NEW b \in Nat
  PROVE  Ten[a + b] = Ten[a] * Ten[b]
<1> DEFINE S == { n \in Nat : Ten[a + n] = Ten[a] * Ten[n] }
<1>1. S \in SUBSET Nat /\ 0 \in S
  BY TenEquations
<1>2. ASSUME NEW n \in S PROVE n + 1 \in S
  <2>1. /\ a + n \in Nat /\ a + (n + 1) = (a + n) + 1 /\ n \in Nat
        /\ Ten[a + n] = Ten[a] * Ten[n]
    OBVIOUS
  <2>2. /\ Ten[a] \in Nat /\ Ten[n] \in Nat
        /\ Ten[a + (n + 1)] = 10 * Ten[a + n] /\ Ten[n + 1] = 10 * Ten[n]
    BY <2>1, TenEquations
  <2>3. Ten[a] * (10 * Ten[n]) = 10 * (Ten[a] * Ten[n])
    BY <2>2
  <2> QED
    BY <2>1, <2>2, <2>3
<1>3. S = Nat
  <2> HIDE DEF S
  <2> QED
    BY <1>1, <1>2, SetInduction
<1> QED
  BY <1>3

(* A larger exponent is a larger power, ten times at least. *)
LEMMA TenLess ==
  ASSUME NEW a \in Nat, NEW b \in Nat, a < b
  PROVE  10 * Ten[a] <= Ten[b]
<1>1. b - a - 1 \in Nat /\ b = (a + 1) + (b - a - 1) /\ a + 1 \in Nat
  OBVIOUS
<1> DEFINE r == Ten[b - a - 1]
           t == Ten[a + 1]
<1>2. Ten[b] = t * r
  BY <1>1, TenPlus
<1>3. r \in Nat /\ 1 <= r /\ t \in Nat /\ t = 10 * Ten[a]
  BY <1>1, TenPositive
<1> HIDE DEF r, t
<1>4. t <= t * r
  <2>1. PICK q \in Nat : r = 1 + q
    <3>1. r - 1 \in Nat /\ r = 1 + (r - 1)
      BY <1>3
    <3> QED
      BY <3>1
  <2>2. t * r = t + t * q /\ t * q \in Nat
    BY <1>3, <2>1
  <2> QED
    BY <1>3, <2>2
<1> QED
  BY <1>2, <1>3, <1>4

(* Division with a rest, as far as it is used. *)
LEMMA Division ==
  ASSUME NEW a \in Nat, NEW b \in Nat \ {0}
  PROVE  /\ a \div b \in Nat /\ a % b \in 0..(b - 1)
         /\ a = b * (a \div b) + (a % b)
OBVIOUS

(* It is the only one. *)
LEMMA DivisionUnique ==
  ASSUME NEW b \in Nat \ {0}, NEW q \in Nat, NEW r \in 0..(b - 1)
  PROVE  (b * q + r) \div b = q /\ (b * q + r) % b = r
OBVIOUS

(* A larger exponent does not give a smaller power. *)
LEMMA TenMonotone ==
  ASSUME NEW a \in Nat, NEW b \in Nat, a <= b
  PROVE  Ten[a] <= Ten[b]
<1>1. Ten[a] \in Nat /\ Ten[b] \in Nat
  BY TenPositive
<1>2. CASE a < b
  <2>1. 10 * Ten[a] <= Ten[b]
    BY <1>2, TenLess
  <2> QED
    BY <1>1, <2>1
<1>3. CASE a = b
  BY <1>1, <1>3
<1> QED
  BY <1>2, <1>3

(* Products keep an order, and what is equal. *)
LEMMA Products ==
  ASSUME NEW t \in Nat, 1 <= t, NEW a \in Int, NEW b \in Int
  PROVE  /\ a * t \in Int
         /\ a <= b <=> a * t <= b * t
         /\ a < b <=> a * t < b * t
         /\ a * t = b * t => a = b
<1>1. a * t \in Int /\ b * t \in Int
  OBVIOUS
<1>2. \A c, d \in Int : c < d => c * t < d * t
  <2> TAKE c, d \in Int
  <2> HAVE c < d
  <2>1. PICK n \in Nat : d = c + 1 + n
    <3>1. d - c - 1 \in Nat /\ d = c + 1 + (d - c - 1)
      OBVIOUS
    <3> QED
      BY <3>1
  <2>2. d * t = c * t + t + n * t /\ n * t \in Nat /\ c * t \in Int
    BY <2>1
  <2> QED
    BY <2>2
<1>3. a < b => a * t < b * t
  BY <1>2
<1>4. b < a => b * t < a * t
  BY <1>2
<1> QED
  BY <1>1, <1>3, <1>4

-----------------------------------------------------------------------------
(* Numbers                                                                 *)

(* What a number is made of. *)
LEMMA NumberFields ==
  ASSUME NEW x \in Numbers
  PROVE  x.m \in Nat /\ x.m < Ten[MaxDigits] /\ x.e \in Int /\ Ten[MaxDigits] \in Nat
<1>1. Ten[MaxDigits] \in Nat
  BY DigitsAssumption, TenPositive
<1>2. x.m \in 0..(Ten[MaxDigits] - 1) /\ x.e \in Int
  BY DEF Numbers
<1> QED
  BY <1>1, <1>2

(* What makes a number. *)
LEMMA ANumber ==
  ASSUME NEW m \in Nat, m < Ten[MaxDigits], NEW e \in Int
  PROVE  /\ Decimal(m, e) \in Numbers
         /\ Decimal(m, e).m = m /\ Decimal(m, e).e = e
<1>1. Ten[MaxDigits] \in Nat
  BY DigitsAssumption, TenPositive
<1>2. m \in 0..(Ten[MaxDigits] - 1)
  BY <1>1
<1> QED
  BY <1>2 DEF Decimal, Numbers

(* A mantissa has a number of digits. *)
LEMMA DigitsOf ==
  ASSUME NEW m \in Nat, m # 0, m < Ten[MaxDigits]
  PROVE  /\ Digits(m) \in 1..MaxDigits
         /\ Ten[Digits(m) - 1] <= m /\ m < Ten[Digits(m)]
<1> DEFINE P(d) == Ten[d - 1] <= m /\ m < Ten[d]
           D == MaxDigits
           S == { k \in 0..D : Ten[k] <= m }
<1>1. \E d \in 1..D : P(d)
  <2> SUFFICES ASSUME \A d \in 1..D : ~P(d) PROVE FALSE
    OBVIOUS
  <2>1. D \in Nat
    BY DigitsAssumption
  <2>2. 0 \in S
    BY <2>1, TenEquations
  <2>3. ASSUME NEW k \in 0..(D - 1), k \in S PROVE k + 1 \in S
    <3>1. k + 1 \in 1..D /\ (k + 1) - 1 = k /\ k + 1 \in 0..D /\ k \in Nat
      BY <2>1
    <3>2. Ten[k] <= m /\ ~P(k + 1) /\ Ten[k + 1] \in Nat
      BY <2>3, <3>1, TenPositive
    <3>3. Ten[k + 1] <= m
      BY <3>1, <3>2
    <3> QED
      BY <3>1, <3>3
  <2>4. 0..D \subseteq S
    <3> HIDE DEF S, D
    <3> QED
      BY <2>1, <2>2, <2>3, BoundedInduction
  <2>5. Ten[D] <= m /\ Ten[D] \in Nat
    BY <2>1, <2>4, TenPositive
  <2> QED
    BY <2>5
<1>2. Digits(m) = CHOOSE d \in 1..D : P(d)
  BY DEF Digits
<1> HIDE DEF P
<1>3. Digits(m) \in 1..D /\ P(Digits(m))
  BY <1>1, <1>2
<1> QED
  BY <1>3 DEF P

(* It is the only one: powers of ten below and above bound it. *)
LEMMA DigitsBounds ==
  ASSUME NEW m \in Nat, m # 0, m < Ten[MaxDigits], NEW a \in Nat
  PROVE  /\ m < Ten[a] => Digits(m) <= a
         /\ Ten[a] <= m => a + 1 <= Digits(m)
<1> DEFINE d == Digits(m)
<1>1. d \in 1..MaxDigits /\ Ten[d - 1] <= m /\ m < Ten[d] /\ MaxDigits \in Nat
  BY DigitsOf, DigitsAssumption
<1> HIDE DEF d
<1>2. d \in Nat /\ d - 1 \in Nat /\ Ten[d] \in Nat /\ Ten[d - 1] \in Nat /\ Ten[a] \in Nat
  BY <1>1, TenPositive
<1>3. ASSUME m < Ten[a], ~(d <= a) PROVE FALSE
  <2>1. a <= d - 1
    BY <1>2, <1>3
  <2>2. Ten[a] <= Ten[d - 1]
    BY <1>2, <2>1, TenMonotone
  <2> QED
    BY <1>1, <1>2, <1>3, <2>2
<1>4. ASSUME Ten[a] <= m, ~(a + 1 <= d) PROVE FALSE
  <2>1. d <= a
    BY <1>2, <1>4
  <2>2. Ten[d] <= Ten[a]
    BY <1>2, <2>1, TenMonotone
  <2> QED
    BY <1>1, <1>2, <1>4, <2>2
<1> QED
  BY <1>3, <1>4 DEF d

(* What Multiple says, without its bound. *)
LEMMA MultipleMeans ==
  ASSUME NEW x \in Numbers, NEW k \in Int
  PROVE  Multiple(x, k) <=> \/ x.m = 0 \/ k <= x.e
                            \/ \E q \in Nat : x.m = Ten[k - x.e] * q
<1>1. x.m \in Nat /\ x.m < Ten[MaxDigits] /\ x.e \in Int /\ Ten[MaxDigits] \in Nat
  BY NumberFields
<1> SUFFICES ASSUME x.m # 0, ~(k <= x.e)
             PROVE  (k - x.e <= MaxDigits /\ x.m % Ten[k - x.e] = 0) <=>
                      \E q \in Nat : x.m = Ten[k - x.e] * q
  BY DEF Multiple
<1> DEFINE n == k - x.e
           m == x.m
<1>2. n \in Nat /\ n # 0 /\ MaxDigits \in Nat
  BY <1>1, DigitsAssumption
<1>3. Ten[n] \in Nat \ {0}
  BY <1>2, TenPositive
<1> HIDE DEF n, m
<1>4. ASSUME m % Ten[n] = 0 PROVE \E q \in Nat : m = Ten[n] * q
  <2>1. m \in Nat
    BY <1>1 DEF m
  <2>2. m \div Ten[n] \in Nat /\ m = Ten[n] * (m \div Ten[n]) + (m % Ten[n])
    BY <1>3, <2>1, Division
  <2>3. m = Ten[n] * (m \div Ten[n])
    BY <1>3, <1>4, <2>2
  <2> QED
    BY <2>2, <2>3
<1>5. ASSUME NEW q \in Nat, m = Ten[n] * q PROVE n <= MaxDigits /\ m % Ten[n] = 0
  <2>1. q # 0
    BY <1>3, <1>5 DEF m
  <2>2. 1 * Ten[n] <= q * Ten[n]
    BY <1>3, <2>1, Products
  <2>3. Ten[n] <= m
    BY <1>3, <1>5, <2>2
  <2>4. n <= MaxDigits
    <3>1. ASSUME ~(n <= MaxDigits) PROVE FALSE
      <4>1. Ten[MaxDigits] <= Ten[n]
        BY <1>2, <3>1, TenMonotone
      <4> QED
        BY <1>1, <1>3, <2>3, <4>1 DEF m
    <3> QED
      BY <3>1
  <2>5. (Ten[n] * q + 0) % Ten[n] = 0
    BY <1>3, DivisionUnique
  <2>6. Ten[n] * q + 0 = m
    BY <1>1, <1>5 DEF m
  <2> QED
    BY <2>4, <2>5, <2>6
<1> QED
  BY <1>4, <1>5 DEF n, m

(* A multiple of a power is one of every smaller power. *)
LEMMA MultipleLess ==
  ASSUME NEW x \in Numbers, NEW k \in Int, Multiple(x, k), NEW j \in Int, j <= k
  PROVE  Multiple(x, j)
<1>1. x.m \in Nat /\ x.e \in Int
  BY NumberFields
<1>2. CASE x.m = 0 \/ j <= x.e
  BY <1>2, MultipleMeans
<1>3. CASE ~(x.m = 0 \/ j <= x.e)
  <2>1. PICK q \in Nat : x.m = Ten[k - x.e] * q
    BY <1>1, <1>3, MultipleMeans
  <2> DEFINE a == j - x.e
             b == k - j
  <2>2. a \in Nat /\ b \in Nat /\ k - x.e = a + b
    BY <1>1, <1>3
  <2> HIDE DEF a, b
  <2>3. x.m = (Ten[a] * Ten[b]) * q
    BY <2>1, <2>2, TenPlus
  <2>4. Ten[a] \in Nat /\ Ten[b] \in Nat
    BY <2>2, TenPositive
  <2>5. Ten[b] * q \in Nat /\ x.m = Ten[a] * (Ten[b] * q)
    BY <2>3, <2>4
  <2> QED
    BY <2>5, MultipleMeans DEF a
<1> QED
  BY <1>2, <1>3

-----------------------------------------------------------------------------
(* Without the zeros at the end                                            *)

(* The zeros at the end of a mantissa can be counted: they are fewer than  *)
(* its digits.                                                             *)
LEMMA ZerosOf ==
  ASSUME NEW m \in Nat, m # 0, m < Ten[MaxDigits]
  PROVE  \E z \in 0..MaxDigits : m % Ten[z] = 0 /\ m % Ten[z + 1] # 0
<1> DEFINE D == MaxDigits
           S == { k \in 0..D : m % Ten[k] = 0 }
<1> SUFFICES ASSUME \A z \in 0..D : ~(m % Ten[z] = 0 /\ m % Ten[z + 1] # 0)
             PROVE  FALSE
  OBVIOUS
<1>1. D \in Nat
  BY DigitsAssumption
<1>2. 0 \in S
  <2>1. m % Ten[0] \in 0..(Ten[0] - 1) /\ Ten[0] = 1
    BY TenEquations, Division
  <2> QED
    BY <1>1, <2>1
<1>3. ASSUME NEW k \in 0..(D - 1), k \in S PROVE k + 1 \in S
  BY <1>1, <1>3
<1>4. 0..D \subseteq S
  <2> HIDE DEF S, D
  <2> QED
    BY <1>1, <1>2, <1>3, BoundedInduction
<1>5. Ten[D] \in Nat \ {0} /\ m \in 0..(Ten[D] - 1)
  BY <1>1, TenPositive
<1>6. m % Ten[D] = 0
  BY <1>1, <1>4
<1>7. (Ten[D] * 0 + m) % Ten[D] = m
  BY <1>5, DivisionUnique
<1>8. Ten[D] * 0 + m = m
  BY <1>5
<1> QED
  BY <1>6, <1>7, <1>8

(* Reduced takes the zeros from the mantissa and adds them to the          *)
(* exponent.                                                               *)
LEMMA ReducedMeans ==
  ASSUME NEW x \in Numbers, x.m # 0
  PROVE  LET r == Reduced(x) IN
         /\ r \in Numbers /\ r.m # 0 /\ r = Decimal(r.m, r.e)
         /\ r.m % Ten[1] # 0
         /\ \E z \in Nat : r.e = x.e + z /\ x.m = r.m * Ten[z]
<1> DEFINE Q(z) == x.m % Ten[z] = 0 /\ x.m % Ten[z + 1] # 0
           z == CHOOSE z \in 0..MaxDigits : Q(z)
           r == Reduced(x)
           m == x.m \div Ten[z]
<1>1. x.m \in Nat /\ x.m < Ten[MaxDigits] /\ x.e \in Int /\ Ten[MaxDigits] \in Nat
  BY NumberFields
<1>2. \E y \in 0..MaxDigits : Q(y)
  BY <1>1, ZerosOf
<1>3. r = Decimal(m, x.e + z)
  BY DEF Reduced
<1> HIDE DEF Q
<1>4. z \in 0..MaxDigits /\ Q(z)
  BY <1>2
<1> HIDE DEF z
<1>5. z \in Nat /\ x.m % Ten[z] = 0 /\ x.m % Ten[z + 1] # 0
  BY <1>4, DigitsAssumption DEF Q
<1>6. Ten[z] \in Nat \ {0} /\ Ten[z + 1] = 10 * Ten[z]
  BY <1>5, TenPositive
<1>7. m \in Nat /\ x.m = Ten[z] * m + (x.m % Ten[z])
  BY <1>1, <1>6, Division
<1> HIDE DEF m
<1>8. x.m = m * Ten[z]
  BY <1>5, <1>6, <1>7
<1>9. m # 0 /\ m <= x.m
  <2>1. m # 0
    BY <1>6, <1>8
  <2>2. m * 1 <= m * Ten[z]
    BY <1>6, <1>7, <2>1, Products
  <2> QED
    BY <1>7, <1>8, <2>1, <2>2
<1>10. r \in Numbers /\ r.m = m /\ r.e = x.e + z
  <2>1. m < Ten[MaxDigits] /\ x.e + z \in Int
    BY <1>1, <1>5, <1>7, <1>9
  <2> QED
    BY <1>3, <1>7, <2>1, ANumber
<1>11. m % Ten[1] # 0
  <2> SUFFICES ASSUME m % Ten[1] = 0 PROVE FALSE
    OBVIOUS
  <2>1. Ten[1] = 10
    <3>1. Ten[0 + 1] = 10 * Ten[0]
      BY TenEquations
    <3> QED
      BY <3>1, TenEquations
  <2>2. PICK q \in Nat : m = 10 * q
    <3>1. m \div 10 \in Nat /\ m = 10 * (m \div 10) + (m % 10)
      BY <1>7, Division
    <3> QED
      BY <2>1, <3>1
  <2>3. x.m = Ten[z + 1] * q + 0
    BY <1>6, <1>8, <2>2
  <2>4. (Ten[z + 1] * q + 0) % Ten[z + 1] = 0
    BY <1>6, DivisionUnique
  <2> QED
    BY <1>5, <2>3, <2>4
<1> HIDE DEF r
<1> QED
  BY <1>3, <1>5, <1>8, <1>9, <1>10, <1>11 DEF r

(* There is nothing to take from what is reduced. *)
LEMMA ReducedTwice ==
  ASSUME NEW x \in Numbers, x.m # 0, x = Decimal(x.m, x.e), x.m % Ten[1] # 0
  PROVE  Reduced(x) = x
<1> DEFINE Q(z) == x.m % Ten[z] = 0 /\ x.m % Ten[z + 1] # 0
           z == CHOOSE z \in 0..MaxDigits : Q(z)
<1>1. x.m \in Nat /\ x.m < Ten[MaxDigits] /\ x.e \in Int /\ Ten[MaxDigits] \in Nat
  BY NumberFields
<1>2. \E y \in 0..MaxDigits : Q(y)
  BY <1>1, ZerosOf
<1>3. Reduced(x) = Decimal(x.m \div Ten[z], x.e + z)
  BY DEF Reduced
<1> HIDE DEF Q
<1>4. z \in 0..MaxDigits /\ Q(z)
  BY <1>2
<1> HIDE DEF z
<1>5. z \in Nat /\ x.m % Ten[z] = 0
  BY <1>4, DigitsAssumption DEF Q
<1>6. z = 0
  <2> SUFFICES ASSUME z # 0 PROVE FALSE
    OBVIOUS
  <2> DEFINE n == z - 1
             q == x.m \div Ten[z]
  <2>1. n \in Nat /\ z = n + 1
    BY <1>5
  <2>2. Ten[n] \in Nat /\ Ten[z] = 10 * Ten[n] /\ Ten[z] \in Nat \ {0}
    BY <1>5, <2>1, TenPositive
  <2>3. q \in Nat /\ x.m = Ten[z] * q + (x.m % Ten[z])
    BY <1>1, <2>2, Division
  <2> HIDE DEF n, q
  <2>4. Ten[n] * q \in Nat /\ x.m = 10 * (Ten[n] * q) + 0
    BY <1>5, <2>2, <2>3
  <2>5. Ten[1] = 10
    <3>1. Ten[0 + 1] = 10 * Ten[0]
      BY TenEquations
    <3> QED
      BY <3>1, TenEquations
  <2>6. (10 * (Ten[n] * q) + 0) % 10 = 0
    BY <2>4, DivisionUnique
  <2> QED
    BY <2>4, <2>5, <2>6
<1>7. x.m \div Ten[z] = x.m
  <2>1. (1 * x.m + 0) \div 1 = x.m
    BY <1>1, DivisionUnique
  <2>2. 1 * x.m + 0 = x.m
    BY <1>1
  <2> QED
    BY <1>6, <2>1, <2>2, TenEquations
<1> QED
  BY <1>1, <1>3, <1>6, <1>7

(* A multiple stays one, *)
LEMMA ReducedMultiple ==
  ASSUME NEW x \in Numbers, NEW k \in Int, Multiple(x, k)
  PROVE  Multiple(Reduced(x), k)
<1>1. CASE x.m = 0
  BY <1>1 DEF Reduced, Zero, Decimal, Multiple
<1>2. CASE x.m # 0
  <2> DEFINE r == Reduced(x)
  <2>1. r \in Numbers /\ \E z \in Nat : r.e = x.e + z /\ x.m = r.m * Ten[z]
    BY <1>2, ReducedMeans
  <2> HIDE DEF r
  <2>2. PICK z \in Nat : r.e = x.e + z /\ x.m = r.m * Ten[z]
    BY <2>1
  <2>3. x.e \in Int /\ r.e \in Int /\ r.m \in Nat
    BY <2>1, NumberFields
  <2>4. CASE k <= r.e
    BY <2>1, <2>4, MultipleMeans DEF r
  <2>5. CASE ~(k <= r.e)
    <3>1. PICK q \in Nat : x.m = Ten[k - x.e] * q
      <4>1. ~(k <= x.e)
        BY <2>2, <2>3, <2>5
      <4> QED
        BY <1>2, <4>1, MultipleMeans
    <3> DEFINE n == k - r.e
    <3>2. n \in Nat /\ k - x.e = n + z
      BY <2>2, <2>3, <2>5
    <3> HIDE DEF n
    <3>3. Ten[n] \in Nat /\ Ten[z] \in Nat /\ 1 <= Ten[z]
      BY <3>2, TenPositive
    <3>4. x.m = (Ten[n] * Ten[z]) * q
      BY <3>1, <3>2, TenPlus
    <3> DEFINE g == Ten[n] * q
    <3>5. r.m * Ten[z] = g * Ten[z] /\ g \in Int
      BY <2>2, <3>3, <3>4
    <3> HIDE DEF g
    <3>6. r.m = g
      BY <2>3, <3>3, <3>5, Products
    <3> QED
      BY <2>1, <3>6, MultipleMeans DEF n, r, g
  <2> QED
    BY <2>4, <2>5
<1> QED
  BY <1>1, <1>2

(* the magnitude stays the same, *)
LEMMA ReducedMagnitude ==
  ASSUME NEW x \in Numbers
  PROVE  Magnitude(Reduced(x)) = Magnitude(x)
<1>1. CASE x.m = 0
  BY <1>1 DEF Reduced, Zero, Decimal, Magnitude
<1>2. CASE x.m # 0
  <2> DEFINE r == Reduced(x)
             d == Digits(r.m)
             c == Digits(x.m)
  <2>1. r \in Numbers /\ r.m # 0 /\ \E z \in Nat : r.e = x.e + z /\ x.m = r.m * Ten[z]
    BY <1>2, ReducedMeans
  <2> HIDE DEF r
  <2>2. PICK z \in Nat : r.e = x.e + z /\ x.m = r.m * Ten[z]
    BY <2>1
  <2>3. /\ x.e \in Int /\ r.e \in Int /\ r.m \in Nat /\ x.m \in Nat
        /\ r.m < Ten[MaxDigits] /\ x.m < Ten[MaxDigits]
    BY <2>1, NumberFields
  <2>4. d \in Nat /\ d - 1 \in Nat /\ Ten[d - 1] <= r.m /\ r.m < Ten[d]
    BY <2>1, <2>3, DigitsOf, DigitsAssumption
  <2>5. c \in Nat
    BY <1>2, <2>3, DigitsOf, DigitsAssumption
  <2>6. Ten[d - 1] \in Nat /\ Ten[d] \in Nat /\ Ten[z] \in Nat /\ 1 <= Ten[z]
    BY <2>4, TenPositive
  <2> HIDE DEF d
  <2>7. Ten[d - 1] * Ten[z] <= x.m /\ x.m < Ten[d] * Ten[z]
    BY <2>2, <2>3, <2>4, <2>6, Products
  <2>8. /\ (d - 1) + z \in Nat /\ d + z \in Nat
        /\ Ten[(d - 1) + z] <= x.m /\ x.m < Ten[d + z]
    BY <2>4, <2>7, TenPlus
  <2>9. c <= d + z /\ ((d - 1) + z) + 1 <= c
    BY <1>2, <2>3, <2>8, DigitsBounds
  <2> HIDE DEF c
  <2>10. c - 1 + x.e = d - 1 + r.e
    BY <2>2, <2>3, <2>4, <2>5, <2>9
  <2> QED
    BY <1>2, <2>1, <2>10 DEF Magnitude, r, d, c
<1> QED
  BY <1>1, <1>2

(* and a large integer stays one. *)
LEMMA ReducedLarge ==
  ASSUME NEW x \in Numbers, LargeInteger(x)
  PROVE  LargeInteger(Reduced(x))
<1> DEFINE r == Reduced(x)
<1>1. Magnitude(x) >= 5 /\ Multiple(x, 0) /\ r # Decimal(1, 5)
  BY DEF LargeInteger
<1>2. x.m # 0
  BY <1>1 DEF Magnitude
<1>3. r \in Numbers /\ r.m # 0 /\ r = Decimal(r.m, r.e) /\ r.m % Ten[1] # 0
  BY <1>2, ReducedMeans
<1>4. Magnitude(r) = Magnitude(x) /\ Multiple(r, 0)
  BY <1>1, ReducedMagnitude, ReducedMultiple
<1> HIDE DEF r
<1>5. Reduced(r) = r
  BY <1>3, ReducedTwice
<1>6. LargeInteger(r)
  BY <1>1, <1>4, <1>5 DEF LargeInteger
<1> QED
  BY <1>6 DEF r

-----------------------------------------------------------------------------
(* Rounding                                                                *)

(* What is not a multiple goes to a neighbour, up or down, by half a unit  *)
(* at most.                                                                *)
LEMMA RoundedMeans ==
  ASSUME NEW x \in Numbers, NEW k \in Int, ~Multiple(x, k), NEW z \in Rounded(x, k)
  PROVE  LET unit == Ten[k - x.e] IN
         /\ x.m # 0 /\ x.e < k /\ k - x.e \in Nat
         /\ z.e = k /\ z.m \in Nat /\ z = Decimal(z.m, k)
         /\ 2 * (z.m * unit) <= 2 * x.m + unit
         /\ 2 * x.m <= 2 * (z.m * unit) + unit
<1> DEFINE n == k - x.e
           u == Ten[n]
           m == x.m
<1>1. m \in Nat /\ m < Ten[MaxDigits] /\ x.e \in Int /\ Ten[MaxDigits] \in Nat
  BY NumberFields
<1>2. m # 0 /\ x.e < k
  BY <1>1, MultipleMeans
<1>3. n \in Nat /\ n # 0
  BY <1>1, <1>2
<1>4. u \in Nat \ {0}
  BY <1>3, TenPositive
<1>5. CASE n > MaxDigits
  <2>1. z = Decimal(0, k)
    BY <1>5 DEF Rounded
  <2>2. 10 * Ten[MaxDigits] <= u
    BY <1>3, <1>5, TenLess, DigitsAssumption
  <2>3. z.m = 0 /\ z.e = k
    BY <2>1 DEF Decimal
  <2> HIDE DEF n, u, m
  <2>4. 2 * m <= u /\ z.m * u = 0
    BY <1>1, <1>4, <2>2, <2>3
  <2> QED
    BY <1>1, <1>2, <1>3, <1>4, <2>1, <2>3, <2>4 DEF n, u, m
<1>6. CASE ~(n > MaxDigits)
  <2> DEFINE down == m \div u
             rest == m % u
  <2>1. \/ 2 * rest <= u /\ z = Decimal(down, k)
        \/ 2 * rest >= u /\ z = Decimal(down + 1, k)
    BY <1>6 DEF Rounded
  <2> HIDE DEF n, u, m
  <2>2. down \in Nat /\ rest \in 0..(u - 1) /\ m = u * down + rest
    BY <1>1, <1>4, Division
  <2> HIDE DEF down, rest
  <2>3. u * down \in Nat /\ (down + 1) * u = u * down + u /\ down * u = u * down
    BY <1>4, <2>2
  <2>4. CASE 2 * rest <= u /\ z = Decimal(down, k)
    <3>1. z.m = down /\ z.e = k
      BY <2>4 DEF Decimal
    <3>2. z.m * u = u * down
      BY <2>3, <3>1
    <3>3. 2 * (z.m * u) <= 2 * m + u /\ 2 * m <= 2 * (z.m * u) + u
      BY <1>4, <2>2, <2>3, <2>4, <3>2
    <3> QED
      BY <1>2, <1>3, <2>2, <2>4, <3>1, <3>3 DEF n, u, m
  <2>5. CASE 2 * rest >= u /\ z = Decimal(down + 1, k)
    <3>1. z.m = down + 1 /\ z.e = k
      BY <2>5 DEF Decimal
    <3>2. z.m * u = u * down + u
      BY <2>3, <3>1
    <3>3. 2 * (z.m * u) <= 2 * m + u /\ 2 * m <= 2 * (z.m * u) + u
      BY <1>4, <2>2, <2>3, <2>5, <3>2
    <3> QED
      BY <1>2, <1>3, <2>2, <2>5, <3>1, <3>3 DEF n, u, m
  <2> QED
    BY <2>1, <2>4, <2>5
<1> QED
  BY <1>5, <1>6

(* It is a multiple then, and no longer than before. *)
LEMMA RoundedMultiple ==
  ASSUME NEW x \in Numbers, NEW k \in Int, NEW z \in Rounded(x, k)
  PROVE  z \in Numbers /\ Multiple(z, k)
<1>1. CASE Multiple(x, k)
  BY <1>1 DEF Rounded
<1>2. CASE ~Multiple(x, k)
  <2> DEFINE u == Ten[k - x.e]
  <2>1. /\ x.m # 0 /\ x.e < k /\ k - x.e \in Nat
        /\ z.e = k /\ z.m \in Nat /\ z = Decimal(z.m, k)
        /\ 2 * (z.m * u) <= 2 * x.m + u
    BY <1>2, RoundedMeans
  <2>2. x.m \in Nat /\ x.m < Ten[MaxDigits] /\ x.e \in Int /\ Ten[MaxDigits] \in Nat
    BY NumberFields
  <2>3. u \in Nat /\ 10 <= u
    <3>1. 10 * Ten[0] <= u
      BY <2>1, <2>2, TenLess
    <3> QED
      BY <2>1, <3>1, TenEquations
  <2> HIDE DEF u
  <2>4. z.m <= x.m
    <3>1. CASE z.m = 0
      BY <2>2, <3>1
    <3>2. CASE z.m # 0
      <4> DEFINE b == 2 * z.m - 1
      <4>1. b \in Nat /\ 2 * (z.m * u) = b * u + u /\ b * u \in Nat
        BY <2>1, <2>3, <3>2
      <4>2. b * u <= 2 * x.m
        BY <2>1, <2>2, <2>3, <4>1
      <4>3. b * 10 <= b * u
        <5> HIDE DEF b
        <5>1. u - 10 \in Nat /\ u = 10 + (u - 10)
          BY <2>3
        <5>2. PICK v \in Nat : u = 10 + v
          BY <5>1
        <5>3. b * u = b * 10 + b * v /\ b * v \in Nat /\ b * 10 \in Nat
          BY <4>1, <5>2
        <5> QED
          BY <5>3
      <4> QED
        BY <2>1, <2>2, <3>2, <4>1, <4>2, <4>3
    <3> QED
      BY <3>1, <3>2
  <2>5. z \in Numbers
    BY <2>1, <2>2, <2>4, ANumber
  <2>6. Multiple(z, k)
    BY <2>1 DEF Multiple
  <2> QED
    BY <2>5, <2>6
<1> QED
  BY <1>1, <1>2

(* Rounding carries into the next power of ten at most, and to that power  *)
(* exactly.                                                                *)
LEMMA RoundedMagnitude ==
  ASSUME NEW x \in Numbers, NEW k \in Int, NEW z \in Rounded(x, k), z.m # 0
  PROVE  /\ x.m # 0 /\ Magnitude(x) \in Int /\ Magnitude(z) \in Int
         /\ \/ Magnitude(z) <= Magnitude(x)
            \/ Magnitude(z) = Magnitude(x) + 1 /\ Multiple(z, Magnitude(x) + 1)
<1>1. /\ x.m \in Nat /\ x.m < Ten[MaxDigits] /\ x.e \in Int
      /\ z \in Numbers /\ z.m \in Nat /\ z.m < Ten[MaxDigits] /\ z.e \in Int
  BY RoundedMultiple, NumberFields
<1>2. CASE Multiple(x, k)
  <2>1. z = x
    BY <1>2 DEF Rounded
  <2>2. Digits(x.m) \in Int
    BY <1>1, <2>1, DigitsOf
  <2>3. Magnitude(x) \in Int
    BY <1>1, <2>1, <2>2 DEF Magnitude
  <2> QED
    BY <2>1, <2>3
<1>3. CASE ~Multiple(x, k)
  <2> DEFINE n == k - x.e
             u == Ten[n]
             d == Digits(x.m)
             c == Digits(z.m)
  <2>1. /\ x.m # 0 /\ x.e < k /\ n \in Nat
        /\ z.e = k /\ 2 * (z.m * u) <= 2 * x.m + u
    BY <1>3, RoundedMeans
  <2>2. u \in Nat /\ 1 <= u
    BY <2>1, TenPositive
  <2>3. d \in Nat /\ x.m < Ten[d] /\ Ten[d] \in Nat /\ c \in Nat
    BY <1>1, <2>1, DigitsOf, DigitsAssumption, TenPositive
  <2>4. Magnitude(x) = d - 1 + x.e /\ Magnitude(z) = c - 1 + k
    BY <2>1 DEF Magnitude
  <2>5. u <= z.m * u
    <3> HIDE DEF u
    <3> DEFINE one == 1
    <3>1. one \in Int /\ one * u = u /\ one <= z.m
      BY <1>1, <2>2
    <3> HIDE DEF one
    <3> QED
      BY <1>1, <2>2, <3>1, Products
  <2>6. n <= d
    <3> SUFFICES ASSUME ~(n <= d) PROVE FALSE
      OBVIOUS
    <3>1. 10 * Ten[d] <= u
      BY <2>1, <2>3, TenLess
    <3> HIDE DEF n, u, d, c
    <3>2. u <= z.m * u /\ z.m * u \in Int
      BY <1>1, <2>2, <2>5
    <3> QED
      BY <1>1, <2>1, <2>2, <2>3, <3>1, <3>2
  <2> DEFINE a == d - n
             t == Ten[a]
  <2>7. a \in Nat /\ d = a + n
    BY <2>1, <2>3, <2>6
  <2>8. t \in Nat /\ 1 <= t /\ Ten[d] = t * u
    <3>1. Ten[a + n] = Ten[a] * Ten[n]
      <4> HIDE DEF a, n
      <4> QED
        BY <2>1, <2>7, TenPlus
    <3>2. Ten[a] \in Nat /\ 1 <= Ten[a]
      <4> HIDE DEF a
      <4> QED
        BY <2>7, TenPositive
    <3>3. Ten[d] = Ten[a + n]
      <4> HIDE DEF a, d, n
      <4> QED
        BY <2>7
    <3> QED
      BY <3>1, <3>2, <3>3
  <2>9. z.m <= t
    <3> SUFFICES ASSUME ~(z.m <= t) PROVE FALSE
      OBVIOUS
    <3> HIDE DEF n, u, d, c, a, t
    <3>1. (t + 1) * u <= z.m * u
      <4>1. t + 1 <= z.m /\ t + 1 \in Int
        BY <1>1, <2>8
      <4> QED
        BY <1>1, <2>2, <4>1, Products
    <3>2. (t + 1) * u = t * u + u /\ t * u \in Nat /\ z.m * u \in Nat
      BY <1>1, <2>2, <2>8
    <3> QED
      BY <1>1, <2>1, <2>2, <2>3, <2>8, <3>1, <3>2
  <2>10. CASE z.m < t
    <3>1. c <= a
      BY <1>1, <2>7, <2>10, DigitsBounds
    <3> HIDE DEF c, d
    <3> QED
      BY <1>1, <2>1, <2>3, <2>4, <2>7, <3>1
  <2>11. CASE z.m = t
    <3>1. a + 1 <= c
      BY <1>1, <2>7, <2>8, <2>11, DigitsBounds
    <3>2. c <= a + 1
      <4>1. z.m < Ten[a + 1] /\ a + 1 \in Nat
        BY <2>7, <2>8, <2>11, TenPositive
      <4> QED
        BY <1>1, <4>1, DigitsBounds
    <3>3. Magnitude(z) = Magnitude(x) + 1 /\ Magnitude(x) \in Int /\ Magnitude(z) \in Int
      <4> HIDE DEF c, d
      <4> QED
        BY <1>1, <2>1, <2>3, <2>4, <2>7, <3>1, <3>2
    <3>4. (Magnitude(x) + 1) - z.e = a
      <4> HIDE DEF d
      <4> QED
        BY <1>1, <2>1, <2>3, <2>4
    <3>5. z.m = Ten[(Magnitude(x) + 1) - z.e] * 1
      BY <2>8, <2>11, <3>4
    <3>6. Multiple(z, Magnitude(x) + 1)
      <4> DEFINE j == Magnitude(x) + 1
      <4>1. j \in Int
        BY <3>3
      <4>2. z.m = Ten[j - z.e] * 1
        BY ONLY <3>5
      <4> HIDE DEF j
      <4>3. \E q \in Nat : z.m = Ten[j - z.e] * q
        BY <4>2
      <4>4. Multiple(z, j)
        BY <1>1, <4>1, <4>3, MultipleMeans
      <4> QED
        BY <4>4 DEF j
    <3> QED
      BY <2>1, <3>3, <3>6
  <2> HIDE DEF t
  <2>12. z.m < t \/ z.m = t
    BY <1>1, <2>8, <2>9
  <2> QED
    BY <2>10, <2>11, <2>12
<1> QED
  BY <1>2, <1>3

-----------------------------------------------------------------------------
(* Significant figures                                                     *)

Figures(x) == x.m = 0 \/ Multiple(x, Magnitude(x) - 4)

(* A magnitude is an integer, that of zero too. *)
LEMMA MagnitudeInt ==
  ASSUME NEW x \in Numbers
  PROVE  Magnitude(x) \in Int
<1>1. CASE x.m = 0
  BY <1>1 DEF Magnitude
<1>2. CASE x.m # 0
  <2>1. Digits(x.m) \in Int /\ x.e \in Int
    BY <1>2, DigitsOf, NumberFields
  <2> QED
    BY <1>2, <2>1 DEF Magnitude
<1> QED
  BY <1>1, <1>2

(* Five figures are five after a carry. *)
LEMMA FiguresRounded ==
  ASSUME NEW x \in Numbers, NEW y \in SignificantFigures(x)
  PROVE  y \in Numbers /\ Figures(y)
<1> DEFINE k == Magnitude(x) - 4
<1>1. k \in Int /\ y \in Rounded(x, k)
  BY MagnitudeInt DEF SignificantFigures
<1>2. y \in Numbers /\ Multiple(y, k)
  BY <1>1, RoundedMultiple
<1>3. CASE y.m # 0
  <2>1. /\ Magnitude(x) \in Int /\ Magnitude(y) \in Int
        /\ \/ Magnitude(y) <= Magnitude(x)
           \/ Magnitude(y) = Magnitude(x) + 1 /\ Multiple(y, Magnitude(x) + 1)
    BY <1>1, <1>3, RoundedMagnitude
  <2>2. CASE Magnitude(y) <= Magnitude(x)
    <3>1. Magnitude(y) - 4 <= k /\ Magnitude(y) - 4 \in Int
      BY <2>1, <2>2
    <3> QED
      BY <1>1, <1>2, <3>1, MultipleLess DEF Figures
  <2>3. CASE Magnitude(y) = Magnitude(x) + 1 /\ Multiple(y, Magnitude(x) + 1)
    <3>1. Magnitude(y) - 4 <= Magnitude(x) + 1 /\ Magnitude(y) - 4 \in Int
      BY <2>1, <2>3
    <3> QED
      BY <1>2, <2>1, <2>3, <3>1, MultipleLess DEF Figures
  <2> QED
    BY <2>1, <2>2, <2>3
<1> QED
  BY <1>2, <1>3 DEF Figures

(* Another rounding, to any number of decimals, does not undo it. *)
LEMMA FiguresKept ==
  ASSUME NEW y \in Numbers, Figures(y), NEW k \in Int, NEW z \in Rounded(y, k)
  PROVE  Figures(z)
<1>1. CASE Multiple(y, k)
  BY <1>1 DEF Rounded
<1>2. CASE ~Multiple(y, k) /\ z.m # 0
  <2>1. /\ y.m # 0 /\ Magnitude(y) \in Int /\ Magnitude(z) \in Int
        /\ \/ Magnitude(z) <= Magnitude(y)
           \/ Magnitude(z) = Magnitude(y) + 1 /\ Multiple(z, Magnitude(y) + 1)
    BY <1>2, RoundedMagnitude
  <2>2. z \in Numbers /\ Multiple(z, k)
    BY RoundedMultiple
  <2>3. Magnitude(y) - 4 < k
    <3> SUFFICES ASSUME ~(Magnitude(y) - 4 < k) PROVE FALSE
      OBVIOUS
    <3>1. k <= Magnitude(y) - 4 /\ Magnitude(y) - 4 \in Int
      BY <2>1
    <3>2. Multiple(y, k)
      BY <2>1, <3>1, MultipleLess DEF Figures
    <3> QED
      BY <1>2, <3>2
  <2>4. CASE Magnitude(z) <= Magnitude(y)
    <3>1. Magnitude(z) - 4 <= k /\ Magnitude(z) - 4 \in Int
      BY <2>1, <2>3, <2>4
    <3> QED
      BY <2>2, <3>1, MultipleLess DEF Figures
  <2>5. CASE Magnitude(z) = Magnitude(y) + 1 /\ Multiple(z, Magnitude(y) + 1)
    <3>1. Magnitude(z) - 4 <= Magnitude(y) + 1 /\ Magnitude(z) - 4 \in Int
      BY <2>1, <2>5
    <3> QED
      BY <2>1, <2>2, <2>5, <3>1, MultipleLess DEF Figures
  <2> QED
    BY <2>1, <2>4, <2>5
<1> QED
  BY <1>1, <1>2 DEF Figures


-----------------------------------------------------------------------------
(* What is sent                                                            *)

(* A price that was rounded is not longer than eight decimals. *)
LEMMA PriceMultiple ==
  ASSUME NEW x \in Numbers, NEW sz \in 0..5, NEW spot \in BOOLEAN,
         NEW p \in RoundPrice(x, sz, spot)
  PROVE  /\ p \in Numbers /\ Multiple(p, -8)
         /\ LargeInteger(p) \/ Multiple(p, Magnitude(p) - 4)
         /\ ~spot => Multiple(p, sz - 6)
<1>1. CASE LargeInteger(x)
  <2>1. p = x /\ Multiple(p, 0)
    BY <1>1 DEF RoundPrice, LargeInteger
  <2>2. Multiple(p, -8) /\ Multiple(p, sz - 6)
    <3>1. \A k \in Int : k <= 0 => Multiple(p, k)
      BY <2>1, MultipleLess
    <3>2. -8 \in Int /\ sz - 6 \in Int /\ -8 <= 0 /\ sz - 6 <= 0
      OBVIOUS
    <3> QED
      BY <3>1, <3>2
  <2> QED
    BY <1>1, <2>1, <2>2
<1>2. CASE ~LargeInteger(x)
  <2>1. PICK y \in SignificantFigures(x) : p \in Decimals(y, sz, spot)
    BY <1>2 DEF RoundPrice
  <2> DEFINE k == sz - MaxDecimals(spot)
  <2>2. k \in Int /\ -8 <= k /\ (~spot => k = sz - 6) /\ -8 \in Int
    BY DEF MaxDecimals
  <2>3. p \in Rounded(y, k)
    BY <2>1 DEF Decimals
  <2> HIDE DEF k
  <2>4. y \in Numbers /\ Figures(y)
    BY FiguresRounded
  <2>5. p \in Numbers /\ Multiple(p, k)
    BY <2>2, <2>3, <2>4, RoundedMultiple
  <2>6. Figures(p)
    BY <2>2, <2>3, <2>4, FiguresKept
  <2>7. Multiple(p, Magnitude(p) - 4)
    BY <2>6 DEF Figures, Multiple
  <2>8. Multiple(p, -8)
    <3>1. \A j \in Int : j <= k => Multiple(p, j)
      BY <2>2, <2>5, MultipleLess
    <3> QED
      BY <2>2, <3>1
  <2> QED
    BY <2>2, <2>5, <2>7, <2>8
<1> QED
  BY <1>1, <1>2

(* Nor is a quantity. *)
LEMMA SizeMultiple ==
  ASSUME NEW x \in Numbers, NEW sz \in 0..5, NEW q \in RoundSize(x, sz)
  PROVE  q \in Numbers /\ Multiple(q, -8)
<1> DEFINE k == -sz
<1>1. k \in Int /\ -8 <= k /\ -8 \in Int /\ q \in Rounded(x, k)
  BY DEF RoundSize
<1> HIDE DEF k
<1>2. q \in Numbers /\ Multiple(q, k)
  BY <1>1, RoundedMultiple
<1>3. \A j \in Int : j <= k => Multiple(q, j)
  BY <1>1, <1>2, MultipleLess
<1> QED
  BY <1>1, <1>2, <1>3

(* So floatToWire does not throw. *)
LEMMA Wire ==
  ASSUME NEW x \in Numbers, Multiple(x, -8)
  PROVE  FloatToWire(x) = Reduced(x) /\ FloatToWire(x) # Thrown
<1>1. FloatToWire(x) = Reduced(x)
  BY DEF FloatToWire
<1>2. CASE x.m = 0
  <2>1. Reduced(x) = [ m |-> 0, e |-> 0 ]
    BY <1>2 DEF Reduced, Zero, Decimal
  <2>2. Reduced(x).e = 0 /\ Thrown.e = 1
    BY <2>1 DEF Thrown
  <2> QED
    BY <1>1, <2>2
<1>3. CASE x.m # 0
  <2>1. Reduced(x).m # 0
    BY <1>3, ReducedMeans
  <2>2. Thrown.m = 0
    BY DEF Thrown
  <2> QED
    BY <1>1, <2>1, <2>2
<1> QED
  BY <1>2, <1>3

-----------------------------------------------------------------------------
(* The published steps                                                     *)

(* What Max is, if there is one. *)
LEMMA MaxOf ==
  ASSUME NEW S \in SUBSET Int, NEW m \in S, \A n \in S : n <= m
  PROVE  Max(S) = m
<1>1. \A n \in S : m >= n
  OBVIOUS
<1>2. \A n \in S : (\A l \in S : n >= l) => n = m
  OBVIOUS
<1> QED
  BY <1>1, <1>2 DEF Max

(* A tick is one of five figures at least, and of the decimals at least. *)
LEMMA TickAtMeans ==
  ASSUME NEW x \in Numbers, NEW sz \in 0..5
  PROVE  /\ TickAt(x, sz) \in Int /\ sz - 6 <= TickAt(x, sz)
         /\ x.m # 0 /\ Magnitude(x) <= 5 => Magnitude(x) - 4 <= TickAt(x, sz)
         /\ x.m # 0 /\ 5 <= Magnitude(x) => 1 <= TickAt(x, sz)
<1> DEFINE g == Magnitude(x)
           top == IF g <= 5 THEN g ELSE 5
           some == x.m # 0 /\ sz - 1 <= g
           S == { sz - 6 } \cup { n - 4 : n \in IF some THEN (sz - 1)..top ELSE {} }
           t == IF some THEN top - 4 ELSE sz - 6
<1>1. g \in Int
  BY MagnitudeInt
<1>2. TickAt(x, sz) = Max(S)
  <2> DEFINE reached == { step \in TickSizeSteps(sz) : x.m # 0 /\ step.min_price <= g }
             R == { sz - 6 } \cup { step.tick_size : step \in reached }
  <2>1. TickAt(x, sz) = Max(R)
    BY DEF TickAt, BaseTick
  <2> HIDE DEF g
  <2>2. \A v : v \in R <=> v = sz - 6 \/ \E n \in (sz - 1)..5 : x.m # 0 /\ n <= g /\ v = n - 4
    <3> DEFINE step(n) == [ min_price |-> n, tick_size |-> n - 4 ]
    <3>1. \A n : step(n).min_price = n /\ step(n).tick_size = n - 4
      OBVIOUS
    <3>2. TickSizeSteps(sz) = { step(n) : n \in (sz - 1)..5 }
      BY DEF TickSizeSteps
    <3> HIDE DEF step
    <3>3. \A v : v \in reached <=>
            \E n \in (sz - 1)..5 : v = step(n) /\ x.m # 0 /\ n <= g
      BY <3>1, <3>2
    <3> HIDE DEF reached
    <3>4. \A v : v \in R <=> v = sz - 6 \/ \E w \in reached : v = w.tick_size
      OBVIOUS
    <3> QED
      BY <3>1, <3>3, <3>4
  <2>3. \A v : v \in S <=> v = sz - 6 \/ \E n \in (sz - 1)..5 : x.m # 0 /\ n <= g /\ v = n - 4
    BY <1>1
  <2>4. R = S
    <3> HIDE DEF R, S
    <3> QED
      BY <2>2, <2>3
  <2> QED
    BY <2>1, <2>4
<1> HIDE DEF g
<1>3. S \in SUBSET Int /\ t \in S /\ \A n \in S : n <= t
  BY <1>1
<1>4. TickAt(x, sz) = t
  <2> HIDE DEF S, t
  <2> QED
    BY <1>2, <1>3, MaxOf
<1>5. /\ t \in Int /\ sz - 6 <= t
      /\ x.m # 0 /\ g <= 5 => g - 4 <= t
      /\ x.m # 0 /\ 5 <= g => 1 <= t
  BY <1>1
<1> QED
  BY <1>4, <1>5 DEF g

(* 100k has the magnitude 5, as the price of that value. *)
LEMMA HundredThousand ==
  Magnitude(Decimal(1, 5)) = 5
<1> DEFINE one == 1
           d == Digits(one)
<1>1. one \in Nat /\ one # 0 /\ one = 1
  OBVIOUS
<1>2. 10 * Ten[0] <= Ten[MaxDigits] /\ Ten[0] = 1 /\ Ten[MaxDigits] \in Nat /\ Ten[1] = 10 * Ten[0]
  <2> DEFINE zero == 0
  <2>1. zero \in Nat /\ zero < MaxDigits /\ zero + 1 = 1
    BY DigitsAssumption
  <2> HIDE DEF zero
  <2>2. 10 * Ten[zero] <= Ten[MaxDigits]
    BY <2>1, TenLess, DigitsAssumption
  <2>3. Ten[1] = 10 * Ten[zero]
    BY <2>1, TenEquations
  <2> QED
    BY <2>2, <2>3, TenEquations, DigitsAssumption DEF zero
<1>3. one < Ten[MaxDigits] /\ one < Ten[1]
  BY <1>2
<1> HIDE DEF one
<1>4. d \in Nat /\ d <= 1 /\ 1 <= d
  BY <1>1, <1>3, DigitsBounds, DigitsOf, DigitsAssumption
<1>5. d = 1
  <2> HIDE DEF d
  <2> QED
    BY <1>4
<1>6. Decimal(1, 5).m = one /\ Decimal(1, 5).e = 5
  BY <1>1 DEF Decimal
<1>7. Magnitude(Decimal(1, 5)) = d - 1 + 5
  BY <1>1, <1>6 DEF Magnitude
<1> HIDE DEF d
<1> QED
  BY <1>5, <1>7

(* A price on the step is not rounded, by either rule. *)
LEMMA StepKept ==
  ASSUME NEW x \in Numbers, NEW sz \in 0..5, NEW spot \in BOOLEAN,
         Multiple(x, TickAt(x, sz)), NEW p \in RoundPrice(x, sz, spot)
  PROVE  p = x
<1> DEFINE g == Magnitude(x)
           t == TickAt(x, sz)
<1>1. g \in Int
  BY MagnitudeInt
<1>2. /\ t \in Int /\ sz - 6 <= t
      /\ x.m # 0 /\ g <= 5 => g - 4 <= t
      /\ x.m # 0 /\ 5 <= g => 1 <= t
  BY TickAtMeans
<1>3. \A j \in Int : j <= t => Multiple(x, j)
  BY <1>2, MultipleLess
<1>4. CASE LargeInteger(x)
  BY <1>4 DEF RoundPrice
<1>5. CASE ~LargeInteger(x)
  <2>1. x.m # 0 => g <= 5
    <3> SUFFICES ASSUME x.m # 0, ~(g <= 5) PROVE LargeInteger(x)
      BY <1>5
    <3>1. Multiple(x, 0)
      <4> HIDE DEF g, t
      <4> QED
        BY <1>1, <1>2, <1>3
    <3>2. Reduced(x) # Decimal(1, 5)
      BY ReducedMagnitude, HundredThousand
    <3> QED
      BY <1>1, <3>1, <3>2 DEF LargeInteger
  <2>2. Multiple(x, g - 4)
    <3>1. CASE x.m = 0
      BY <3>1 DEF Multiple
    <3>2. CASE x.m # 0
      <4> HIDE DEF g, t
      <4>1. g - 4 \in Int /\ g - 4 <= t
        BY <1>1, <1>2, <2>1, <3>2
      <4> QED
        BY <1>3, <4>1
    <3> QED
      BY <3>1, <3>2
  <2>3. SignificantFigures(x) = { x }
    BY <2>2 DEF SignificantFigures, Rounded
  <2>4. Multiple(x, sz - MaxDecimals(spot))
    <3> HIDE DEF t
    <3>1. sz - MaxDecimals(spot) \in Int /\ sz - MaxDecimals(spot) <= t
      BY <1>2 DEF MaxDecimals
    <3> QED
      BY <1>3, <3>1
  <2>5. Decimals(x, sz, spot) = { x }
    BY <2>4 DEF Decimals, Rounded
  <2> QED
    BY <1>5, <2>3, <2>5 DEF RoundPrice
<1> QED
  BY <1>4, <1>5

-----------------------------------------------------------------------------
(* The distance to the price that was asked for                            *)

(* In units of 10^e. *)
Worth(x, e) == x.m * Ten[x.e - e]

(* One rounding moves a number by half a unit at most. *)
LEMMA RoundedNear ==
  ASSUME NEW x \in Numbers, NEW k \in Int, NEW z \in Rounded(x, k), z # x,
         NEW e \in Int, e <= x.e
  PROVE  /\ z.e = k /\ x.e < k
         /\ Worth(x, e) \in Nat /\ Worth(z, e) \in Nat
         /\ 2 * Worth(z, e) <= 2 * Worth(x, e) + Ten[k - e]
         /\ 2 * Worth(x, e) <= 2 * Worth(z, e) + Ten[k - e]
<1> DEFINE n == k - x.e
           u == Ten[n]
           b == x.e - e
           t == Ten[b]
<1>1. ~Multiple(x, k)
  BY DEF Rounded
<1>2. /\ x.m \in Nat /\ x.e \in Int /\ x.e < k /\ n \in Nat
      /\ z.e = k /\ z.m \in Nat
      /\ 2 * (z.m * u) <= 2 * x.m + u
      /\ 2 * x.m <= 2 * (z.m * u) + u
  BY <1>1, NumberFields, RoundedMeans
<1>3. b \in Nat /\ k - e = n + b
  BY <1>2
<1>4. Ten[k - e] = u * t
  <2> HIDE DEF n, b
  <2> QED
    BY <1>2, <1>3, TenPlus
<1>5. u \in Nat /\ t \in Nat /\ 1 <= t
  <2> HIDE DEF n, b
  <2> QED
    BY <1>2, <1>3, TenPositive
<1>6. Worth(x, e) = x.m * t /\ Worth(z, e) = z.m * (u * t)
  BY <1>2, <1>4 DEF Worth
<1> HIDE DEF n, u, b, t
<1> DEFINE l == 2 * (z.m * u)
           m == 2 * x.m
<1>7. l \in Nat /\ m \in Nat /\ l <= m + u /\ m <= l + u
  BY <1>2, <1>5
<1>8. l * t <= (m + u) * t /\ m * t <= (l + u) * t
  <2> HIDE DEF l, m
  <2> DEFINE v == m + u
             w == l + u
  <2>1. v \in Int /\ w \in Int /\ l <= v /\ m <= w /\ l \in Int /\ m \in Int
    BY <1>5, <1>7
  <2> HIDE DEF v, w
  <2>2. l * t <= v * t /\ m * t <= w * t
    BY <1>5, <2>1, Products
  <2> QED
    BY <2>2 DEF v, w
<1>9. (m + u) * t = m * t + u * t /\ (l + u) * t = l * t + u * t
  <2> HIDE DEF l, m
  <2> QED
    BY <1>5, <1>7
<1>10. l * t = 2 * (z.m * (u * t)) /\ m * t = 2 * (x.m * t)
  BY <1>2, <1>5
<1>11. x.m * t \in Nat /\ z.m * (u * t) \in Nat /\ u * t \in Nat
  BY <1>2, <1>5
<1> HIDE DEF l, m
<1> QED
  BY <1>2, <1>4, <1>6, <1>8, <1>9, <1>10, <1>11

(* Reduced is worth the same. *)
LEMMA ReducedWorth ==
  ASSUME NEW x \in Numbers, x.m # 0, NEW e \in Int, e <= x.e
  PROVE  Worth(Reduced(x), e) = Worth(x, e)
<1> DEFINE r == Reduced(x)
<1>1. r \in Numbers /\ \E z \in Nat : r.e = x.e + z /\ x.m = r.m * Ten[z]
  BY ReducedMeans
<1>2. PICK z \in Nat : r.e = x.e + z /\ x.m = r.m * Ten[z]
  BY <1>1
<1> HIDE DEF r
<1>3. r.m \in Nat /\ r.e \in Int /\ x.e \in Int
  BY <1>1, NumberFields
<1> DEFINE b == x.e - e
<1>4. b \in Nat /\ r.e - e = z + b
  BY <1>2, <1>3
<1>5. Ten[r.e - e] = Ten[z] * Ten[b]
  <2> HIDE DEF b
  <2> QED
    BY <1>4, TenPlus
<1>6. Ten[z] \in Nat /\ Ten[b] \in Nat
  <2> HIDE DEF b
  <2> QED
    BY <1>4, TenPositive
<1>7. r.m * (Ten[z] * Ten[b]) = (r.m * Ten[z]) * Ten[b]
  <2> HIDE DEF b
  <2> QED
    BY <1>3, <1>6
<1>8. Worth(r, e) = Worth(x, e)
  BY <1>2, <1>5, <1>7 DEF Worth
<1> QED
  BY <1>8 DEF r

(* Powers of ten grow with the exponent. *)
LEMMA Units ==
  ASSUME NEW e \in Int, NEW j \in Int, NEW k \in Int, e <= j, j <= k
  PROVE  /\ Ten[j - e] \in Nat /\ Ten[k - e] \in Nat
         /\ 1 <= Ten[j - e] /\ Ten[j - e] <= Ten[k - e]
         /\ j < k => 10 * Ten[j - e] <= Ten[k - e]
<1> DEFINE a == j - e
           b == k - e
<1>1. a \in Nat /\ b \in Nat /\ a <= b /\ (j < k => a < b)
  OBVIOUS
<1> HIDE DEF a, b
<1>2. /\ Ten[a] \in Nat /\ Ten[b] \in Nat /\ 1 <= Ten[a] /\ Ten[a] <= Ten[b]
      /\ a < b => 10 * Ten[a] <= Ten[b]
  BY <1>1, TenPositive, TenMonotone, TenLess
<1> QED
  BY <1>1, <1>2 DEF a, b

(* Both roundings together stay within the coarser unit: the finer of the  *)
(* two moves a number by a tenth of what the other does.                   *)
LEMMA RoundedTwiceNear ==
  ASSUME NEW x \in Numbers, NEW a \in Int, NEW d \in Int, NEW k \in Int,
         x.e <= k, a <= k, d <= k,
         NEW y \in Rounded(x, a), NEW p \in Rounded(y, d)
  PROVE  /\ p \in Numbers /\ x.e <= p.e
         /\ Worth(p, x.e) \in Nat /\ Worth(x, x.e) \in Nat
         /\ -Ten[k - x.e] < Worth(p, x.e) - Worth(x, x.e)
         /\ Worth(p, x.e) - Worth(x, x.e) < Ten[k - x.e]
<1> DEFINE e == x.e
           u == Ten[k - e]
           ua == Ten[a - e]
           ud == Ten[d - e]
           w == Worth(x, e)
           wy == Worth(y, e)
           wp == Worth(p, e)
<1>1. e \in Int /\ y \in Numbers /\ y.e \in Int /\ p \in Numbers /\ p.e \in Int
  BY NumberFields, RoundedMultiple
<1>2. u \in Nat /\ 1 <= u
  BY <1>1, Units
<1>3. w \in Nat
  <2>1. Ten[e - e] \in Nat /\ x.m \in Nat
    BY <1>1, NumberFields, Units
  <2> QED
    BY <2>1 DEF Worth
<1>4. CASE y = x /\ p = x
  BY <1>1, <1>2, <1>3, <1>4
<1>5. CASE y = x /\ p # x
  <2>1. /\ p.e = d /\ e < d /\ wp \in Nat
        /\ 2 * wp <= 2 * w + ud /\ 2 * w <= 2 * wp + ud
    BY <1>1, <1>5, RoundedNear
  <2>2. ud \in Nat /\ ud <= u
    BY <1>1, <2>1, Units
  <2> HIDE DEF e, u, ua, ud, w, wy, wp
  <2>3. -u < wp - w /\ wp - w < u /\ e <= p.e
    BY <1>1, <1>2, <1>3, <2>1, <2>2
  <2> QED
    BY <1>1, <1>3, <2>1, <2>3 DEF e, u, w, wp
<1>6. CASE y # x
  <2>1. /\ y.e = a /\ e < a /\ wy \in Nat
        /\ 2 * wy <= 2 * w + ua /\ 2 * w <= 2 * wy + ua
    BY <1>1, <1>6, RoundedNear
  <2>2. ua \in Nat /\ ua <= u
    BY <1>1, <2>1, Units
  <2>3. CASE p = y
    <3> HIDE DEF e, u, ua, ud, w, wy, wp
    <3>1. -u < wy - w /\ wy - w < u /\ e <= y.e
      BY <1>1, <1>2, <1>3, <2>1, <2>2
    <3> QED
      BY <1>1, <1>3, <2>1, <2>3, <3>1 DEF e, u, w, wy
  <2>4. CASE p # y
    <3>1. /\ p.e = d /\ a < d /\ wp \in Nat
          /\ 2 * wp <= 2 * wy + ud /\ 2 * wy <= 2 * wp + ud
      BY <1>1, <2>1, <2>4, RoundedNear
    <3>2. ud \in Nat /\ ud <= u /\ 10 * ua <= ud
      BY <1>1, <2>1, <3>1, Units
    <3> HIDE DEF e, u, ua, ud, w, wy, wp
    <3>3. -u < wp - w /\ wp - w < u /\ e <= p.e
      BY <1>1, <1>2, <1>3, <2>1, <2>2, <3>1, <3>2
    <3> QED
      BY <1>1, <1>3, <3>1, <3>3 DEF e, u, w, wp
  <2> QED
    BY <2>3, <2>4
<1> QED
  BY <1>4, <1>5, <1>6

(* The largest of three. *)
LEMMA MaxOfThree ==
  ASSUME NEW a \in Int, NEW b \in Int, NEW c \in Int
  PROVE  LET k == Max({ a, b, c }) IN k \in Int /\ a <= k /\ b <= k /\ c <= k
<1> DEFINE S == { a, b, c }
<1>1. \E m \in S : \A n \in S : n <= m
  OBVIOUS
<1>2. S \in SUBSET Int
  OBVIOUS
<1> HIDE DEF S
<1>3. PICK m \in S : \A n \in S : n <= m
  BY <1>1
<1>4. Max(S) = m
  BY <1>2, <1>3, MaxOf
<1> QED
  BY <1>3, <1>4 DEF S

(* A price that was rounded is near the one that was asked for. *)
LEMMA PriceNear ==
  ASSUME NEW x \in Numbers, NEW sz \in 0..5, NEW spot \in BOOLEAN,
         NEW p \in RoundPrice(x, sz, spot)
  PROVE  LET k    == Max({ Magnitude(x) - 4, sz - 6, x.e })
             unit == Ten[k - x.e]
         IN  /\ p \in Numbers /\ x.e <= p.e
             /\ Worth(p, x.e) \in Nat /\ Worth(x, x.e) \in Nat /\ unit \in Nat
             /\ -unit < Worth(p, x.e) - Worth(x, x.e)
             /\ Worth(p, x.e) - Worth(x, x.e) < unit
<1> DEFINE e == x.e
           a == Magnitude(x) - 4
           s == sz - 6
           d == sz - MaxDecimals(spot)
           k == Max({ a, s, e })
<1>1. /\ e \in Int /\ a \in Int /\ s \in Int
      /\ d \in Int /\ d <= s /\ x.m \in Nat
  BY NumberFields, MagnitudeInt DEF MaxDecimals
<1>2. k \in Int /\ a <= k /\ s <= k /\ e <= k
  <2> HIDE DEF a, s, e
  <2> QED
    BY <1>1, MaxOfThree
<1> HIDE DEF k
<1>3. Ten[k - e] \in Nat /\ 1 <= Ten[k - e]
  BY <1>1, <1>2, Units
<1>4. CASE LargeInteger(x)
  <2>1. p = x
    BY <1>4 DEF RoundPrice
  <2>2. Worth(x, e) \in Nat
    <3>1. Ten[e - e] \in Nat
      BY <1>1, Units
    <3> QED
      BY <1>1, <3>1 DEF Worth
  <2> QED
    BY <1>1, <1>3, <2>1, <2>2 DEF k
<1>5. CASE ~LargeInteger(x)
  <2>1. PICK y \in SignificantFigures(x) : p \in Decimals(y, sz, spot)
    BY <1>5 DEF RoundPrice
  <2>2. y \in Rounded(x, a) /\ p \in Rounded(y, d)
    BY <2>1 DEF SignificantFigures, Decimals
  <2>3. d <= k
    <3> HIDE DEF d, s, a, e
    <3> QED
      BY <1>1, <1>2
  <2> HIDE DEF a, s, d
  <2>4. /\ p \in Numbers /\ x.e <= p.e
        /\ Worth(p, x.e) \in Nat /\ Worth(x, x.e) \in Nat
        /\ -Ten[k - x.e] < Worth(p, x.e) - Worth(x, x.e)
        /\ Worth(p, x.e) - Worth(x, x.e) < Ten[k - x.e]
    BY <1>1, <1>2, <2>2, <2>3, RoundedTwiceNear
  <2> QED
    BY <1>3, <2>4 DEF k, a, s
<1> QED
  BY <1>4, <1>5

-----------------------------------------------------------------------------
(* The invariant                                                           *)

(* The names of the list are different: a name has one place. *)
ListingInv ==
  /\ listing \in Seq(Dexs)
  /\ \A j, k \in DOMAIN listing : listing[j] = listing[k] => j = k

(* A dex that is known is in the list, as the exchange takes none away.    *)
(* So a number it had before and one that another dex has now would meet,  *)
(* had the comparison with the list not ended the program.                 *)
DexInv ==
  /\ \A d \in dex : /\ \E j \in DOMAIN listing : listing[j] = d.name
                    /\ \E k \in Nat : d.asset_id_offset = k * OFFSET_DEX
  /\ \A d, e \in dex : d.name = e.name <=> d.asset_id_offset = e.asset_id_offset

(* What is published of a symbol is what its dex says. *)
Says(d, s) ==
  \E i \in DOMAIN Universe[d.name] :
    /\ s = << d.name, i >>
    /\ ref_data[s].external_security_id = d.asset_id_offset + i - 1
    /\ ref_data[s].sz_decimals = Universe[d.name][i]

DataInv == \A s \in DOMAIN ref_data : \E d \in dex : Says(d, s)

(* What was sent was made by rounding what was asked for: with the         *)
(* decimals of its symbol, and as spot if the number says so.              *)
Made(o) ==
  /\ o.order \in Orders /\ SzDecimals(o) \in 0..5 /\ o.a \in Nat
  /\ \E p \in RoundPrice(o.order.price, SzDecimals(o), o.a >= FIRST_SPOT) :
       o.p = FloatToWire(p)
  /\ \E q \in RoundSize(o.order.quantity, SzDecimals(o)) : o.s = FloatToWire(q)

MessageInv == \A o \in message : Made(o)

IInv == ListingInv /\ DexInv /\ DataInv /\ MessageInv

-----------------------------------------------------------------------------
(* All that is used of the distance between the numbers of two dex. *)
LEMMA Offset == OFFSET_DEX \in Nat /\ 0 < OFFSET_DEX
BY SMT DEF OFFSET_DEX

(* A larger multiple is larger by at least one distance. *)
LEMMA Multiples ==
  ASSUME NEW n \in Nat, NEW j \in Nat, NEW k \in Nat, j < k
  PROVE  j * n \in Nat /\ k * n \in Nat /\ j * n + n <= k * n
<1>1. PICK m \in Nat : k = j + 1 + m
  <2>1. k - j - 1 \in Nat /\ k = j + 1 + (k - j - 1)
    OBVIOUS
  <2> QED
    BY <2>1
<1>2. k * n = j * n + n + m * n
  BY <1>1
<1>3. j * n \in Nat /\ m * n \in Nat
  BY <1>1
<1> QED
  BY <1>2, <1>3

(* The numbers of two dex do not overlap. *)
LEMMA RangesDisjoint ==
  ASSUME NEW n \in Nat, NEW j \in Nat, NEW k \in Nat,
         NEW x \in Nat, NEW y \in Nat, x < n, y < n,
         j * n + x = k * n + y
  PROVE  j = k /\ x = y
<1>1. j * n \in Nat /\ k * n \in Nat
  OBVIOUS
<1>2. ~(j < k)
  BY <1>1, Multiples
<1>3. ~(k < j)
  BY <1>1, Multiples
<1>4. j = k
  BY <1>2, <1>3
<1> QED
  BY <1>1, <1>4

(* A place in the universe of a dex is below OFFSET_DEX. *)
LEMMA PlaceBounded ==
  ASSUME NEW name \in Dexs, NEW i \in DOMAIN Universe[name]
  PROVE  i \in Nat /\ i - 1 \in Nat /\ i - 1 < OFFSET_DEX
<1>1. Universe[name] \in Seq(0..5) /\ Len(Universe[name]) < OFFSET_DEX
  BY UniverseAssumption
<1>2. i \in 1..Len(Universe[name]) /\ Len(Universe[name]) \in Nat
  BY <1>1
<1> QED
  BY <1>1, <1>2, Offset

(* Different symbols have different numbers. *)
LEMMA UniqueFromIInv == IInv => AssetIdsUnique
<1> SUFFICES ASSUME IInv, NEW s \in DOMAIN ref_data, NEW t \in DOMAIN ref_data,
                    ref_data[s].external_security_id = ref_data[t].external_security_id
             PROVE  s = t
  BY DEF AssetIdsUnique
<1>1a. PICK d \in dex : Says(d, s)
  BY DEF IInv, DataInv
<1>1. PICK i \in DOMAIN Universe[d.name] :
        s = << d.name, i >> /\ ref_data[s].external_security_id = d.asset_id_offset + i - 1
  BY <1>1a DEF Says
<1>2a. PICK e \in dex : Says(e, t)
  BY DEF IInv, DataInv
<1>2. PICK j \in DOMAIN Universe[e.name] :
        t = << e.name, j >> /\ ref_data[t].external_security_id = e.asset_id_offset + j - 1
  BY <1>2a DEF Says
<1>3. d.name \in Dexs /\ e.name \in Dexs
  BY DEF IInv, DexInv, ListingInv
<1>4. PICK k \in Nat : d.asset_id_offset = k * OFFSET_DEX
  BY DEF IInv, DexInv
<1>5. PICK l \in Nat : e.asset_id_offset = l * OFFSET_DEX
  BY DEF IInv, DexInv
<1>6. i \in Nat /\ i - 1 \in Nat /\ i - 1 < OFFSET_DEX
  BY <1>3, PlaceBounded
<1>7. j \in Nat /\ j - 1 \in Nat /\ j - 1 < OFFSET_DEX
  BY <1>3, PlaceBounded
<1>8. k * OFFSET_DEX + (i - 1) = l * OFFSET_DEX + (j - 1)
  <2>1. k * OFFSET_DEX \in Nat /\ l * OFFSET_DEX \in Nat
    BY Offset
  <2>2. k * OFFSET_DEX + i - 1 = l * OFFSET_DEX + j - 1
    BY <1>1, <1>2, <1>4, <1>5
  <2> QED
    BY <1>6, <1>7, <2>1, <2>2
<1>9. k = l /\ i - 1 = j - 1
  BY <1>6, <1>7, <1>8, Offset, RangesDisjoint
<1>10. d.name = e.name
  BY <1>4, <1>5, <1>9 DEF IInv, DexInv
<1> QED
  BY <1>1, <1>2, <1>6, <1>7, <1>9, <1>10

-----------------------------------------------------------------------------
(* A name put into the list moves others, but it keeps them all apart. *)
LEMMA ListsInv ==
  ASSUME IInv, NEW name \in Dexs, ExchangeLists(name)
  PROVE  IInv'
<1>1. PICK k \in 2..(Len(listing) + 1) : listing' = InsertAt(listing, k, name)
  BY DEF ExchangeLists
<1>2. listing \in Seq(Dexs) /\ \A j \in DOMAIN listing : listing[j] # name
  BY DEF IInv, ListingInv, ExchangeLists, ToSet
<1>3. /\ listing' \in Seq(Dexs)
      /\ Len(listing') = Len(listing) + 1
      /\ \A j \in 1..(Len(listing) + 1) :
           listing'[j] = IF j < k THEN listing[j] ELSE IF j = k THEN name ELSE listing[j - 1]
  BY <1>1, <1>2 DEF InsertAt
<1>4. \A j \in DOMAIN listing : \E l \in DOMAIN listing' : listing'[l] = listing[j]
  <2> TAKE j \in DOMAIN listing
  <2>1. CASE j < k
    BY <1>1, <1>2, <1>3, <2>1
  <2>2. CASE ~(j < k)
    <3>1. j + 1 \in DOMAIN listing' /\ listing'[j + 1] = listing[j]
      BY <1>1, <1>2, <1>3, <2>2
    <3> QED
      BY <3>1
  <2> QED
    BY <2>1, <2>2
<1>5. ListingInv'
  <2>1. \A j, l \in DOMAIN listing : listing[j] = listing[l] => j = l
    BY DEF IInv, ListingInv
  <2>2. DOMAIN listing = 1..Len(listing) /\ Len(listing) \in Nat
    BY <1>2
  <2>3. DOMAIN listing' = 1..(Len(listing) + 1)
    BY <1>3, <2>2
  <2> SUFFICES ASSUME NEW j \in DOMAIN listing', NEW l \in DOMAIN listing',
                      listing'[j] = listing'[l]
               PROVE  j = l
    BY <1>3 DEF ListingInv
  <2> DEFINE old(x) == IF x < k THEN x ELSE x - 1
  <2>4. \A x \in DOMAIN listing' : x # k =>
          old(x) \in DOMAIN listing /\ listing'[x] = listing[old(x)] /\ listing'[x] # name
    BY <1>2, <1>3, <2>2, <2>3
  <2>5. listing'[k] = name
    BY <1>3, <2>2
  <2>6. CASE j = k \/ l = k
    BY <2>4, <2>5, <2>6
  <2>7. CASE j # k /\ l # k
    <3>1. old(j) = old(l)
      BY <2>1, <2>4, <2>7
    <3> QED
      BY <2>3, <2>7, <3>1
  <2> QED
    BY <2>6, <2>7
<1>6. DexInv'
  BY <1>4 DEF IInv, DexInv, ExchangeLists
<1>7. DataInv' /\ MessageInv'
  BY DEF IInv, DataInv, Says, MessageInv, ExchangeLists
<1> QED
  BY <1>5, <1>6, <1>7 DEF IInv

(* The answer to perpDexs agrees with what is known, or ends the program. *)
LEMMA PerpDexsInv ==
  ASSUME IInv, GetPerpDexsAck
  PROVE  IInv' /\ dex \subseteq dex'
<1> DEFINE items == { [ name |-> listing[k], asset_id_offset |-> AssetIdOffset(k) ] :
                        k \in DOMAIN listing }
<1>1. CASE dex' = dex /\ UNCHANGED << listing, ref_data, message >>
  BY <1>1 DEF IInv, ListingInv, DexInv, DataInv, Says, MessageInv
<1>2. CASE /\ \A item \in items : ~Changed(item)
           /\ dex' = dex \cup { item \in items : item.name \in Selected }
           /\ UNCHANGED << listing, ref_data, message >>
  <2>1. listing \in Seq(Dexs)
    BY DEF IInv, ListingInv
  <2>2. \A k \in DOMAIN listing : k - 1 \in Nat /\ AssetIdOffset(k) = (k - 1) * OFFSET_DEX
    BY <2>1 DEF AssetIdOffset
  <2>3. \A j, k \in DOMAIN listing : AssetIdOffset(j) = AssetIdOffset(k) => j = k
    <3> SUFFICES ASSUME NEW j \in DOMAIN listing, NEW k \in DOMAIN listing,
                        AssetIdOffset(j) = AssetIdOffset(k)
                 PROVE  j = k
      OBVIOUS
    <3>1. /\ j - 1 \in Nat /\ k - 1 \in Nat
          /\ (j - 1) * OFFSET_DEX = (k - 1) * OFFSET_DEX
      BY <2>2
    <3>2. /\ (j - 1) * OFFSET_DEX \in Nat
          /\ (j - 1) * OFFSET_DEX + 0 = (k - 1) * OFFSET_DEX + 0
      BY <3>1, Offset
    <3>3. j - 1 = k - 1
      BY <3>1, <3>2, Offset, RangesDisjoint
    <3> QED
      BY <2>1, <3>3
  <2>4. \A d \in dex' : \E j \in DOMAIN listing :
          d.name = listing[j] /\ d.asset_id_offset = AssetIdOffset(j)
    <3> TAKE d \in dex'
    <3>1. CASE d \in items
      BY <3>1
    <3>2. CASE d \in dex
      <4>1. PICK j \in DOMAIN listing : listing[j] = d.name
        BY <3>2 DEF IInv, DexInv
      <4> DEFINE item == [ name |-> listing[j], asset_id_offset |-> AssetIdOffset(j) ]
      <4>2. ~Changed(item)
        BY <1>2
      <4>3. item.name = d.name /\ item.asset_id_offset = AssetIdOffset(j)
        BY <4>1
      <4>4. d.asset_id_offset = AssetIdOffset(j)
        BY <3>2, <4>2, <4>3 DEF Changed
      <4> QED
        BY <4>1, <4>4
    <3> QED
      BY <1>2, <3>1, <3>2
  <2>5. \A d \in dex' : /\ \E j \in DOMAIN listing : listing[j] = d.name
                        /\ \E k \in Nat : d.asset_id_offset = k * OFFSET_DEX
    BY <2>2, <2>4
  <2>6. \A d, e \in dex' : d.name = e.name <=> d.asset_id_offset = e.asset_id_offset
    BY <2>3, <2>4 DEF IInv, ListingInv
  <2>7. DexInv'
    BY <1>2, <2>5, <2>6 DEF DexInv
  <2>8. ListingInv' /\ DataInv' /\ MessageInv'
    BY <1>2 DEF IInv, ListingInv, DataInv, Says, MessageInv
  <2> QED
    BY <1>2, <2>7, <2>8 DEF IInv
<1> QED
  BY <1>1, <1>2 DEF GetPerpDexsAck

(* The answer to meta publishes what the dex says, again or for the first  *)
(* time.                                                                   *)
LEMMA MetaInv ==
  ASSUME IInv, NEW d \in dex, GetMetaAck(d)
  PROVE  /\ IInv' /\ dex' = dex
         /\ DOMAIN ref_data \subseteq DOMAIN ref_data'
<1> DEFINE added == { << d.name, i >> : i \in DOMAIN Universe[d.name] }
<1>1. /\ DOMAIN ref_data' = DOMAIN ref_data \cup added
      /\ \A s \in DOMAIN ref_data' :
           IF s[1] = d.name
           THEN /\ ref_data'[s].external_security_id = d.asset_id_offset + s[2] - 1
                /\ ref_data'[s].sz_decimals = Universe[d.name][s[2]]
           ELSE ref_data'[s] = ref_data[s]
  BY DEF GetMetaAck
<1>2. UNCHANGED << listing, dex, message >>
  BY DEF GetMetaAck
<1>3. DataInv'
  <2> SUFFICES ASSUME NEW s \in DOMAIN ref_data'
               PROVE  \E e \in dex : Says(e, s)'
    BY <1>2 DEF DataInv
  <2>1. CASE s \in added
    <3>1. PICK i \in DOMAIN Universe[d.name] : s = << d.name, i >>
      BY <2>1
    <3>2. s[1] = d.name /\ s[2] = i
      BY <3>1
    <3> QED
      BY <1>1, <3>1, <3>2 DEF Says
  <2>2. CASE s \in DOMAIN ref_data
    <3>1a. PICK e \in dex : Says(e, s)
      BY <2>2 DEF IInv, DataInv
    <3>1. PICK i \in DOMAIN Universe[e.name] :
            /\ s = << e.name, i >>
            /\ ref_data[s].external_security_id = e.asset_id_offset + i - 1
            /\ ref_data[s].sz_decimals = Universe[e.name][i]
      BY <3>1a DEF Says
    <3>2. s[1] = e.name /\ s[2] = i
      BY <3>1
    <3>3. e.name = d.name => e.asset_id_offset = d.asset_id_offset
      BY DEF IInv, DexInv
    <3> QED
      BY <1>1, <3>1, <3>2, <3>3 DEF Says
  <2> QED
    BY <1>1, <2>1, <2>2
<1>4. ListingInv' /\ DexInv' /\ MessageInv'
  BY <1>2 DEF IInv, ListingInv, DexInv, MessageInv
<1> QED
  BY <1>1, <1>2, <1>3, <1>4 DEF IInv

(* Reference data of a symbol that is published says the same for as long  *)
(* as no dex is forgotten.                                                 *)
LEMMA SameNumber ==
  ASSUME IInv, IInv', dex \subseteq dex', NEW s \in DOMAIN ref_data, s \in DOMAIN ref_data'
  PROVE  ref_data'[s].external_security_id = ref_data[s].external_security_id
<1>1a. PICK d \in dex : Says(d, s)
  BY DEF IInv, DataInv
<1>1. PICK i \in DOMAIN Universe[d.name] :
        s = << d.name, i >> /\ ref_data[s].external_security_id = d.asset_id_offset + i - 1
  BY <1>1a DEF Says
<1>2a. PICK e \in dex' : Says(e, s)'
  BY DEF IInv, DataInv
<1>2. PICK j \in DOMAIN Universe[e.name] :
        s = << e.name, j >> /\ ref_data'[s].external_security_id = e.asset_id_offset + j - 1
  BY <1>2a DEF Says
<1>3. d.name = e.name /\ i = j
  BY <1>1, <1>2
<1>4. d.asset_id_offset = e.asset_id_offset
  BY <1>3 DEF IInv, DexInv
<1> QED
  BY <1>1, <1>2, <1>3, <1>4

(* An order is made from what is published of its symbol. *)
LEMMA OrderInv ==
  ASSUME IInv, NEW s \in DOMAIN ref_data, NEW order \in Orders, CreateOrder(s, order)
  PROVE  MessageInv'
<1>1. PICK d \in dex : Says(d, s)
  BY DEF IInv, DataInv
<1>2. PICK i \in DOMAIN Universe[d.name] :
        /\ s = << d.name, i >>
        /\ ref_data[s].external_security_id = d.asset_id_offset + i - 1
        /\ ref_data[s].sz_decimals = Universe[d.name][i]
  BY <1>1 DEF Says
<1>3. d.name \in Dexs
  BY DEF IInv, DexInv, ListingInv
<1>4. Universe[d.name][i] \in 0..5
  <2>1. Universe[d.name] \in Seq(0..5)
    BY <1>3, UniverseAssumption
  <2> QED
    BY <2>1
<1>5. ref_data[s].external_security_id \in Nat
  <2>1. PICK k \in Nat : d.asset_id_offset = k * OFFSET_DEX
    BY DEF IInv, DexInv
  <2>2. i - 1 \in Nat /\ i \in Nat
    BY <1>3, PlaceBounded
  <2>3. k * OFFSET_DEX \in Nat
    BY Offset
  <2> QED
    BY <1>2, <2>1, <2>2, <2>3
<1> DEFINE data == ref_data[s]
           sz == data.sz_decimals
<1>6. PICK p \in RoundPrice(order.price, sz, IsSpot(data)) :
        \E q \in RoundSize(order.quantity, sz) :
          message' = { [ symbol |-> s, order |-> order, a |-> data.external_security_id,
                         p |-> FloatToWire(p), s |-> FloatToWire(q) ] }
  BY DEF CreateOrder
<1>7. PICK q \in RoundSize(order.quantity, sz) :
        message' = { [ symbol |-> s, order |-> order, a |-> data.external_security_id,
                       p |-> FloatToWire(p), s |-> FloatToWire(q) ] }
  BY <1>6
<1> DEFINE o == [ symbol |-> s, order |-> order, a |-> data.external_security_id,
                  p |-> FloatToWire(p), s |-> FloatToWire(q) ]
<1>8. SzDecimals(o) = sz
  BY <1>2 DEF SzDecimals
<1>9. IsSpot(data) = (o.a >= FIRST_SPOT)
  BY DEF IsSpot
<1>10. Made(o)
  BY <1>2, <1>4, <1>5, <1>6, <1>7, <1>8, <1>9 DEF Made
<1> QED
  BY <1>7, <1>10 DEF MessageInv

-----------------------------------------------------------------------------
(* What the invariant says of what is sent                                 *)

(* What is sent is what the roundings gave, without the zeros. *)
LEMMA SentMeans ==
  ASSUME NEW o, Made(o)
  PROVE  LET x  == o.order.price
             sz == SzDecimals(o)
         IN  /\ x \in Numbers /\ sz \in 0..5 /\ o.p # Thrown /\ o.s # Thrown
             /\ \E p \in RoundPrice(x, sz, o.a >= FIRST_SPOT) : o.p = Reduced(p)
             /\ \E q \in RoundSize(o.order.quantity, sz) : o.s = Reduced(q)
<1> DEFINE x == o.order.price
           sz == SzDecimals(o)
           spot == o.a >= FIRST_SPOT
<1>1. x \in Numbers /\ o.order.quantity \in Numbers /\ sz \in 0..5
  BY OrdersAssumption DEF Made
<1>2. PICK p \in RoundPrice(x, sz, spot) : o.p = FloatToWire(p)
  BY DEF Made
<1>3. PICK q \in RoundSize(o.order.quantity, sz) : o.s = FloatToWire(q)
  BY DEF Made
<1>4. spot \in BOOLEAN
  BY DEF Made, FIRST_SPOT
<1> HIDE DEF x, sz, spot
<1>5. p \in Numbers /\ Multiple(p, -8)
  BY <1>1, <1>4, PriceMultiple
<1>6. q \in Numbers /\ Multiple(q, -8)
  BY <1>1, SizeMultiple
<1>7. o.p = Reduced(p) /\ o.p # Thrown /\ o.s = Reduced(q) /\ o.s # Thrown
  BY <1>2, <1>3, <1>5, <1>6, Wire
<1> QED
  BY <1>1, <1>7 DEF x, sz, spot

(* No order was made by an exception. *)
LEMMA ThrownFromIInv == IInv => NothingThrown
BY SentMeans DEF IInv, MessageInv, NothingThrown

(* Without its zeros, a number has as many figures and decimals. *)
LEMMA AllowedFromIInv == IInv => PricesAllowed
<1> SUFFICES ASSUME IInv, NEW o \in message
             PROVE  FewFigures(o.p) /\ (o.a < FIRST_SPOT => FewDecimals(o))
  BY DEF PricesAllowed
<1> DEFINE x == o.order.price
           sz == SzDecimals(o)
           spot == o.a >= FIRST_SPOT
<1>1. Made(o)
  BY DEF IInv, MessageInv
<1>2. /\ x \in Numbers /\ sz \in 0..5
      /\ \E p \in RoundPrice(x, sz, spot) : o.p = Reduced(p)
  BY <1>1, SentMeans
<1>3. PICK p \in RoundPrice(x, sz, spot) : o.p = Reduced(p)
  BY <1>2
<1>4. spot \in BOOLEAN /\ (o.a < FIRST_SPOT => ~spot)
  BY <1>1 DEF Made, FIRST_SPOT
<1> HIDE DEF x, sz, spot
<1>5. /\ p \in Numbers
      /\ LargeInteger(p) \/ Multiple(p, Magnitude(p) - 4)
      /\ ~spot => Multiple(p, sz - 6)
  BY <1>2, <1>4, PriceMultiple
<1>6. FewFigures(o.p)
  <2>1. CASE LargeInteger(p)
    BY <1>3, <1>5, <2>1, ReducedLarge DEF FewFigures
  <2>2. CASE Multiple(p, Magnitude(p) - 4)
    <3> DEFINE k == Magnitude(p) - 4
    <3>1. k \in Int
      BY <1>5, MagnitudeInt
    <3> HIDE DEF k
    <3>2. Multiple(Reduced(p), k)
      BY <1>5, <2>2, <3>1, ReducedMultiple DEF k
    <3>3. Magnitude(Reduced(p)) = Magnitude(p)
      BY <1>5, ReducedMagnitude
    <3> QED
      BY <1>3, <3>2, <3>3 DEF FewFigures, k
  <2> QED
    BY <1>5, <2>1, <2>2
<1>7. ~spot => FewDecimals(o)
  <2> DEFINE k == sz - 6
  <2>1. k \in Int
    BY <1>2
  <2> HIDE DEF k
  <2>2. ~spot => Multiple(Reduced(p), k)
    BY <1>5, <2>1, ReducedMultiple DEF k
  <2> QED
    BY <1>3, <2>2 DEF FewDecimals, k, sz
<1> QED
  BY <1>4, <1>6, <1>7

(* Neither rounding moves what is on the steps. *)
LEMMA KeptFromIInv == IInv => PublishedStepsKept
<1> SUFFICES ASSUME IInv, NEW o \in message
             PROVE  LET x  == o.order.price
                        sz == SzDecimals(o)
                    IN  /\ Multiple(x, TickAt(x, sz)) => o.p = Reduced(x)
                        /\ Multiple(o.order.quantity, -sz) => o.s = Reduced(o.order.quantity)
  BY DEF PublishedStepsKept
<1> DEFINE x == o.order.price
           sz == SzDecimals(o)
           spot == o.a >= FIRST_SPOT
<1>1. Made(o)
  BY DEF IInv, MessageInv
<1>2. /\ x \in Numbers /\ sz \in 0..5
      /\ \E p \in RoundPrice(x, sz, spot) : o.p = Reduced(p)
      /\ \E q \in RoundSize(o.order.quantity, sz) : o.s = Reduced(q)
  BY <1>1, SentMeans
<1>3. spot \in BOOLEAN
  BY <1>1 DEF Made, FIRST_SPOT
<1>4. Multiple(x, TickAt(x, sz)) => o.p = Reduced(x)
  <2> HIDE DEF x, sz, spot
  <2> QED
    BY <1>2, <1>3, StepKept
<1>5. Multiple(o.order.quantity, -sz) => o.s = Reduced(o.order.quantity)
  BY <1>2 DEF RoundSize, Rounded
<1> QED
  BY <1>4, <1>5

(* The distance is counted in units of the last digit that was asked for. *)
LEMMA NearFromIInv == IInv => PricesNearRequested
<1> SUFFICES ASSUME IInv, NEW o \in message
             PROVE  LET k    == Max({ Magnitude(o.order.price) - 4, SzDecimals(o) - 6,
                                      o.order.price.e })
                        unit == Ten[k - o.order.price.e]
                        sent == IF o.p.m = 0 THEN 0 ELSE o.p.m * Ten[o.p.e - o.order.price.e]
                    IN  /\ o.p # Thrown
                        /\ -unit < sent - o.order.price.m /\ sent - o.order.price.m < unit
  BY DEF PricesNearRequested
<1> DEFINE x == o.order.price
           sz == SzDecimals(o)
           spot == o.a >= FIRST_SPOT
           k == Max({ Magnitude(x) - 4, sz - 6, x.e })
           unit == Ten[k - x.e]
           sent == IF o.p.m = 0 THEN 0 ELSE Worth(o.p, x.e)
<1>1. Made(o)
  BY DEF IInv, MessageInv
<1>2. /\ x \in Numbers /\ sz \in 0..5 /\ o.p # Thrown
      /\ \E p \in RoundPrice(x, sz, spot) : o.p = Reduced(p)
  BY <1>1, SentMeans
<1>3. PICK p \in RoundPrice(x, sz, spot) : o.p = Reduced(p)
  BY <1>2
<1>4. spot \in BOOLEAN
  BY <1>1 DEF Made, FIRST_SPOT
<1>5. /\ p \in Numbers /\ x.e <= p.e
      /\ Worth(p, x.e) \in Nat /\ Worth(x, x.e) \in Nat /\ unit \in Nat
      /\ -unit < Worth(p, x.e) - Worth(x, x.e)
      /\ Worth(p, x.e) - Worth(x, x.e) < unit
  <2> HIDE DEF x, sz, spot
  <2> QED
    BY <1>2, <1>4, PriceNear
<1>6. x.m \in Nat /\ x.e \in Int
  BY <1>2, NumberFields
<1>7. Worth(x, x.e) = x.m
  <2>1. x.e - x.e = 0
    BY <1>6
  <2> QED
    BY <1>6, <2>1, TenEquations DEF Worth
<1>8. sent = Worth(p, x.e)
  <2>1. CASE p.m = 0
    <3>1. o.p.m = 0
      BY <1>3, <2>1 DEF Reduced, Zero, Decimal
    <3>2. Ten[p.e - x.e] \in Nat
      <4>1. p.e \in Int
        BY <1>5, NumberFields
      <4> DEFINE n == p.e - x.e
      <4>2. n \in Nat
        BY <1>5, <1>6, <4>1
      <4> HIDE DEF n
      <4>3. Ten[n] \in Nat
        BY <4>2, TenPositive
      <4> QED
        BY <4>3 DEF n
    <3> QED
      BY <2>1, <3>1, <3>2 DEF Worth
  <2>2. CASE p.m # 0
    <3>1. o.p.m # 0
      BY <1>3, <1>5, <2>2, ReducedMeans
    <3>2. Worth(Reduced(p), x.e) = Worth(p, x.e)
      BY <1>5, <1>6, <2>2, ReducedWorth
    <3> QED
      BY <1>3, <3>1, <3>2
  <2> QED
    BY <2>1, <2>2
<1>9. -unit < sent - x.m /\ sent - x.m < unit
  <2> HIDE DEF unit, sent
  <2> QED
    BY <1>5, <1>7, <1>8
<1> QED
  BY <1>2, <1>9 DEF Worth

-----------------------------------------------------------------------------
(* Every step keeps the invariant, every dex and every symbol. *)
LEMMA NextInv ==
  ASSUME IInv, [Next]_vars
  PROVE  IInv' /\ dex \subseteq dex' /\ DOMAIN ref_data \subseteq DOMAIN ref_data'
<1>1. CASE UNCHANGED vars
  BY <1>1 DEF vars, IInv, ListingInv, DexInv, DataInv, Says, MessageInv
<1>2. ASSUME NEW name \in Dexs, ExchangeLists(name)
      PROVE  IInv' /\ dex \subseteq dex' /\ DOMAIN ref_data \subseteq DOMAIN ref_data'
  BY <1>2, ListsInv DEF ExchangeLists
<1>3. CASE GetPerpDexsAck
  BY <1>3, PerpDexsInv DEF GetPerpDexsAck
<1>4. ASSUME NEW d \in dex, GetMetaAck(d)
      PROVE  IInv' /\ dex \subseteq dex' /\ DOMAIN ref_data \subseteq DOMAIN ref_data'
  BY <1>4, MetaInv
<1>5. ASSUME NEW s \in DOMAIN ref_data, NEW order \in Orders, CreateOrder(s, order)
      PROVE  IInv' /\ dex \subseteq dex' /\ DOMAIN ref_data \subseteq DOMAIN ref_data'
  <2>1. UNCHANGED << listing, dex, ref_data >>
    BY <1>5 DEF CreateOrder
  <2>2. MessageInv'
    BY <1>5, OrderInv
  <2> QED
    BY <2>1, <2>2 DEF IInv, ListingInv, DexInv, DataInv, Says
<1> QED
  BY <1>1, <1>2, <1>3, <1>4, <1>5 DEF Next

(* A list of one element. *)
LEMMA Singleton ==
  ASSUME NEW S, NEW x \in S
  PROVE  << x >> \in Seq(S) /\ DOMAIN << x >> = {1}
OBVIOUS

(* No dex, no data: the list has the first dex only. *)
LEMMA Start == Init => IInv
<1> SUFFICES ASSUME Init PROVE IInv
  OBVIOUS
<1>1. ListingInv
  <2>1. listing = << "" >> /\ "" \in Dexs
    BY UniverseAssumption DEF Init
  <2>2. listing \in Seq(Dexs) /\ DOMAIN listing = {1}
    BY <2>1, Singleton
  <2> QED
    BY <2>2 DEF ListingInv
<1>2. DexInv /\ DataInv /\ MessageInv
  BY DEF Init, DexInv, DataInv, MessageInv
<1> QED
  BY <1>1, <1>2 DEF IInv

(* No two symbols are ordered by the same number (rest.cpp:391, :492).     *)
THEOREM AssetIdsAlwaysUnique == Spec => []AssetIdsUnique
<1>1. IInv /\ [Next]_vars => IInv'
  BY NextInv
<1> QED
  BY <1>1, Start, UniqueFromIInv, PTL DEF Spec

(* A symbol keeps its number for the life of the process (rest.cpp:392).   *)
THEOREM AssetIdsAlwaysStable == Spec => AssetIdsStable
<1>1. IInv /\ [Next]_vars => IInv'
  BY NextInv
<1>2. IInv /\ [Next]_vars =>
        [ \A s \in DOMAIN ref_data :
            ref_data'[s].external_security_id = ref_data[s].external_security_id ]_vars
  BY NextInv, SameNumber
<1> QED
  BY <1>1, <1>2, Start, PTL DEF Spec, AssetIdsStable

(* Nothing that was rounded makes floatToWire throw: two roundings leave   *)
(* eight decimals at most (encoder.cpp:54, conversions.cpp).               *)
THEOREM NothingEverThrown == Spec => []NothingThrown
<1>1. IInv /\ [Next]_vars => IInv'
  BY NextInv
<1> QED
  BY <1>1, Start, ThrownFromIInv, PTL DEF Spec

(* Any price is rounded to one the exchange allows for the symbol: the     *)
(* second rounding does not undo the first, not even by a carry into       *)
(* another digit (conversions.cpp).                                        *)
THEOREM PricesAlwaysAllowed == Spec => []PricesAllowed
<1>1. IInv /\ [Next]_vars => IInv'
  BY NextInv
<1> QED
  BY <1>1, Start, AllowedFromIInv, PTL DEF Spec

(* Two roundings in a row do not move a price by a whole step of the       *)
(* coarser grid.                                                           *)
THEOREM PricesAlwaysNear == Spec => []PricesNearRequested
<1>1. IInv /\ [Next]_vars => IInv'
  BY NextInv
<1> QED
  BY <1>1, Start, NearFromIInv, PTL DEF Spec

(* Who keeps to the steps that are published with the symbol gets what was *)
(* asked for (tick_size_steps.cpp and conversions.cpp).                    *)
THEOREM StepsAlwaysKept == Spec => []PublishedStepsKept
<1>1. IInv /\ [Next]_vars => IInv'
  BY NextInv
<1> QED
  BY <1>1, Start, KeptFromIInv, PTL DEF Spec

=============================================================================
