---------------------------- MODULE TickSizeSteps ----------------------------
(***************************************************************************)
(* tools::TickSizeSteps, on decimal numbers.  A number is m * 10^e with    *)
(* natural m; it stands for the double that is nearest.                    *)
(***************************************************************************)
EXTENDS Integers, FiniteSetsExt

CONSTANT MaxDigits    \* BOUND: digits of a mantissa

ASSUME DigitsAssumption == MaxDigits \in Nat \ {0}

Decimal(m, e) == [ m |-> m, e |-> e ]

Zero == Decimal(0, 0)

(* 10^k *)
Ten[k \in Nat] == IF k = 0 THEN 1 ELSE 10 * Ten[k - 1]

Numbers == [ m : 0..(Ten[MaxDigits] - 1), e : Int ]

Digits(m) == CHOOSE d \in 1..MaxDigits : Ten[d - 1] <= m /\ m < Ten[d]

(* floor(log10(x)), and 0 for x = 0. *)
Magnitude(x) == IF x.m = 0 THEN 0 ELSE Digits(x.m) - 1 + x.e

(* x is a multiple of 10^k. *)
Multiple(x, k) ==
  x.m = 0 \/ k <= x.e \/ (k - x.e <= MaxDigits /\ x.m % Ten[k - x.e] = 0)

(* Without the zeros at the end, so that equal numbers are equal records.  *)
Reduced(x) ==
  IF x.m = 0 THEN Zero
  ELSE LET z == CHOOSE z \in 0..MaxDigits : x.m % Ten[z] = 0 /\ x.m % Ten[z + 1] # 0
       IN  Decimal(x.m \div Ten[z], x.e + z)

-----------------------------------------------------------------------------
(* MUTANT of TickSizeSteps: the first step begins one power too early. *)
TickSizeStepsEarly(sz_decimals) ==
  { [ min_price |-> n, tick_size |-> n - 5 ] : n \in (sz_decimals - 1)..5 }

(* PERPS_0 to PERPS_5, as powers of ten: above 10^n a tick is 10^(n-4).    *)
TickSizeSteps(sz_decimals) ==
  { [ min_price |-> n, tick_size |-> n - 4 ] : n \in (sz_decimals - 1)..5 }

(* The step from minus infinity. *)
BaseTick(sz_decimals) == sz_decimals - 6

(* The tick at price x (external): that of the last step x has reached.    *)
TickAt(x, sz_decimals) ==
  LET reached == { step \in TickSizeSteps(sz_decimals) :
                     x.m # 0 /\ step.min_price <= Magnitude(x) }
  IN  Max({ BaseTick(sz_decimals) } \cup { step.tick_size : step \in reached })

=============================================================================
