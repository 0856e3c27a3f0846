----------------------------- MODULE Conversions -----------------------------
(***************************************************************************)
(* tools::Conversions: what the gateway makes of a price and a quantity    *)
(* before it sends them.                                                   *)
(***************************************************************************)
EXTENDS TickSizeSteps

(* std::round(x / 10^k) * 10^k.  Computed with doubles, a tie may fall to  *)
(* either side.                                                            *)
Rounded(x, k) ==
  IF Multiple(x, k) THEN { x }
  ELSE IF k - x.e > MaxDigits THEN { Decimal(0, k) }
  ELSE LET unit == Ten[k - x.e]
           down == x.m \div unit
           rest == 2 * (x.m % unit)
       IN  (IF rest <= unit THEN { Decimal(down, k) } ELSE {}) \cup
           (IF rest >= unit THEN { Decimal(down + 1, k) } ELSE {})

(* MUTANT of SignificantFigures: the first digit is counted twice. *)
SignificantFiguresFour(x) == Rounded(x, Magnitude(x) - 3)

(* Round to 5 significant figures. *)
SignificantFigures(x) == Rounded(x, Magnitude(x) - 4)

(* MUTANT of MaxDecimals: perps and spot are mixed up. *)
MaxDecimalsSwapped(is_spot) == IF is_spot THEN 6 ELSE 8

(* 6 for perps, 8 for spot *)
MaxDecimals(is_spot) == IF is_spot THEN 8 ELSE 6

(* MUTANT of Decimals: the decimals are not rounded. *)
DecimalsAny(x, sz_decimals, is_spot) == { x }

(* Round to the appropriate number of decimal places. *)
Decimals(x, sz_decimals, is_spot) ==
  Rounded(x, sz_decimals - MaxDecimals(is_spot))

(* Integer prices > 100k are left as they are. *)
LargeInteger(x) == Magnitude(x) >= 5 /\ Multiple(x, 0) /\ Reduced(x) # Decimal(1, 5)

RoundPrice(x, sz_decimals, is_spot) ==
  IF LargeInteger(x) THEN { x }
  ELSE UNION { Decimals(y, sz_decimals, is_spot) : y \in SignificantFigures(x) }

RoundSize(x, sz_decimals) == Rounded(x, -sz_decimals)

(* floatToWire causes rounding *)
Thrown == [ m |-> 0, e |-> 1 ]

(* Eight decimals, and an exception if that is not the number. *)
FloatToWire(x) == IF Multiple(x, -8) THEN Reduced(x) ELSE Thrown

=============================================================================
