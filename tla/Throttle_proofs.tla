--------------------------- MODULE Throttle_proofs ---------------------------
(***************************************************************************)
(* Proofs about Throttle, for every backoff, every set of header values    *)
(* and any distance between the two clocks.                                *)
(***************************************************************************)
EXTENDS Throttle, TLAPS

Types == now \in Nat /\ retry_after \in Nat /\ suspend_until \in Nat /\ told \subseteq Nat

(* A value that is remembered and still in the future has been looked at:  *)
(* this is why a repeated header may be passed over.                       *)
Remembered == now + Offset < retry_after => retry_after <= suspend_until + Offset

Honoured == \A t \in told : t <= suspend_until

Inv == Types /\ (Enabled => Remembered /\ Honoured)

Grows == suspend_until <= suspend_until'

LEMMA Constants ==
  Offset \in Nat /\ DefaultBackoff \in Nat /\ BlockedBackoff \in Nat /\ RetryAfters \subseteq Nat
  BY ClockAssumption, BackoffAssumption

LEMMA ExtendedLater ==
  ASSUME Types, NEW until \in Nat
  PROVE  /\ Extended(until) \in Nat
         /\ suspend_until <= Extended(until) /\ until <= Extended(until)
  BY DEF Extended, Later, Types

(* A wait until v, by a clock that is f ahead, stays covered while the     *)
(* clock and the suspension advance.                                       *)
LEMMA WaitExtends ==
  ASSUME NEW n \in Nat, NEW m \in Nat, n <= m, NEW s \in Nat, NEW u \in Nat, s <= u,
         NEW v \in Nat, NEW f \in Nat, n + f < v => v <= s + f
  PROVE  m + f < v => v <= u + f
  OBVIOUS

LEMMA WaitMeets ==
  ASSUME NEW n \in Nat, NEW u \in Nat, NEW v \in Nat, NEW f \in Nat,
         n + f < v => v <= u + f
  PROVE  n + f < v => v - f <= u
  OBVIOUS

LEMMA InitInv == Init => Inv
<1> SUFFICES ASSUME Init PROVE Inv
  OBVIOUS
<1>1. Types /\ Remembered /\ Honoured
  BY Constants DEF Init, Types, Remembered, Honoured
<1> QED
  BY <1>1, Zenon DEF Inv

LEMMA HeaderInv ==
  ASSUME Inv, NEW value \in RetryAfters, MessageHeader(value)
  PROVE  Inv' /\ Grows
<1>1. value \in Nat /\ Types
  BY Constants DEF Inv
<1> DEFINE until == Extended(Backoff(value))
<1>2. Backoff(value) \in Nat /\ (now + Offset < value => value <= Backoff(value) + Offset)
  BY <1>1, Constants DEF Backoff, Types
<1>3. until \in Nat /\ suspend_until <= until /\ Backoff(value) <= until
  BY <1>1, <1>2, ExtendedLater
<1>4. /\ now' = now /\ retry_after' = value
      /\ suspend_until' = suspend_until \/ suspend_until' = until
      /\ Enabled /\ value # retry_after => suspend_until' = until
  BY Zenon DEF MessageHeader
<1> HIDE DEF until
<1>5. told' = told \/ (told' = told \cup { value - Offset } /\ now + Offset < value)
  BY DEF MessageHeader
<1>6. Grows
  BY <1>1, <1>3, <1>4 DEF Grows, Types
<1>7. Types'
  <2>1. now + Offset < value => value - Offset \in Nat
    BY <1>1, Constants DEF Types
  <2>2. suspend_until' \in Nat
    BY <1>1, <1>3, <1>4 DEF Types
  <2> QED
    BY <1>1, <1>4, <1>5, <2>1, <2>2 DEF Types
<1>8. ASSUME Enabled PROVE Remembered' /\ Honoured'
  <2>1. Remembered /\ Honoured
    BY <1>8, Zenon DEF Inv
  <2>2. value = retry_after \/ suspend_until' = until
    BY <1>4, <1>8, Zenon
  <2>3. now + Offset < value => value <= suspend_until' + Offset
    <3>1. CASE value = retry_after
      <4>1. now + Offset < value => value <= suspend_until + Offset
        BY <2>1, <3>1 DEF Remembered
      <4>2. /\ now \in Nat /\ suspend_until \in Nat /\ suspend_until' \in Nat
            /\ suspend_until <= suspend_until' /\ Offset \in Nat /\ now <= now
        BY <1>1, <1>6, <1>7, Constants DEF Types, Grows
      <4> QED
        BY <1>1, <4>1, <4>2, WaitExtends, Zenon
    <3>2. CASE suspend_until' = until
      BY <1>1, <1>2, <1>3, <3>2, Constants DEF Types
    <3> QED
      BY <2>2, <3>1, <3>2
  <2>4. Remembered'
    BY <1>4, <2>3 DEF Remembered
  <2>5. Honoured'
    <3>1. \A t \in told : t <= suspend_until'
      BY <1>1, <1>6, <1>7, <2>1 DEF Honoured, Types, Grows
    <3>2. now + Offset < value => value - Offset <= suspend_until'
      <4>1. /\ now \in Nat /\ suspend_until' \in Nat /\ Offset \in Nat
        BY <1>1, <1>7, Constants DEF Types
      <4> QED
        BY <1>1, <2>3, <4>1, WaitMeets, Zenon
    <3> QED
      BY <1>5, <3>1, <3>2 DEF Honoured
  <2> QED
    BY <2>4, <2>5
<1> QED
  BY <1>6, <1>7, <1>8, Zenon DEF Inv

LEMMA ForbiddenInv ==
  ASSUME Inv, MessageEndForbidden
  PROVE  Inv' /\ Grows
<1> DEFINE until == Extended(now + BlockedBackoff)
<1>1. Types
  BY DEF Inv
<1>2. until \in Nat /\ suspend_until <= until /\ now + BlockedBackoff <= until
  BY <1>1, ExtendedLater, Constants DEF Types
<1>3. /\ now' = now /\ retry_after' = retry_after
      /\ told' = told \cup { now + BlockedBackoff }
      /\ suspend_until' = suspend_until \/ suspend_until' = until
      /\ Enabled => suspend_until' = until
  BY Zenon DEF MessageEndForbidden
<1> HIDE DEF until
<1>4. Types' /\ Grows
  BY <1>1, <1>2, <1>3, Constants DEF Types, Grows
<1>5. ASSUME Enabled PROVE Remembered' /\ Honoured'
  <2>1. Remembered /\ Honoured /\ suspend_until' = until
    BY <1>3, <1>5, Zenon DEF Inv
  <2> QED
    BY <1>1, <1>2, <1>3, <2>1, Constants DEF Remembered, Honoured, Types
<1> QED
  BY <1>4, <1>5, Zenon DEF Inv

(* 429, and the clock: nothing more is told, and nothing is shortened.     *)
LEMMA GrowInv ==
  ASSUME Inv, suspend_until' \in Nat, Grows, now' \in Nat, now <= now',
         retry_after' = retry_after, told' = told
  PROVE  Inv'
<1>1. Types /\ Types'
  BY DEF Inv, Types
<1>2. ASSUME Enabled PROVE Remembered' /\ Honoured'
  <2>1. Remembered /\ Honoured
    BY <1>2, Zenon DEF Inv
  <2>2. /\ now \in Nat /\ now' \in Nat /\ now <= now'
        /\ suspend_until \in Nat /\ suspend_until' \in Nat
        /\ suspend_until <= suspend_until'
        /\ retry_after \in Nat /\ Offset \in Nat /\ told \subseteq Nat
    BY <1>1, Constants DEF Types, Grows
  <2>3. Remembered'
    <3>1. now + Offset < retry_after => retry_after <= suspend_until + Offset
      BY <2>1, Zenon DEF Remembered
    <3>2. now' + Offset < retry_after => retry_after <= suspend_until' + Offset
      BY <2>2, <3>1, WaitExtends, Zenon
    <3> QED
      BY <3>2, Zenon DEF Remembered
  <2>4. Honoured'
    BY <2>1, <2>2 DEF Honoured
  <2> QED
    BY <2>3, <2>4
<1> QED
  BY <1>1, <1>2, Zenon DEF Inv

LEMMA TooManyRequestsInv ==
  ASSUME Inv, MessageEndTooManyRequests
  PROVE  Inv' /\ Grows
<1>1. Types
  BY DEF Inv
<1>2. Limited \in Nat /\ suspend_until <= Limited
  BY <1>1, Constants DEF Limited, Types
<1>3. /\ now' = now /\ retry_after' = retry_after /\ told' = told
      /\ suspend_until' = suspend_until \/ suspend_until' = Limited
  BY Zenon DEF MessageEndTooManyRequests
<1>4. suspend_until' \in Nat /\ Grows /\ now' \in Nat /\ now <= now'
  BY <1>1, <1>2, <1>3 DEF Types, Grows
<1> QED
  BY <1>3, <1>4, GrowInv

LEMMA TickInv ==
  ASSUME Inv, Tick \/ UNCHANGED vars
  PROVE  Inv' /\ Grows
<1>1. Types
  BY DEF Inv
<1>2. /\ suspend_until' = suspend_until /\ retry_after' = retry_after /\ told' = told
      /\ now' = now \/ now' = now + 1
  BY DEF Tick, vars
<1>3. suspend_until' \in Nat /\ Grows /\ now' \in Nat /\ now <= now'
  BY <1>1, <1>2 DEF Types, Grows
<1> QED
  BY <1>2, <1>3, GrowInv

LEMMA Step == Inv /\ [Next]_vars => Inv' /\ Grows
  BY HeaderInv, ForbiddenInv, TooManyRequestsInv, TickInv DEF Next

(* Whatever the exchange tells and however the values repeat, the longest  *)
(* wait it asked for is waited for.                                        *)
THEOREM LongestWaitAlwaysHonoured == Spec => []LongestWaitHonoured
<1>1. Inv => LongestWaitHonoured
  BY Zenon DEF Inv, Honoured, LongestWaitHonoured
<1> QED
  BY InitInv, Step, <1>1, PTL DEF Spec

(* A suspension is never shortened. *)
THEOREM SuspensionNeverShortened == Spec => NeverShortened
<1>1. Inv /\ [Next]_vars => [suspend_until <= suspend_until']_vars
  BY Step DEF Grows
<1> QED
  BY InitInv, Step, <1>1, PTL DEF Spec, NeverShortened

=============================================================================
