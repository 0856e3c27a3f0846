------------------------------ MODULE Throttle -------------------------------
(***************************************************************************)
(* tools::Throttle: one object for all connections of the gateway, told of *)
(* the headers and the end of every HTTP answer.  No connection sends      *)
(* before suspend_until_.  Retry-After is taken for the time of the day at *)
(* which the exchange wants to hear again.                                 *)
(***************************************************************************)
EXTENDS Naturals

CONSTANTS
  Enabled,          \* settings.experimental.enable_rate_limit
  DefaultBackoff,
  BlockedBackoff,
  Offset,           \* clock::get_realtime less clock::get_system
  RetryAfters,      \* values of the header
  MaxClock          \* BOUND: last instant of the clock

ASSUME EnabledAssumption == Enabled \in BOOLEAN
ASSUME BackoffAssumption == DefaultBackoff \in Nat /\ BlockedBackoff \in Nat
ASSUME ClockAssumption ==
  Offset \in Nat /\ MaxClock \in Nat \ {0} /\ RetryAfters \subseteq Nat

VARIABLES
  now,             \* clock::get_system
  retry_after,     \* params_.retry_after
  suspend_until,   \* suspend_until_, 0 until an answer sets it
  told             \* HISTORY: instants the exchange has told to wait for

vars == << now, retry_after, suspend_until, told >>

Later(a, b) == IF a < b THEN b ELSE a

(* MUTANT of Extended: the last answer counts, not the longest wait. *)
ExtendedReplaced(until) == until

(* std::max(suspend_until_, ...) *)
Extended(until) == Later(suspend_until, until)

(* update_suspend_until: a time of the day in the past is not understood.  *)
Backoff(value) ==
  IF now + Offset < value THEN now + (value - (now + Offset))
                          ELSE now + DefaultBackoff

(* MessageHeader, RETRY_AFTER: only a value that has changed is looked at. *)
MessageHeader(value) ==
  /\ retry_after' = value
  /\ suspend_until' = IF value # retry_after /\ Enabled
                      THEN Extended(Backoff(value)) ELSE suspend_until
  /\ told' = IF now + Offset < value THEN told \cup { value - Offset } ELSE told
  /\ UNCHANGED now

(* MUTANT of Limited: every 429 begins a suspension of its own. *)
LimitedAlways == now + DefaultBackoff

(* 429: only if nothing was suspended since the gateway was started *)
Limited == IF suspend_until = 0 THEN now + DefaultBackoff ELSE suspend_until

MessageEndForbidden ==
  /\ suspend_until' = IF Enabled THEN Extended(now + BlockedBackoff) ELSE suspend_until
  /\ told' = told \cup { now + BlockedBackoff }
  /\ UNCHANGED << now, retry_after >>

MessageEndTooManyRequests ==
  /\ suspend_until' = IF Enabled THEN Limited ELSE suspend_until
  /\ UNCHANGED << now, retry_after, told >>

Tick ==
  /\ now < MaxClock
  /\ now' = now + 1
  /\ UNCHANGED << retry_after, suspend_until, told >>

Init == now = 1 /\ retry_after = 0 /\ suspend_until = 0 /\ told = {}

Next ==
  \/ \E value \in RetryAfters : MessageHeader(value)
  \/ MessageEndForbidden
  \/ MessageEndTooManyRequests
  \/ Tick

Spec == Init /\ [][Next]_vars

-----------------------------------------------------------------------------
(* Properties                                                              *)

(* Every instant the exchange has told to wait for is waited for, also if  *)
(* milder answers, to whichever connection, come in between, and although  *)
(* a header that repeats its value is not looked at.                       *)
LongestWaitHonoured == Enabled => \A t \in told : t <= suspend_until

(* No answer shortens a suspension that another one has begun.             *)
NeverShortened == [][suspend_until <= suspend_until']_vars

=============================================================================
