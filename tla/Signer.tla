------------------------------- MODULE Signer -------------------------------
(***************************************************************************)
(* Signing of order actions: tools::Encoder packs the action with a time   *)
(* stamp and an expiry into the bytes that are hashed, tools::Crypto picks *)
(* the nonce, signs the hash and writes the request.  The state is one     *)
(* nonce per account, shared by every stream of the account and lost when  *)
(* the gateway restarts.  Times are milliseconds.                          *)
(***************************************************************************)
EXTENDS Naturals, Sequences

CONSTANTS
  RecvWindow,     \* settings.rest.recv_window
  MaxClock,       \* BOUND: last millisecond of the clock
  MaxRequests     \* BOUND: signed requests

ASSUME WindowAssumption == RecvWindow \in Nat
ASSUME BoundAssumption == MaxClock \in Nat /\ MaxRequests \in Nat

VARIABLES
  clock,    \* clock::get_realtime, as stamped on the event to handle
  started,  \* the clock when the gateway was started
  nonce,    \* Crypto::nonce_
  sent      \* HISTORY: the requests, in the order they were signed

vars == << clock, started, nonce, sent >>

-----------------------------------------------------------------------------
(* What pack_helper appends to the action before it is hashed: the time    *)
(* stamp as nonce, and the expiry unless it is zero or equals the stamp    *)
(* (0 stands for "not packed").                                            *)
Packed(now, expires) ==
  [ nonce |-> now, expires |-> IF expires # now THEN expires ELSE 0 ]

(* MUTANT of NextNonce: the next millisecond instead of this one. *)
NextNonceAhead(n, now) == IF n < now THEN now + 1 ELSE n + 1

(* MUTANT of NextNonce: a nonce already used in this millisecond is used   *)
(* again.                                                                  *)
NextNonceStuck(n, now) == IF n < now THEN now ELSE n

(* MUTANT of NextNonce: always one more than the last. *)
NextNonceCount(n, now) == IF n = 0 THEN now ELSE n + 1

(* Crypto::sign_l1_action: the clock, or one more than the last nonce.     *)
NextNonce(n, now) == IF n < now THEN now ELSE n + 1

(* The request: what the JSON says, and what the signature covers. *)
Request(now, n) ==
  [ nonce   |-> n,
    expires |-> now + RecvWindow,
    signed  |-> Packed(now, now + RecvWindow) ]

(* MUTANT of Sign: the request is written before the nonce is advanced. *)
SignOldNonce ==
  /\ Len(sent) < MaxRequests
  /\ nonce' = NextNonce(nonce, clock)
  /\ sent'  = Append(sent, Request(clock, nonce))
  /\ UNCHANGED << clock, started >>

(* A create or cancel of either stream (modify throws before it signs). *)
Sign ==
  /\ Len(sent) < MaxRequests
  /\ nonce' = NextNonce(nonce, clock)
  /\ sent'  = Append(sent, Request(clock, nonce'))
  /\ UNCHANGED << clock, started >>

-----------------------------------------------------------------------------
Tick ==
  /\ clock < MaxClock
  /\ clock' = clock + 1
  /\ UNCHANGED << started, nonce, sent >>

(* The system clock is stepped back, but not to before the gateway was     *)
(* started: nothing is kept over a restart, and the clock is all that      *)
(* orders the nonces of two lives.                                         *)
StepBack ==
  /\ clock' \in started..(clock - 1)
  /\ UNCHANGED << started, nonce, sent >>

(* The gateway is started again.  A restart takes longer than the nonces   *)
(* of a burst run ahead of the clock.                                      *)
Restart ==
  /\ clock > nonce
  /\ started' = clock
  /\ nonce' = 0
  /\ UNCHANGED << clock, sent >>

Init ==
  /\ clock \in 1..MaxClock /\ started = 1
  /\ nonce = 0
  /\ sent = << >>

Next == Sign \/ Tick \/ StepBack \/ Restart

Spec == Init /\ [][Next]_vars

-----------------------------------------------------------------------------
(* Properties                                                              *)

Requests ==
  [ nonce : Nat \ {0}, expires : Nat, signed : [ nonce : Nat, expires : Nat ] ]

(* Types; no request carries the nonce of an account that never signed. *)
TypeOK ==
  /\ clock \in Nat /\ started \in Nat
  /\ nonce \in Nat
  /\ sent \in Seq(Requests)

(* No nonce is used twice and every nonce is above the earlier ones, over  *)
(* bursts within one millisecond, a clock stepped back, and restarts.      *)
NoncesIncrease ==
  \A i, j \in 1..Len(sent) : i < j => sent[i].nonce < sent[j].nonce

(* The time stamp of a request, as the signature has it. *)
Stamp(i) == sent[i].signed.nonce

(* A nonce runs ahead of the clock by no more than the requests signed     *)
(* since some earlier one was stamped: a burst does not leave the account  *)
(* with nonces from a future the exchange would refuse.                    *)
NonceNearClock ==
  \A j \in 1..Len(sent) :
    \E i \in 1..j : sent[j].nonce <= Stamp(i) + (j - i)

(* The signature is over the nonce that is sent exactly when the request   *)
(* was stamped after every nonce already used: all other requests, the     *)
(* second of a burst for one, carry a nonce that was not signed.           *)
SignedIffFresh ==
  \A j \in 1..Len(sent) :
    (Stamp(j) = sent[j].nonce)
      <=> (\A i \in 1..(j - 1) : sent[i].nonce < Stamp(j))

(* What the comments of pack_helper say of the bytes it packs: they are    *)
(* the nonce and the expiry of the request.                                *)
SignatureCoversRequest ==
  \A j \in 1..Len(sent) :
    sent[j].signed = [ nonce |-> sent[j].nonce, expires |-> sent[j].expires ]

=============================================================================
