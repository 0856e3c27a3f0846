---------------------------- MODULE Signer_proofs ----------------------------
(***************************************************************************)
(* Proofs about Signer, for every receive window, every bound and every    *)
(* clock: types, and that no nonce is used twice.                          *)
(***************************************************************************)
EXTENDS Signer, TLAPS

(* Types: TypeOK is inductive.  The nonce of a request is the one the      *)
(* Crypto object has advanced to, never the zero it starts with.           *)
THEOREM TypeCorrect == Spec => []TypeOK
<1> USE WindowAssumption, BoundAssumption
<1>1. Init => TypeOK
  BY DEF Init, TypeOK
<1>2. TypeOK /\ [Next]_vars => TypeOK'
  <2> SUFFICES ASSUME TypeOK, [Next]_vars
               PROVE  TypeOK'
    OBVIOUS
  <2> USE DEF TypeOK
  <2>1. CASE Sign
    <3>1. nonce' \in Nat
      BY <2>1 DEF Sign, NextNonce
    <3>2. nonce' # 0
      BY <2>1 DEF Sign, NextNonce
    <3>3. Request(clock, nonce') \in Requests
      BY <3>1, <3>2 DEF Request, Requests, Packed
    <3>4. sent' \in Seq(Requests)
      BY <2>1, <3>3 DEF Sign
    <3> QED
      BY <2>1, <3>1, <3>4 DEF Sign
  <2>2. CASE Tick
    BY <2>2 DEF Tick
  <2>3. CASE StepBack
    BY <2>3 DEF StepBack
  <2>4. CASE Restart
    BY <2>4 DEF Restart
  <2>5. CASE UNCHANGED vars
    BY <2>5 DEF vars
  <2> QED
    BY <2>1, <2>2, <2>3, <2>4, <2>5 DEF Next
<1> QED
  BY <1>1, <1>2, PTL DEF Spec

-----------------------------------------------------------------------------
(* The last nonce used. *)
LastNonce == IF sent = << >> THEN 0 ELSE sent[Len(sent)].nonce

(* The account remembers the last nonce, or it has forgotten it in a       *)
(* restart and then it was started after it.                               *)
LastRemembered ==
  /\ started <= clock
  /\ LastNonce = nonce \/ LastNonce < started

(* The strengthening of NoncesIncrease that is inductive. *)
NonceInv == TypeOK /\ NoncesIncrease /\ LastRemembered

(* The nonces of the history are numbers. *)
LEMMA NoncesAreNumbers ==
  ASSUME TypeOK, NEW i \in 1..Len(sent)
  PROVE  sent[i].nonce \in Nat
<1>1. sent[i] \in Requests
  BY DEF TypeOK
<1> QED
  BY <1>1 DEF Requests

LEMMA LastIsNumber ==
  ASSUME TypeOK
  PROVE  LastNonce \in Nat
<1>1. CASE sent = << >>
  BY <1>1 DEF LastNonce
<1>2. CASE sent # << >>
  <2>1. Len(sent) \in 1..Len(sent)
    BY <1>2 DEF TypeOK
  <2> QED
    BY <1>2, <2>1, NoncesAreNumbers DEF LastNonce
<1> QED
  BY <1>1, <1>2

(* What is signed next is above the last nonce used. *)
LEMMA NextIsAbove ==
  ASSUME NonceInv
  PROVE  LastNonce < NextNonce(nonce, clock)
<1>1. LastNonce \in Nat
  BY LastIsNumber DEF NonceInv
<1> QED
  BY <1>1 DEF NonceInv, TypeOK, LastRemembered, NextNonce

(* In an increasing history no nonce is above the last. *)
LEMMA LastIsHighest ==
  ASSUME TypeOK, NoncesIncrease, NEW i \in 1..Len(sent)
  PROVE  sent[i].nonce <= LastNonce
<1>1. Len(sent) \in 1..Len(sent) /\ sent # << >>
  BY DEF TypeOK
<1>2. sent[i].nonce \in Nat /\ sent[Len(sent)].nonce \in Nat
  BY <1>1, NoncesAreNumbers
<1>3. CASE i = Len(sent)
  BY <1>1, <1>2, <1>3 DEF LastNonce
<1>4. CASE i < Len(sent)
  BY <1>1, <1>2, <1>4 DEF LastNonce, NoncesIncrease
<1> QED
  BY <1>1, <1>3, <1>4 DEF TypeOK

(* Signing above the last nonce keeps the history increasing. *)
LEMMA NonceInvAlways == Spec => []NonceInv
<1> USE WindowAssumption, BoundAssumption
<1>1. Init => NonceInv
  BY DEF Init, NonceInv, TypeOK, NoncesIncrease, LastRemembered, LastNonce
<1>2. NonceInv /\ TypeOK' /\ [Next]_vars => NonceInv'
  <2> SUFFICES ASSUME NonceInv, TypeOK', [Next]_vars
               PROVE  NoncesIncrease' /\ LastRemembered'
    BY DEF NonceInv
  <2>1. CASE Sign
    <3> DEFINE r == Request(clock, nonce')
               n == Len(sent)
    <3>1. n \in Nat /\ r.nonce = nonce' /\ LastNonce < nonce'
      BY <2>1, NextIsAbove DEF NonceInv, TypeOK, Sign, Request
    <3>2. /\ sent' = Append(sent, r) /\ Len(sent') = n + 1
          /\ sent'[n + 1] = r
          /\ \A k \in 1..n : sent'[k] = sent[k]
      BY <2>1 DEF NonceInv, TypeOK, Sign
    <3>3. LastRemembered'
      BY <2>1, <3>1, <3>2 DEF Sign, NonceInv, LastRemembered, LastNonce
    <3>4. ASSUME NEW i \in 1..(n + 1), NEW j \in 1..(n + 1), i < j
          PROVE  sent'[i].nonce < sent'[j].nonce
      <4>1. i \in 1..n
        BY <3>1, <3>4
      <4>2. CASE j = n + 1
        <5>1. sent[i].nonce <= LastNonce
          BY <4>1, LastIsHighest DEF NonceInv
        <5>2. sent[i].nonce \in Nat /\ LastNonce \in Nat /\ nonce' \in Nat
          BY <4>1, NoncesAreNumbers, LastIsNumber DEF NonceInv, TypeOK
        <5> QED
          BY <3>1, <3>2, <4>1, <4>2, <5>1, <5>2
      <4>3. CASE j \in 1..n
        BY <3>2, <3>4, <4>1, <4>3 DEF NonceInv, NoncesIncrease
      <4> QED
        BY <3>1, <4>2, <4>3
    <3> QED
      BY <3>2, <3>3, <3>4 DEF NoncesIncrease
  <2>2. CASE Tick
    <3>1. LastNonce' = LastNonce /\ LastNonce \in Nat
      BY <2>2, LastIsNumber DEF Tick, LastNonce, NonceInv
    <3>2. LastRemembered'
      BY <2>2, <3>1 DEF Tick, NonceInv, TypeOK, LastRemembered
    <3> QED
      BY <2>2, <3>2 DEF Tick, NonceInv, NoncesIncrease
  <2>3. CASE StepBack
    BY <2>3 DEF StepBack, NonceInv, TypeOK, NoncesIncrease, LastRemembered, LastNonce
  <2>4. CASE Restart
    <3>1. LastNonce < clock
      BY <2>4, LastIsNumber DEF Restart, NonceInv, TypeOK, LastRemembered
    <3> QED
      BY <2>4, <3>1 DEF Restart, NonceInv, TypeOK, NoncesIncrease, LastRemembered,
                        LastNonce
  <2>5. CASE UNCHANGED vars
    BY <2>5 DEF vars, NonceInv, NoncesIncrease, LastRemembered, LastNonce
  <2> QED
    BY <2>1, <2>2, <2>3, <2>4, <2>5 DEF Next
<1> QED
  BY <1>1, <1>2, TypeCorrect, PTL DEF Spec

(* Every nonce is above the earlier ones: Crypto::sign_l1_action never     *)
(* hands out a nonce twice, within a burst, under a clock that is stepped  *)
(* back, or over a restart that the clock is not stepped back over.        *)
THEOREM NoncesIncreaseAlways == Spec => []NoncesIncrease
<1>1. NonceInv => NoncesIncrease
  BY DEF NonceInv
<1> QED
  BY <1>1, NonceInvAlways, PTL

-----------------------------------------------------------------------------
(* A nonce in memory that is not zero is the last one used, and the clock  *)
(* is never zero: a request whose nonce is not the time is in a burst.     *)
BurstInv ==
  /\ NonceInv
  /\ 0 < started
  /\ nonce # 0 => sent # << >> /\ LastNonce = nonce
  /\ NonceNearClock /\ SignedIffFresh

(* What a request adds to the history. *)
LEMMA SignAppends ==
  ASSUME TypeOK, Sign
  PROVE  /\ Len(sent) \in Nat /\ Len(sent') = Len(sent) + 1
         /\ sent'[Len(sent) + 1].nonce = nonce'
         /\ sent'[Len(sent) + 1].signed.nonce = clock
         /\ \A k \in 1..Len(sent) : sent'[k] = sent[k]
         /\ nonce' = IF nonce < clock THEN clock ELSE nonce + 1
<1> DEFINE r == Request(clock, nonce')
<1>1. /\ Len(sent) \in Nat /\ Len(sent') = Len(sent) + 1
      /\ sent'[Len(sent) + 1] = r
      /\ \A k \in 1..Len(sent) : sent'[k] = sent[k]
  BY DEF TypeOK, Sign
<1>2. r.nonce = nonce' /\ r.signed.nonce = clock
  BY DEF Request, Packed
<1> QED
  BY <1>1, <1>2 DEF Sign, NextNonce

(* Stamps are numbers. *)
LEMMA StampsAreNumbers ==
  ASSUME TypeOK, NEW i \in 1..Len(sent)
  PROVE  Stamp(i) \in Nat
<1>1. sent[i] \in Requests
  BY DEF TypeOK
<1> QED
  BY <1>1 DEF Requests, Stamp

(* A request in a burst is one ahead of the last, one that is not has the  *)
(* time itself.                                                            *)
LEMMA SignNear ==
  ASSUME BurstInv, TypeOK', Sign
  PROVE  NonceNearClock'
<1> DEFINE n == Len(sent)
<1>1. TypeOK /\ NonceNearClock
  BY DEF BurstInv, NonceInv
<1>2. /\ n \in Nat /\ Len(sent') = n + 1 /\ sent'[n + 1].nonce = nonce'
      /\ sent'[n + 1].signed.nonce = clock /\ \A k \in 1..n : sent'[k] = sent[k]
      /\ nonce' = IF nonce < clock THEN clock ELSE nonce + 1
  BY <1>1, SignAppends
<1>3. \A k \in 1..n : Stamp(k)' = Stamp(k) /\ Stamp(k) \in Nat
  BY <1>1, <1>2, StampsAreNumbers DEF Stamp
<1> SUFFICES ASSUME NEW j \in 1..(n + 1)
             PROVE  \E i \in 1..j : sent'[j].nonce <= Stamp(i)' + (j - i)
  BY <1>2 DEF NonceNearClock
<1>4. CASE j \in 1..n
  <2>1. PICK i \in 1..j : sent[j].nonce <= Stamp(i) + (j - i)
    BY <1>1, <1>4 DEF NonceNearClock
  <2>2. i \in 1..n
    BY <1>2, <1>4
  <2> QED
    BY <1>2, <1>3, <1>4, <2>1, <2>2
<1>5. CASE j = n + 1 /\ nonce < clock
  <2>1. sent'[j].nonce <= Stamp(j)' + (j - j) /\ j \in 1..j
    BY <1>1, <1>2, <1>5 DEF TypeOK, Stamp
  <2> QED
    BY <2>1
<1>6. CASE j = n + 1 /\ ~(nonce < clock)
  <2>1. nonce # 0
    BY <1>1, <1>6 DEF BurstInv, NonceInv, LastRemembered, TypeOK
  <2>2. sent # << >> /\ sent[n].nonce = nonce /\ n \in 1..n
    BY <1>1, <2>1 DEF BurstInv, LastNonce, TypeOK
  <2>3. PICK i \in 1..n : sent[n].nonce <= Stamp(i) + (n - i)
    BY <1>1, <2>2 DEF NonceNearClock
  <2>4. sent'[j].nonce <= Stamp(i)' + (j - i) /\ i \in 1..j
    <3>1. Stamp(i)' = Stamp(i) /\ Stamp(i) \in Nat
      BY <1>3
    <3>2. nonce \in Nat /\ clock \in Nat /\ nonce' = nonce + 1
      BY <1>1, <1>2, <1>6 DEF TypeOK
    <3>3. sent'[j].nonce = nonce + 1 /\ nonce <= Stamp(i) + (n - i)
      BY <1>2, <1>6, <2>2, <2>3, <3>2
    <3> QED
      BY <1>2, <1>6, <3>1, <3>2, <3>3
  <2> QED
    BY <2>4
<1> QED
  BY <1>2, <1>4, <1>5, <1>6

(* The time is above every nonce used if it is above the one in memory,    *)
(* and only then.                                                          *)
LEMMA ClockAbove ==
  ASSUME BurstInv
  PROVE  nonce < clock <=> \A i \in 1..Len(sent) : sent[i].nonce < clock
<1>1. TypeOK /\ NoncesIncrease /\ LastNonce \in Nat
  BY LastIsNumber DEF BurstInv, NonceInv
<1>2. ASSUME nonce < clock, NEW i \in 1..Len(sent)
      PROVE  sent[i].nonce < clock
  <2>1. LastNonce < clock
    BY <1>1, <1>2 DEF BurstInv, NonceInv, LastRemembered, TypeOK
  <2>2. sent[i].nonce \in Nat /\ sent[i].nonce <= LastNonce
    BY <1>1, NoncesAreNumbers, LastIsHighest
  <2> QED
    BY <1>1, <2>1, <2>2 DEF TypeOK
<1>3. ASSUME ~(nonce < clock)
      PROVE  ~(\A i \in 1..Len(sent) : sent[i].nonce < clock)
  <2>1. nonce # 0
    BY <1>1, <1>3 DEF BurstInv, NonceInv, LastRemembered, TypeOK
  <2>2. Len(sent) \in 1..Len(sent) /\ sent[Len(sent)].nonce = nonce
    BY <1>1, <2>1 DEF BurstInv, LastNonce, TypeOK
  <2> QED
    BY <1>3, <2>2
<1> QED
  BY <1>2, <1>3

LEMMA SignFresh ==
  ASSUME BurstInv, TypeOK', Sign
  PROVE  SignedIffFresh'
<1> DEFINE n == Len(sent)
<1>1. TypeOK /\ SignedIffFresh
  BY DEF BurstInv, NonceInv
<1>2. /\ n \in Nat /\ Len(sent') = n + 1 /\ sent'[n + 1].nonce = nonce'
      /\ sent'[n + 1].signed.nonce = clock /\ \A k \in 1..n : sent'[k] = sent[k]
      /\ nonce' = IF nonce < clock THEN clock ELSE nonce + 1
  BY <1>1, SignAppends
<1>3. \A k \in 1..n : Stamp(k)' = Stamp(k)
  BY <1>2 DEF Stamp
<1> SUFFICES ASSUME NEW j \in 1..(n + 1)
             PROVE  (Stamp(j)' = sent'[j].nonce)
                      <=> (\A i \in 1..(j - 1) : sent'[i].nonce < Stamp(j)')
  BY <1>2 DEF SignedIffFresh
<1>4. CASE j \in 1..n
  <2>1. \A i \in 1..(j - 1) : i \in 1..n
    BY <1>2, <1>4
  <2>2. (Stamp(j) = sent[j].nonce) <=> (\A i \in 1..(j - 1) : sent[i].nonce < Stamp(j))
    BY <1>1, <1>4 DEF SignedIffFresh
  <2> QED
    BY <1>2, <1>3, <1>4, <2>1, <2>2
<1>5. CASE j = n + 1
  <2>1. (Stamp(j)' = sent'[j].nonce) <=> nonce < clock
    BY <1>1, <1>2, <1>5 DEF TypeOK, Stamp
  <2>2. 1..(j - 1) = 1..n
    BY <1>2, <1>5
  <2>3. (\A i \in 1..(j - 1) : sent'[i].nonce < Stamp(j)')
          <=> \A i \in 1..n : sent[i].nonce < clock
    BY <1>2, <1>5, <2>2 DEF Stamp
  <2> QED
    BY <2>1, <2>3, ClockAbove
<1> QED
  BY <1>2, <1>4, <1>5

LEMMA BurstInductive == BurstInv /\ NonceInv' /\ [Next]_vars => BurstInv'
<1> SUFFICES ASSUME BurstInv, NonceInv', [Next]_vars
             PROVE  /\ 0 < started'
                    /\ nonce' # 0 => sent' # << >> /\ LastNonce' = nonce'
                    /\ NonceNearClock' /\ SignedIffFresh'
  BY DEF BurstInv
<1>1. TypeOK /\ TypeOK'
  BY DEF BurstInv, NonceInv
<1>2. CASE Sign
  <2>1. NonceNearClock' /\ SignedIffFresh'
    BY <1>1, <1>2, SignNear, SignFresh
  <2>2. sent' # << >> /\ LastNonce' = nonce'
    BY <1>1, <1>2, SignAppends DEF LastNonce, TypeOK
  <2>3. 0 < started'
    BY <1>2 DEF Sign, BurstInv
  <2> QED
    BY <2>1, <2>2, <2>3
<1>3. CASE UNCHANGED << started, nonce, sent >>
  BY <1>3 DEF BurstInv, LastNonce, NonceNearClock, SignedIffFresh, Stamp
<1>4. CASE Restart
  <2>1. 0 < started'
    BY <1>1, <1>4 DEF Restart, TypeOK
  <2>2. nonce' = 0 /\ sent' = sent
    BY <1>4 DEF Restart
  <2> QED
    BY <2>1, <2>2 DEF BurstInv, NonceNearClock, SignedIffFresh, Stamp
<1>5. UNCHANGED vars \/ Tick \/ StepBack => UNCHANGED << started, nonce, sent >>
  BY DEF vars, Tick, StepBack
<1> QED
  BY <1>2, <1>3, <1>4, <1>5 DEF Next

LEMMA BurstInvAlways == Spec => []BurstInv
<1>1. Init /\ NonceInv => BurstInv
  <2> SUFFICES ASSUME Init, NonceInv PROVE BurstInv
    OBVIOUS
  <2>1. sent = << >> /\ Len(sent) = 0 /\ started = 1 /\ nonce = 0
    BY DEF Init
  <2>2. NonceNearClock /\ SignedIffFresh
    BY <2>1 DEF NonceNearClock, SignedIffFresh
  <2> QED
    BY <2>1, <2>2 DEF BurstInv
<1> QED
  BY <1>1, BurstInductive, NonceInvAlways, PTL DEF Spec

(* A nonce runs ahead of the clock by no more than the length of a burst   *)
(* (crypto.cpp:57-61).                                                     *)
THEOREM NonceAlwaysNear == Spec => []NonceNearClock
<1>1. BurstInv => NonceNearClock
  BY DEF BurstInv
<1> QED
  BY <1>1, BurstInvAlways, PTL

(* What is signed is what is sent exactly for the requests stamped above   *)
(* every nonce used before (encoder.cpp:111, crypto.cpp:57).               *)
THEOREM SignedExactlyIfFresh == Spec => []SignedIffFresh
<1>1. BurstInv => SignedIffFresh
  BY DEF BurstInv
<1> QED
  BY <1>1, BurstInvAlways, PTL

=============================================================================
