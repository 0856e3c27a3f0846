---------------------------- MODULE AccountSync -----------------------------
(***************************************************************************)
(* What the streams of an account promise the OMS, without saying how.  On *)
(* a connection the account is announced READY, DOWNLOADING and READY: the *)
(* first READY promises nothing, the second that order updates are         *)
(* listened to and that every order in doubt when the download began has   *)
(* been confirmed or asked about.  Losing the connection puts all orders   *)
(* in doubt again; and an order is reported complete only if it is.        *)
(*                                                                         *)
(* AccountDownload implements this specification.                          *)
(***************************************************************************)
EXTENDS Sequences

CONSTANT Orders

VARIABLES
  announced,    \* what clients were told on the present connection
  listening,    \* order updates are active on it
  open,         \* orders open at the exchange
  working,      \* orders the OMS takes for open
  stale,        \* ... those of them in doubt
  asked,        \* orders whose status has been asked for
  unasked       \* orders in doubt the present connection has not asked about

vars == << announced, listening, open, working, stale, asked, unasked >>

Init ==
  /\ announced = << >> /\ listening = FALSE
  /\ open \in SUBSET Orders
  /\ working = Orders /\ stale = Orders
  /\ asked = {} /\ unasked = {}

-----------------------------------------------------------------------------
(* The connection *)

Downloading == announced = << "READY", "DOWNLOADING" >>

Begin ==
  /\ announced = << >>
  /\ announced' = << "READY", "DOWNLOADING" >>
  /\ unasked' = stale
  /\ UNCHANGED << listening, open, working, stale, asked >>

Listen ==
  /\ Downloading
  /\ listening' = TRUE
  /\ UNCHANGED << announced, open, working, stale, asked, unasked >>

Announce ==
  /\ Downloading
  /\ listening /\ unasked = {}
  /\ announced' = Append(announced, "READY")
  /\ UNCHANGED << listening, open, working, stale, asked, unasked >>

Lose ==
  /\ announced # << >>
  /\ announced' = << >> /\ listening' = FALSE
  /\ stale' = working /\ unasked' = {}
  /\ UNCHANGED << open, working, asked >>

-----------------------------------------------------------------------------
(* The orders *)

Closes(o) ==
  /\ o \in open
  /\ open' = open \ {o}
  /\ UNCHANGED << announced, listening, working, stale, asked, unasked >>

(* An order that falls into doubt while the download is under way may be   *)
(* left to the checks of a READY account.                                  *)
Doubt(o) ==
  /\ o \in working \ stale
  /\ stale' = stale \cup {o}
  /\ \/ UNCHANGED unasked
     \/ Downloading /\ unasked' = unasked \cup {o}
  /\ UNCHANGED << announced, listening, open, working, asked >>

(* The OMS drops an order: nobody can be told of it any more. *)
Forget(o) ==
  /\ working' = working \ {o} /\ stale' = stale \ {o}
  /\ unasked' = unasked \ {o}
  /\ UNCHANGED << announced, listening, open, asked >>

(* Orders are asked about.  A request made before the open orders have     *)
(* been used does not settle the doubt of the present connection.          *)
Ask(os) ==
  /\ asked' = asked \cup os
  /\ unasked' \in { unasked, unasked \ os }
  /\ UNCHANGED << announced, listening, open, working, stale >>

(* Orders are confirmed; those that are complete are not open. *)
Confirm(os, complete) ==
  /\ complete \subseteq os /\ complete \cap open = {}
  /\ working' = working \ complete
  /\ stale'   = stale \ os
  /\ unasked' = unasked \ os
  /\ UNCHANGED << announced, listening, open >>

(* An update confirms, an answer confirms or fails. *)
Update(os, complete) == Confirm(os, complete) /\ UNCHANGED asked

Answer(o) ==
  /\ o \in asked
  /\ asked' = asked \ {o}
  /\ \/ \E complete \in SUBSET {o} : Confirm({o}, complete)
     \/ UNCHANGED << announced, listening, open, working, stale, unasked >>

Next ==
  \/ Begin \/ Listen \/ Announce \/ Lose
  \/ \E o \in Orders : Closes(o) \/ Doubt(o) \/ Forget(o) \/ Answer(o)
  \/ \E os \in SUBSET Orders : Ask(os)
  \/ \E os \in SUBSET Orders, complete \in SUBSET Orders : Update(os, complete)

Spec == Init /\ [][Next]_vars

=============================================================================
