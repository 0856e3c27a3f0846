---------------------------- MODULE OrderLifecycle ---------------------------
(***************************************************************************)
(* What the sending of order actions promises a client, whichever          *)
(* transport is used: each request is answered once, fails, or is lost; a  *)
(* refusal is told under the order and the type that were refused; an      *)
(* order that was refused never opens; and an answer that says nothing     *)
(* means that what was asked for has been done, or that there is nothing   *)
(* left to do.                                                             *)
(*                                                                         *)
(* OrderActions implements this specification.                             *)
(***************************************************************************)
EXTENDS Naturals

CONSTANT Orders

VARIABLES
  made,       \* [Orders -> the number of requests made]
  waiting,    \* requests to be answered: pairs of an order and a number
  lost,       \* requests whose connection is gone
  told,       \* refusals and failures clients know of
  book        \* [Orders -> "new", "open" or "closed"], the truth

vars == << made, waiting, lost, told, book >>

(* The first request for an order is its create. *)
Type(v) == IF v = 1 THEN "CREATE_ORDER" ELSE "CANCEL_ORDER"

Init ==
  /\ made = [ o \in Orders |-> 0 ]
  /\ waiting = {} /\ lost = {} /\ told = {}
  /\ book = [ o \in Orders |-> "new" ]

-----------------------------------------------------------------------------
Ask(o) ==
  /\ made' = [ made EXCEPT ![o] = @ + 1 ]
  /\ waiting' = waiting \cup { << o, made[o] + 1 >> }
  /\ UNCHANGED << lost, told, book >>

Lose ==
  /\ waiting' = {} /\ lost' = lost \cup waiting
  /\ UNCHANGED << made, told, book >>

(* The exchange has refused the request. *)
Refuse(o, v) ==
  /\ << o, v >> \in waiting
  /\ v = 1 => book[o] = "new"
  /\ waiting' = waiting \ { << o, v >> }
  /\ told' = told \cup { << o, Type(v), "exchange" >> }
  /\ UNCHANGED << made, lost, book >>

(* Nothing is known of the request but that no answer will come. *)
Fail(o, v) ==
  /\ << o, v >> \in waiting \cup lost
  /\ waiting' = waiting \ { << o, v >> } /\ lost' = lost \ { << o, v >> }
  /\ told' = told \cup { << o, Type(v), "http" >> }
  /\ UNCHANGED << made, book >>

(* The answer leads to nothing that clients are told. *)
Settled(o) == book[o] = "closed" \/ << o, "CREATE_ORDER", "exchange" >> \in told

Accept(o, v) ==
  /\ << o, v >> \in waiting
  /\ IF v = 1 THEN book[o] # "new" ELSE Settled(o)
  /\ waiting' = waiting \ { << o, v >> }
  /\ UNCHANGED << made, lost, told, book >>

-----------------------------------------------------------------------------
(* The exchange *)

Opens(o) ==
  /\ book[o] = "new" /\ made[o] # 0
  /\ << o, "CREATE_ORDER", "exchange" >> \notin told
  /\ book' = [ book EXCEPT ![o] = "open" ]
  /\ UNCHANGED << made, waiting, lost, told >>

Closes(o) ==
  /\ book[o] = "open"
  /\ book' = [ book EXCEPT ![o] = "closed" ]
  /\ UNCHANGED << made, waiting, lost, told >>

Next ==
  \/ \E o \in Orders : Ask(o) \/ Opens(o) \/ Closes(o)
  \/ Lose
  \/ \E o \in Orders : \E v \in 1..made[o] : Refuse(o, v) \/ Fail(o, v) \/ Accept(o, v)

Spec == Init /\ [][Next]_vars

=============================================================================
