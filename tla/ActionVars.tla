----------------------------- MODULE ActionVars ------------------------------
(***************************************************************************)
(* The state shared by the streams that send order actions of one account: *)
(* OrderEntry (REST) and WebSocket, of which settings.ws_api chooses one,  *)
(* and what they share with the OMS of the host and the exchange (both     *)
(* external).  An action is a request that is answered on the connection   *)
(* it was sent on; what becomes of the order is told by DropCopy, whose    *)
(* order updates are not ordered with the answers.                         *)
(*                                                                         *)
(* ModifyOrder and CancelAllOrders are refused by an exception before      *)
(* anything is signed or sent: they change nothing and are no actions.     *)
(***************************************************************************)
EXTENDS Naturals, FiniteSets, Sequences

CONSTANTS
  Orders,        \* pairs << user id, order id >>
  UserRange,     \* 2^8: users that can be packed into a request id
  OrderRange,    \* 2^48: ORDER_ID_MAX + 1
  MayForget,     \* may the OMS forget an order that is complete?
  MaxVersion,    \* BOUND: requests for an order
  MaxDrops       \* BOUND: lost connections, by ws_api

ASSUME RangeAssumption  == UserRange \in Nat \ {0} /\ OrderRange \in Nat \ {0}
ASSUME OrdersAssumption ==
  IsFiniteSet(Orders) /\ Orders \subseteq (0..(UserRange - 1)) \X (0..(OrderRange - 1))
ASSUME SwitchAssumption == MayForget \in BOOLEAN
ASSUME BoundAssumption  == MaxVersion \in Nat /\ MaxDrops \in [ BOOLEAN -> Nat ]

VARIABLES
  ws_api,      \* settings.ws_api: which stream sends, for good
  \* the stream that sends
  ready,       \* its connection is up
  requests,    \* requests that have not been answered
  responses,   \* HISTORY: server::oms::Response dispatched to the OMS
  silent,      \* HISTORY: requests answered without a Response
  \* OMS
  versions,    \* the number of requests made for an order
  kept,        \* orders that find_order finds
  external,    \* external_order_id of an order, 0 if it is not known
  \* exchange
  book,        \* "new", "open" or "closed"
  placed,      \* orders as they were placed: the n-th has the external id n
  updates,     \* orders DropCopy is about to be told of
  standing,    \* HISTORY: requests to cancel an order that was open when
               \* they were sent and has been open since
  drops        \* BOUND: lost connections so far

streamVars   == << ws_api, ready, requests, responses, silent >>
omsVars      == << versions, kept, external >>
exchangeVars == << book, placed, updates, standing >>
vars         == << streamVars, omsVars, exchangeVars, drops >>

-----------------------------------------------------------------------------
RequestTypes == { "CREATE_ORDER", "CANCEL_ORDER" }

(* Values of enum RequestType; 0 is UNDEFINED. *)
TypeCode(type) == IF type = "CREATE_ORDER" THEN 1 ELSE 3

TypeOfCode(code) ==
  IF code = 1 THEN "CREATE_ORDER" ELSE IF code = 3 THEN "CANCEL_ORDER" ELSE "UNDEFINED"

(* What the exchange makes of a request: it is on its way, it was executed *)
(* (ok), refused with the status of the order (error), or as a whole       *)
(* (general), for instance for its signature.                              *)
Verdicts == { "sent", "ok", "error", "general" }

Refused(r) == r.verdict \in { "error", "general" }

(* A request waits for its answer (up), its connection is gone (lost), or  *)
(* its callback has been called with an error (done).  It may be executed  *)
(* all the same.                                                           *)
Wires == { "up", "lost", "done" }

Answered(r) == r \in requests /\ r.wire = "up" /\ r.verdict # "sent"

(* server::oms::Response: type, order and version as the handler has them  *)
(* (0 stands for a version that is not given); request is the one that was *)
(* answered, origin says whether by the exchange or by an HTTP error.      *)
ResponseTo(r, type, order, version, origin) ==
  [ request |-> r, type |-> type, order |-> order, version |-> version,
    origin |-> origin ]

=============================================================================
