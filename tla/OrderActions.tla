---------------------------- MODULE OrderActions -----------------------------
(***************************************************************************)
(* Order actions: the sending stream composed with the exchange, which     *)
(* executes requests in any order, and the OMS, which learns from order    *)
(* updates and forgets orders that are complete.                           *)
(***************************************************************************)
EXTENDS WebSocket

(* The exchange (external) executes a request, or refuses it. *)
ExchangeDecides(r, verdict) ==
  /\ r \in requests /\ r.verdict = "sent"
  /\ requests' = (requests \ {r}) \cup
       (IF r.wire = "done" THEN {} ELSE { [ r EXCEPT !.verdict = verdict ] })
  /\ UNCHANGED << ws_api, ready, responses, silent, omsVars, drops >>

(* The order of that name, if it has been placed. *)
Named(name) ==
  { o \in Orders :
      \E n \in DOMAIN placed :
        placed[n] = o /\ name \in { << "cloid", o >>, << "oid", n >> } }

(* The order is no longer open. *)
Closed(o) ==
  /\ book'     = [ book EXCEPT ![o] = "closed" ]
  /\ updates'  = updates \cup {o}
  /\ standing' = { c \in standing : c[1] # o }
  /\ UNCHANGED placed

ExchangeCreates(r) ==
  /\ r.type = "CREATE_ORDER"
  /\ \/ /\ ExchangeDecides(r, "ok")
        /\ book'    = [ book EXCEPT ![r.order] = "open" ]
        /\ placed'  = Append(placed, r.order)
        /\ updates' = updates \cup { r.order }
        /\ UNCHANGED standing
     \/ /\ \E verdict \in { "error", "general" } : ExchangeDecides(r, verdict)
        /\ UNCHANGED exchangeVars

ExchangeCancels(r) ==
  /\ r.type = "CANCEL_ORDER"
  /\ \/ \E o \in Named(r.name) :
           book[o] = "open" /\ ExchangeDecides(r, "ok") /\ Closed(o)
     \/ /\ \A o \in Named(r.name) : book[o] # "open"
        /\ ExchangeDecides(r, "error")
        /\ UNCHANGED exchangeVars
     \/ /\ ExchangeDecides(r, "general")
        /\ UNCHANGED exchangeVars

(* The order fills, or the exchange cancels it. *)
ExchangeCloses(o) ==
  /\ book[o] = "open"
  /\ Closed(o)
  /\ UNCHANGED << streamVars, omsVars, drops >>

(* DropCopy (another module) passes an order update on to the OMS: it      *)
(* names the order and tells its external id.                              *)
OrderUpdate(o) ==
  /\ o \in updates
  /\ updates' = updates \ {o}
  /\ \E n \in DOMAIN placed :
       placed[n] = o /\ external' = [ external EXCEPT ![o] = n ]
  /\ UNCHANGED << streamVars, versions, kept, book, placed, standing, drops >>

(* The OMS knows that the order is complete: its create was refused, or an *)
(* update said so.                                                         *)
Complete(o) ==
  \/ book[o] = "closed" /\ o \notin updates
  \/ \E p \in responses : p.type = "CREATE_ORDER" /\ p.order = o

OmsForgets(o) ==
  /\ MayForget
  /\ o \in kept /\ Complete(o)
  /\ kept' = kept \ {o}
  /\ UNCHANGED << streamVars, versions, external, exchangeVars, drops >>

EnvironmentNext ==
  \/ \E r \in requests : ExchangeCreates(r) \/ ExchangeCancels(r)
  \/ \E o \in Orders : ExchangeCloses(o) \/ OrderUpdate(o) \/ OmsForgets(o)

-----------------------------------------------------------------------------
Init ==
  /\ ws_api \in BOOLEAN
  /\ ready = FALSE /\ requests = {} /\ responses = {} /\ silent = {}
  /\ versions = [ o \in Orders |-> 0 ] /\ kept = {}
  /\ external = [ o \in Orders |-> 0 ]
  /\ book = [ o \in Orders |-> "new" ] /\ placed = << >>
  /\ updates = {} /\ standing = {}
  /\ drops = 0

Next == RequestNext \/ RestActionsNext \/ WebSocketNext \/ EnvironmentNext

Spec == Init /\ [][Next]_vars

-----------------------------------------------------------------------------
(* Properties                                                              *)

Names == ({ "cloid" } \X Orders) \cup ({ "oid" } \X Nat)

Requests ==
  [ type : RequestTypes, order : Orders, version : Nat \ {0}, id : Nat,
    name : Names, verdict : Verdicts, wire : Wires ]

Responses ==
  [ request : Requests, type : RequestTypes, order : Orders, version : Nat,
    origin : { "exchange", "http" } ]

(* Types; the request ids decode to a type and an order that exist.        *)
TypeOK ==
  /\ ws_api \in BOOLEAN /\ ready \in BOOLEAN
  /\ requests \subseteq Requests /\ silent \subseteq Requests
  /\ responses \subseteq Responses
  /\ versions \in [ Orders -> Nat ]
  /\ kept \subseteq Orders /\ external \in [ Orders -> Nat ]
  /\ placed \in Seq(Orders) /\ updates \subseteq Orders
  /\ standing \subseteq Orders \X Nat
  /\ book \in [ Orders -> { "new", "open", "closed" } ]
  /\ drops \in 0..MaxDrops[ws_api]

(* A Response names the type and the order of the request that failed, and *)
(* its version unless that is left to the OMS, whether they were captured  *)
(* by a callback or have travelled through the request id of the exchange. *)
ResponseMatchesRequest ==
  \A p \in responses :
    /\ p.type = p.request.type /\ p.order = p.request.order
    /\ p.version \in { 0, p.request.version }

(* A request that the exchange refused and that was answered is reported   *)
(* to the OMS, unless the OMS has forgotten the order.                     *)
RefusalsReported ==
  \A r \in silent : Refused(r) => r.order \notin kept

(* An order whose create was reported as refused by the exchange is not    *)
(* open and never was: the answer is not taken for the one of another      *)
(* request.  (An HTTP error is reported as a refusal, too, and says        *)
(* nothing about the order.)                                               *)
RefusedNeverOpen ==
  \A p \in responses :
    p.type = "CREATE_ORDER" /\ p.origin = "exchange" => book[p.order] = "new"

(* When the exchange has dealt with a cancel and it was answered, its      *)
(* order has not been open all the time since it was sent: a cancel does   *)
(* not pass its order by, nor close another one instead, whichever name it *)
(* was given and whenever the update with the external id came, between    *)
(* requests, fills, lost connections and what the OMS forgets.             *)
CancelsMeetTheirOrder ==
  \A r \in silent \cup { p.request : p \in responses } :
    r.type = "CANCEL_ORDER" /\ r.verdict \in { "ok", "error" } =>
      << r.order, r.version >> \notin standing

(* Neither fatal error of an answer that does not fit its request is met.  *)
NoUnexpected == \A r \in requests : ws_api /\ Answered(r) => ~UnexpectedType(r)

(* What clients see: requests to be answered, requests that are lost, and  *)
(* what the OMS was told, under the order and the type it was told.        *)
Numbers(wire) == { << r.order, r.version >> : r \in { s \in requests : s.wire = wire } }

Told == { << p.order, p.type, p.origin >> : p \in responses }

(* Every step of either transport, with the request ids, the parsers, the  *)
(* lost connections and the orders the OMS has forgotten, is a step that   *)
(* OrderLifecycle allows, or none: each request is answered once, fails or *)
(* is lost; a refusal is told of the right order, which never opens; and   *)
(* silence means that nothing is left to do.                               *)
Lifecycle == INSTANCE OrderLifecycle WITH
               made <- versions, waiting <- Numbers("up"), lost <- Numbers("lost"),
               told <- Told

ImplementsLifecycle == Lifecycle!Spec

=============================================================================
