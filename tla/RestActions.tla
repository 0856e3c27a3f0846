----------------------------- MODULE RestActions -----------------------------
(***************************************************************************)
(* gateway::OrderEntry, the answers to order actions sent over REST.  The  *)
(* callback of a request has captured the order and the version.  Every    *)
(* request has its callback called once, if only because there is no       *)
(* answer.                                                                 *)
(***************************************************************************)
EXTENDS ActionRequests

Respond(r, version, origin) ==
  /\ responses' = responses \cup { ResponseTo(r, r.type, r.order, version, origin) }
  /\ UNCHANGED << ws_api, ready, silent, omsVars, exchangeVars, drops >>

BeSilent(r) ==
  /\ requests' = requests \ {r}
  /\ silent'   = silent \cup {r}
  /\ UNCHANGED << ws_api, ready, responses, omsVars, exchangeVars, drops >>

(* MUTANT of Captured: the version the order has when the answer arrives. *)
CapturedLatest(r) == versions[r.order]

(* The version the callback has captured: 1 for a create. *)
Captured(r) == IF r.type = "CREATE_ORDER" THEN 1 ELSE r.version

(* MUTANTS of HasError: a status that is not resting is an error; only the *)
(* error of a status is looked at.                                         *)
HasErrorStatusOnly(r) == r.verdict = "error"
HasErrorUnlessResting(r) == Refused(r) \/ book[r.order] # "open"

(* CreateOrderAckParser, CancelOrderAckParser and the handlers: the text   *)
(* of a general error, or the error of the first status.                   *)
HasError(r) == Refused(r)

(* handle_success of the two handlers: a Response, or nothing *)
Ack(r) ==
  /\ ~ws_api /\ Answered(r)
  /\ \/ /\ HasError(r)
        /\ requests' = requests \ {r}
        /\ Respond(r, Captured(r), "exchange")
     \/ /\ ~HasError(r)
        /\ BeSilent(r)

CreateOrderAck(r) == r.type = "CREATE_ORDER" /\ Ack(r)

CancelOrderAck(r) == r.type = "CANCEL_ORDER" /\ Ack(r)

(* process_response: the answer is an HTTP error, of a request that may    *)
(* have been executed all the same, or it timed out, or its connection is  *)
(* gone.                                                                   *)
ProcessError(r) ==
  /\ ~ws_api /\ r \in requests /\ r.wire # "done"
  /\ requests' = (requests \ {r}) \cup
       (IF r.verdict = "sent" THEN { [ r EXCEPT !.wire = "done" ] } ELSE {})
  /\ Respond(r, Captured(r), "http")

RestActionsNext ==
  \E r \in requests : CreateOrderAck(r) \/ CancelOrderAck(r) \/ ProcessError(r)

=============================================================================
