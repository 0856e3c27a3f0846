------------------------------ MODULE WebSocket ------------------------------
(***************************************************************************)
(* gateway::WebSocket, the answers to order actions sent over a web        *)
(* socket.  The parser chooses the handler by the status of the answer and *)
(* the type of its response; the handler finds the order by the request    *)
(* id.  Requests of a connection that was lost are never answered.         *)
(***************************************************************************)
EXTENDS RestActions

(* Parser::dispatch: which of the three handlers an answer goes to *)
Handler(r) ==
  IF r.verdict = "general" THEN "ActionError"
  ELSE IF r.type = "CREATE_ORDER" THEN "ActionOrder" ELSE "ActionCancel"

(* The order an answer is taken to be about. *)
Found(r) == DecodeOrder(r.id) \in kept

(* dispatcher.find_order, then a Response or a log message *)
RespondIfFound(r, version) ==
  \/ /\ Found(r)
     /\ requests'  = requests \ {r}
     /\ responses' = responses \cup
          { ResponseTo(r, DecodeType(r.id), DecodeOrder(r.id), version, "exchange") }
     /\ UNCHANGED << ws_api, ready, silent, omsVars, exchangeVars, drops >>
  \/ /\ ~Found(r)
     /\ BeSilent(r)

ActionError(r) ==
  /\ Handler(r) = "ActionError"
  /\ RespondIfFound(r, 0)

(* No status has an error: the order update says the rest. *)
ActionSuccess(r) ==
  /\ Handler(r) # "ActionError" /\ ~HasError(r)
  /\ BeSilent(r)

(* log::fatal("Unexpected: request_type=...") in two handlers *)
UnexpectedType(r) ==
  /\ Handler(r) # "ActionError" /\ HasError(r)
  /\ DecodeType(r.id) # (IF Handler(r) = "ActionOrder" THEN "CREATE_ORDER"
                                                       ELSE "CANCEL_ORDER")

ActionOrder(r) ==
  /\ Handler(r) = "ActionOrder" /\ HasError(r) /\ ~UnexpectedType(r)
  /\ RespondIfFound(r, 1)

(* The version is left to the OMS. *)
ActionCancel(r) ==
  /\ Handler(r) = "ActionCancel" /\ HasError(r) /\ ~UnexpectedType(r)
  /\ RespondIfFound(r, 0)

WebSocketNext ==
  \E r \in requests :
    /\ ws_api /\ Answered(r)
    /\ ActionError(r) \/ ActionSuccess(r) \/ ActionOrder(r) \/ ActionCancel(r)

=============================================================================
