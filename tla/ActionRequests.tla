--------------------------- MODULE ActionRequests ----------------------------
(***************************************************************************)
(* Sending of order actions: Controller routes an event to the stream, the *)
(* Encoder names the order, and the request id of the web socket packs     *)
(* what is needed to find the order again.                                 *)
(***************************************************************************)
EXTENDS ActionVars

(* MUTANTS of EncodeRequestId: the user is not shifted, the type is left   *)
(* out, or always that of a create.                                        *)
EncodeLowUser(type, order) ==
  TypeCode(type) * UserRange * OrderRange + order[1] + order[2]
EncodeNoType(type, order) == order[1] * OrderRange + order[2]
EncodeCreate(type, order) ==
  (TypeCode("CREATE_ORDER") * UserRange + order[1]) * OrderRange + order[2]

(* encode_request_id: type, user and order in 8, 8 and 48 bits *)
EncodeRequestId(type, order) ==
  (TypeCode(type) * UserRange + order[1]) * OrderRange + order[2]

(* decode_request_id *)
DecodeType(id)  == TypeOfCode(id \div (UserRange * OrderRange))
DecodeOrder(id) == << (id \div OrderRange) % UserRange, id % OrderRange >>

-----------------------------------------------------------------------------
(* MUTANT of CancelName: the order is always named by its external id. *)
CancelNameOid(o) == << "oid", external[o] >>

(* Encoder::create_order: the cloid is the request id of the create, which *)
(* becomes the client_order_id.                                            *)
CreateName(o) == << "cloid", o >>

(* Encoder::cancel_order: cancelByCloid unless the external id is known *)
CancelName(o) ==
  IF external[o] = 0 THEN << "cloid", o >> ELSE << "oid", external[o] >>

NewRequest(type, o, name) ==
  [ type    |-> type,
    order   |-> o,
    version |-> versions[o] + 1,
    id      |-> EncodeRequestId(type, o),
    name    |-> name,
    verdict |-> "sent",
    wire    |-> "up" ]

(* A request is sent if the connection is up; the library (external)       *)
(* refuses it by an exception otherwise.                                   *)
Send(r) ==
  /\ ready
  /\ versions[r.order] < MaxVersion
  /\ versions' = [ versions EXCEPT ![r.order] = r.version ]
  /\ requests' = requests \cup {r}
  /\ UNCHANGED << ws_api, ready, responses, silent, external, book, placed,
                  updates, drops >>

CreateOrder(o) ==
  /\ versions[o] = 0
  /\ kept' = kept \cup {o}
  /\ Send(NewRequest("CREATE_ORDER", o, CreateName(o)))
  /\ UNCHANGED standing

(* The OMS lets an order be cancelled that it has not seen completed.      *)
CancelOrder(o) ==
  /\ o \in kept
  /\ Send(NewRequest("CANCEL_ORDER", o, CancelName(o)))
  /\ standing' = IF book[o] = "open" THEN standing \cup { << o, versions[o] + 1 >> }
                                     ELSE standing
  /\ UNCHANGED kept

-----------------------------------------------------------------------------
(* The connection *)

StreamReady ==
  /\ ~ready
  /\ ready' = TRUE
  /\ UNCHANGED << ws_api, requests, responses, silent, omsVars, exchangeVars, drops >>

(* The answers of requests under way are lost; the requests need not be.   *)
StreamDisconnected ==
  /\ ready
  /\ drops < MaxDrops[ws_api]
  /\ drops' = drops + 1
  /\ ready' = FALSE
  /\ requests' = { [ r EXCEPT !.wire = IF @ = "up" THEN "lost" ELSE @ ] : r \in requests }
  /\ UNCHANGED << ws_api, responses, silent, omsVars, exchangeVars >>

RequestNext ==
  \/ \E o \in Orders : CreateOrder(o) \/ CancelOrder(o)
  \/ StreamReady
  \/ StreamDisconnected

=============================================================================
