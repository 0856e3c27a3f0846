------------------------- MODULE OrderActions_proofs -------------------------
(***************************************************************************)
(* Proofs about OrderActions, for every set of orders, every width of the  *)
(* parts of a request id, both transports, and any number of requests and  *)
(* lost connections.                                                       *)
(***************************************************************************)
EXTENDS OrderActions, TLAPS

-----------------------------------------------------------------------------
(* Request ids                                                             *)

(* Division undoes what packing did. *)
LEMMA Unpack ==
  ASSUME NEW a \in Nat, NEW n \in Nat \ {0}, NEW b \in 0..(n - 1)
  PROVE  /\ (a * n + b) \div n = a
         /\ (a * n + b) % n = b
         /\ a * n + b \in Nat
  OBVIOUS

(* The codes of the types that are sent are told apart. *)
LEMMA Codes ==
  ASSUME NEW type \in RequestTypes
  PROVE  TypeCode(type) \in Nat /\ TypeOfCode(TypeCode(type)) = type
  BY DEF RequestTypes, TypeCode, TypeOfCode

(* An order is a pair of a user and a number that fit their bits. *)
LEMMA OrderParts ==
  ASSUME NEW o \in Orders
  PROVE  /\ o[1] \in 0..(UserRange - 1) /\ o[2] \in 0..(OrderRange - 1)
         /\ o = << o[1], o[2] >>
  BY OrdersAssumption

(* decode_request_id is the inverse of encode_request_id: no user, order   *)
(* or type is mistaken for another.                                        *)
THEOREM PackingInverse ==
  ASSUME NEW type \in RequestTypes, NEW o \in Orders
  PROVE  /\ EncodeRequestId(type, o) \in Nat
         /\ DecodeType(EncodeRequestId(type, o)) = type
         /\ DecodeOrder(EncodeRequestId(type, o)) = o
<1> DEFINE t == TypeCode(type)
           u == o[1]
           n == o[2]
           id == EncodeRequestId(type, o)
<1>1. t \in Nat /\ TypeOfCode(t) = type
  BY Codes
<1>2. u \in 0..(UserRange - 1) /\ n \in 0..(OrderRange - 1) /\ o = << u, n >>
  BY OrderParts
<1>3. UserRange \in Nat \ {0} /\ OrderRange \in Nat \ {0}
  BY RangeAssumption
<1>4. id = (t * UserRange + u) * OrderRange + n
  BY DEF EncodeRequestId
<1> HIDE DEF t, u, n, id
<1>5. (t * UserRange + u) \in Nat /\ (t * UserRange + u) % UserRange = u
  BY <1>1, <1>2, <1>3, Unpack
<1>6. id \in Nat /\ id \div OrderRange = t * UserRange + u /\ id % OrderRange = n
  <2> DEFINE a == t * UserRange + u
  <2>1. a \in Nat /\ id = a * OrderRange + n
    BY <1>4, <1>5
  <2> HIDE DEF a
  <2>2. id \in Nat /\ id \div OrderRange = a /\ id % OrderRange = n
    BY <2>1, <1>2, <1>3, Unpack
  <2> QED
    BY <2>2 DEF a
<1>7. id \div (UserRange * OrderRange) = t
  <2> DEFINE w == UserRange * OrderRange
             b == u * OrderRange + n
  <2>1. w \in Nat \ {0}
    BY <1>3
  <2>2. b \in 0..(w - 1)
    <3>1. u * OrderRange <= (UserRange - 1) * OrderRange
      BY <1>2, <1>3
    <3>2. (UserRange - 1) * OrderRange = UserRange * OrderRange - OrderRange
      BY <1>3
    <3>3. u * OrderRange \in Nat /\ UserRange * OrderRange \in Nat
      BY <1>2, <1>3
    <3> QED
      BY <1>2, <1>3, <3>1, <3>2, <3>3
  <2>3. id = t * w + b
    BY <1>1, <1>2, <1>3, <1>4
  <2> HIDE DEF w, b
  <2>4. id \div w = t
    BY <1>1, <2>1, <2>2, <2>3, Unpack
  <2> QED
    BY <2>4 DEF w
<1>8. DecodeType(id) = type
  BY <1>1, <1>7 DEF DecodeType
<1>9. DecodeOrder(id) = o
  BY <1>2, <1>5, <1>6 DEF DecodeOrder
<1> QED
  BY <1>6, <1>8, <1>9 DEF id

-----------------------------------------------------------------------------
(* Requests and responses                                                  *)

(* What holds of a request from the moment it is sent: its id is that of   *)
(* its order, and a create is the first request for it.                    *)
WellFormed(r) ==
  /\ r.id = EncodeRequestId(r.type, r.order)
  /\ r.type = "CREATE_ORDER" => r.version = 1

(* A request counts as a version of its order, so the order of a request   *)
(* is not created again.                                                   *)
RequestsKnown ==
  /\ \A r \in requests : WellFormed(r) /\ versions[r.order] # 0
  /\ \A r \in silent : versions[r.order] # 0

ActionInv ==
  /\ TypeOK
  /\ RequestsKnown
  /\ ResponseMatchesRequest
  /\ RefusalsReported

(* A request stays well-formed when its verdict or its wire changes.       *)
LEMMA Changed ==
  ASSUME NEW r \in Requests,
         NEW v \in Verdicts, NEW w \in Wires,
         WellFormed(r)
  PROVE  /\ [ r EXCEPT !.verdict = v ] \in Requests
         /\ WellFormed([ r EXCEPT !.verdict = v ])
         /\ [ r EXCEPT !.verdict = v ].order = r.order
         /\ [ r EXCEPT !.wire = w ] \in Requests
         /\ WellFormed([ r EXCEPT !.wire = w ])
         /\ [ r EXCEPT !.wire = w ].order = r.order
<1>1. /\ [ r EXCEPT !.verdict = v ] \in Requests
      /\ [ r EXCEPT !.wire = w ] \in Requests
  BY DEF Requests
<1>2. ASSUME NEW s \in { [ r EXCEPT !.verdict = v ], [ r EXCEPT !.wire = w ] }
      PROVE  /\ s.id = r.id /\ s.type = r.type /\ s.order = r.order
             /\ s.version = r.version /\ s.name = r.name
  BY DEF Requests
<1>3. WellFormed(r) = ( /\ r.id = EncodeRequestId(r.type, r.order)
                        /\ r.type = "CREATE_ORDER" => r.version = 1 )
  BY DEF WellFormed
<1>4. ASSUME NEW s \in { [ r EXCEPT !.verdict = v ], [ r EXCEPT !.wire = w ] }
      PROVE  WellFormed(s) /\ s.order = r.order
  BY <1>2, <1>3 DEF WellFormed
<1> QED
  BY <1>1, <1>4

LEMMA InitAction == Init => ActionInv
<1> SUFFICES ASSUME Init PROVE ActionInv
  OBVIOUS
<1>1. /\ ws_api \in BOOLEAN /\ ready = FALSE /\ requests = {} /\ responses = {} /\ silent = {}
      /\ kept = {} /\ updates = {} /\ standing = {}
      /\ versions \in [ Orders -> Nat ] /\ external \in [ Orders -> Nat ]
      /\ placed \in Seq(Orders)
      /\ book \in [ Orders -> { "new", "open", "closed" } ]
      /\ drops \in 0..MaxDrops[ws_api]
  BY BoundAssumption DEF Init
<1>2. TypeOK
  BY <1>1, Zenon DEF TypeOK
<1>3. RequestsKnown /\ ResponseMatchesRequest /\ RefusalsReported
  BY <1>1, Zenon DEF RequestsKnown, ResponseMatchesRequest, RefusalsReported
<1> QED
  BY <1>2, <1>3 DEF ActionInv

(* The names requests are sent with. *)
LEMMA SentName ==
  ASSUME ActionInv, NEW o \in Orders
  PROVE  CreateName(o) \in Names /\ CancelName(o) \in Names
<1>1. external[o] \in Nat
  BY DEF ActionInv, TypeOK
<1> QED
  BY <1>1 DEF CreateName, CancelName, Names

(* Sending: kept grows by an order that has no request yet, or not.        *)
LEMMA SendAction ==
  ASSUME ActionInv, NEW o \in Orders, CreateOrder(o) \/ CancelOrder(o)
  PROVE  ActionInv'
<1>1. PICK t \in RequestTypes, name \in Names :
        /\ t = "CREATE_ORDER" => versions[o] = 0 /\ kept' = kept \cup {o}
        /\ t = "CANCEL_ORDER" => kept' = kept
        /\ Send(NewRequest(t, o, name))
        /\ standing' \subseteq standing \cup { << o, versions[o] + 1 >> }
  BY SentName DEF CreateOrder, CancelOrder, RequestTypes
<1> DEFINE r == NewRequest(t, o, name)
<1>2. versions \in [ Orders -> Nat ] /\ EncodeRequestId(t, o) \in Nat
  BY PackingInverse DEF ActionInv, TypeOK
<1>3. /\ r \in Requests
      /\ r.order = o /\ r.version = versions[o] + 1 /\ r.type = t
  BY <1>1, <1>2 DEF NewRequest, Requests, Verdicts, Wires
<1>4. WellFormed(r)
  <2>1. r.id = EncodeRequestId(t, o)
    BY DEF NewRequest
  <2>2. r.type = "CREATE_ORDER" => r.version = 1
    <3> HIDE DEF r
    <3> QED
      BY <1>1, <1>3
  <2>3. r.id = EncodeRequestId(r.type, r.order)
    BY <1>3, <2>1
  <2> HIDE DEF r
  <2> QED
    BY <2>2, <2>3 DEF WellFormed
<1>5. /\ versions' = [ versions EXCEPT ![o] = versions[o] + 1 ]
      /\ requests' = requests \cup {r}
      /\ kept' = kept \/ (kept' = kept \cup {o} /\ versions[o] = 0)
      /\ standing' \subseteq standing \cup { << o, versions[o] + 1 >> }
      /\ UNCHANGED << ws_api, ready, responses, silent, external, book, placed,
                      updates, drops >>
  <2>1. Send(r)
    BY <1>1
  <2> HIDE DEF r
  <2> QED
    BY <1>1, <1>3, <2>1 DEF Send, RequestTypes
<1> HIDE DEF r
<1>6. TypeOK'
  <2>1. versions' \in [ Orders -> Nat ]
    BY <1>2, <1>5
  <2>2. standing' \subseteq Orders \X Nat
    <3>1. versions[o] + 1 \in Nat
      BY <1>2
    <3> QED
      BY <1>5, <3>1 DEF ActionInv, TypeOK
  <2> QED
    BY <1>3, <1>5, <2>1, <2>2 DEF ActionInv, TypeOK
<1>7. RequestsKnown'
  <2>1. versions'[o] # 0
    BY <1>2, <1>5
  <2>2. ASSUME NEW s \in requests \cup silent PROVE versions'[s.order] # 0
    <3>1. s.order \in Orders /\ versions[s.order] # 0
      BY DEF ActionInv, TypeOK, Requests, RequestsKnown
    <3> QED
      BY <1>2, <1>5, <2>1, <3>1
  <2>3. \A s \in requests : WellFormed(s)
    BY DEF ActionInv, RequestsKnown
  <2>4. \A s \in requests' : WellFormed(s) /\ versions'[s.order] # 0
    BY <1>3, <1>4, <1>5, <2>1, <2>2, <2>3
  <2>5. \A s \in silent' : versions'[s.order] # 0
    BY <1>5, <2>2
  <2> QED
    BY <2>4, <2>5 DEF RequestsKnown, WellFormed
<1>8. RefusalsReported'
  BY <1>5 DEF ActionInv, RefusalsReported, RequestsKnown, Refused
<1>9. ResponseMatchesRequest'
  BY <1>5 DEF ActionInv, ResponseMatchesRequest
<1> QED
  BY <1>6, <1>7, <1>8, <1>9 DEF ActionInv

(* An answer: requests shrinks or is replaced, a response is added.        *)
LEMMA RespondAction ==
  ASSUME ActionInv, NEW r \in requests, NEW p \in Responses,
         p.type = p.request.type, p.order = p.request.order,
         p.version \in { 0, p.request.version },
         responses' = responses \cup {p},
         \A s \in requests' : s \in requests \/ s = [ r EXCEPT !.wire = "done" ],
         UNCHANGED << ws_api, ready, silent, versions, kept, external, book, placed, updates, standing, drops >>
  PROVE  ActionInv'
<1>1. r \in Requests /\ WellFormed(r) /\ versions[r.order] # 0
  BY DEF ActionInv, TypeOK, RequestsKnown
<1>2. /\ [ r EXCEPT !.wire = "done" ] \in Requests
      /\ WellFormed([ r EXCEPT !.wire = "done" ])
      /\ [ r EXCEPT !.wire = "done" ].order = r.order
  BY <1>1, Changed DEF Wires, Verdicts
<1>3. TypeOK'
  <2>1. requests' \subseteq Requests
    BY <1>2 DEF ActionInv, TypeOK
  <2> QED
    BY <2>1 DEF ActionInv, TypeOK
<1>4. RequestsKnown'
  <2>1. \A s \in requests' : WellFormed(s) /\ versions[s.order] # 0
    BY <1>1, <1>2 DEF ActionInv, RequestsKnown
  <2> QED
    BY <2>1 DEF ActionInv, RequestsKnown, WellFormed
<1>5. ResponseMatchesRequest'
  BY DEF ActionInv, ResponseMatchesRequest
<1>6. RefusalsReported'
  BY DEF ActionInv, RefusalsReported
<1> QED
  BY <1>3, <1>4, <1>5, <1>6 DEF ActionInv

(* No Response: only if nothing was refused or the order is forgotten.     *)
LEMMA SilentAction ==
  ASSUME ActionInv, NEW r \in requests, BeSilent(r),
         Refused(r) => r.order \notin kept
  PROVE  ActionInv'
<1>1. /\ requests' \subseteq requests /\ silent' = silent \cup {r}
      /\ UNCHANGED << ws_api, ready, responses, versions, kept, external, book, placed, updates, standing, drops >>
  BY DEF BeSilent, omsVars, exchangeVars
<1>2. TypeOK'
  BY <1>1 DEF ActionInv, TypeOK
<1>3. RequestsKnown'
  BY <1>1 DEF ActionInv, RequestsKnown, WellFormed
<1>4. RefusalsReported'
  BY <1>1 DEF ActionInv, RefusalsReported
<1>5. ResponseMatchesRequest'
  BY <1>1 DEF ActionInv, ResponseMatchesRequest
<1> QED
  BY <1>2, <1>3, <1>4, <1>5 DEF ActionInv

(* A decision of the exchange, whatever becomes of the order's book.       *)
LEMMA DecideAction ==
  ASSUME ActionInv, NEW r \in requests, NEW v \in Verdicts,
         ExchangeDecides(r, v),
         book' \in [ Orders -> { "new", "open", "closed" } ],
         placed' \in Seq(Orders), updates' \subseteq Orders,
         standing' \subseteq standing
  PROVE  ActionInv'
<1>1. r \in Requests /\ WellFormed(r) /\ versions[r.order] # 0
  BY DEF ActionInv, TypeOK, RequestsKnown
<1> DEFINE s == [ r EXCEPT !.verdict = v ]
<1>2. s \in Requests /\ WellFormed(s) /\ s.order = r.order
  BY <1>1, Changed DEF Wires
<1>3. /\ requests' \subseteq requests \cup {s}
      /\ UNCHANGED << ws_api, ready, responses, silent, versions, kept, external, drops >>
  BY DEF ExchangeDecides, omsVars
<1> HIDE DEF s
<1>4. TypeOK'
  BY <1>2, <1>3 DEF ActionInv, TypeOK
<1>5. RequestsKnown'
  <2>1. \A q \in requests' : WellFormed(q) /\ versions[q.order] # 0
    BY <1>1, <1>2, <1>3 DEF ActionInv, RequestsKnown
  <2> QED
    BY <1>3, <2>1 DEF ActionInv, RequestsKnown, WellFormed
<1>6. ResponseMatchesRequest' /\ RefusalsReported'
  BY <1>3 DEF ActionInv, ResponseMatchesRequest, RefusalsReported
<1> QED
  BY <1>4, <1>5, <1>6 DEF ActionInv

(* A decoded request id is that of the request: both handlers of the web   *)
(* socket find the order that was meant.                                   *)
LEMMA Decoded ==
  ASSUME ActionInv, NEW r \in requests
  PROVE  /\ r \in Requests /\ r.type \in RequestTypes /\ r.order \in Orders
         /\ DecodeType(r.id) = r.type /\ DecodeOrder(r.id) = r.order
<1>1. r \in Requests /\ r.id = EncodeRequestId(r.type, r.order)
  BY DEF ActionInv, TypeOK, RequestsKnown, WellFormed
<1>2. r.type \in RequestTypes /\ r.order \in Orders
  BY <1>1 DEF Requests
<1> QED
  BY <1>1, <1>2, PackingInverse

LEMMA RestResponse ==
  ASSUME ActionInv, NEW r \in requests, NEW origin \in { "exchange", "http" },
         Respond(r, Captured(r), origin),
         \A s \in requests' : s \in requests \/ s = [ r EXCEPT !.wire = "done" ]
  PROVE  ActionInv'
<1> DEFINE p == ResponseTo(r, r.type, r.order, Captured(r), origin)
<1>1. r \in Requests /\ WellFormed(r)
  BY DEF ActionInv, TypeOK, RequestsKnown
<1>2. Captured(r) = r.version /\ r.version \in Nat
  BY <1>1 DEF Captured, WellFormed, Requests
<1>3. /\ p \in Responses /\ p.request = r
      /\ p.type = r.type /\ p.order = r.order /\ p.version = r.version
  BY <1>1, <1>2 DEF ResponseTo, Responses, Requests
<1>4. /\ responses' = responses \cup {p}
      /\ UNCHANGED << ws_api, ready, silent, versions, kept, external, book, placed, updates, standing, drops >>
  BY DEF Respond, omsVars, exchangeVars
<1> HIDE DEF p
<1> QED
  BY <1>3, <1>4, RespondAction

LEMMA RespondIfFoundAction ==
  ASSUME ActionInv, NEW r \in requests, NEW version \in { 0, r.version },
         RespondIfFound(r, version)
  PROVE  ActionInv'
<1>1. /\ r \in Requests /\ DecodeType(r.id) = r.type /\ DecodeOrder(r.id) = r.order
  BY Decoded
<1>2. CASE Found(r)
  <2> DEFINE p == ResponseTo(r, DecodeType(r.id), DecodeOrder(r.id), version, "exchange")
  <2>1. /\ p \in Responses /\ p.request = r
        /\ p.type = r.type /\ p.order = r.order /\ p.version = version
    BY <1>1 DEF ResponseTo, Responses, Requests
  <2>2. /\ responses' = responses \cup {p} /\ requests' \subseteq requests
        /\ UNCHANGED << ws_api, ready, silent, versions, kept, external, book, placed, updates, standing, drops >>
    BY <1>2 DEF RespondIfFound, omsVars, exchangeVars
  <2> HIDE DEF p
  <2> QED
    BY <2>1, <2>2, RespondAction
<1>3. CASE ~Found(r)
  <2>1. BeSilent(r) /\ r.order \notin kept
    BY <1>1, <1>3 DEF RespondIfFound, Found
  <2> QED
    BY <2>1, SilentAction
<1> QED
  BY <1>2, <1>3

LEMMA RequestStep == ActionInv /\ RequestNext => ActionInv'
<1> SUFFICES ASSUME ActionInv, RequestNext PROVE ActionInv'
  OBVIOUS
<1>1. ASSUME NEW o \in Orders, CreateOrder(o) \/ CancelOrder(o) PROVE ActionInv'
  BY <1>1, SendAction
<1>2. CASE StreamReady
  <2>1. /\ ready' = TRUE
        /\ UNCHANGED << ws_api, requests, responses, silent, versions, kept, external,
                        book, placed, updates, standing, drops >>
    BY <1>2 DEF StreamReady, omsVars, exchangeVars
  <2> QED
    BY <2>1 DEF ActionInv, TypeOK, RequestsKnown, WellFormed,
       ResponseMatchesRequest, RefusalsReported
<1>3. CASE StreamDisconnected
  <2> DEFINE f(r) == [ r EXCEPT !.wire = IF @ = "up" THEN "lost" ELSE @ ]
  <2>1. /\ ready' = FALSE /\ drops' = drops + 1 /\ drops < MaxDrops[ws_api]
        /\ requests' = { f(r) : r \in requests }
        /\ UNCHANGED << ws_api, responses, silent, versions, kept, external, book,
                        placed, updates, standing >>
    BY <1>3 DEF StreamDisconnected, omsVars, exchangeVars
  <2>2. ASSUME NEW r \in requests
        PROVE  f(r) \in Requests /\ WellFormed(f(r)) /\ versions[f(r).order] # 0
    <3>1. r \in Requests /\ WellFormed(r) /\ versions[r.order] # 0
      BY DEF ActionInv, TypeOK, RequestsKnown
    <3> DEFINE w == IF r.wire = "up" THEN "lost" ELSE r.wire
    <3>2. w \in Wires /\ f(r) = [ r EXCEPT !.wire = w ]
      BY <3>1 DEF Wires, Requests
    <3> HIDE DEF w, f
    <3>3. /\ [ r EXCEPT !.wire = w ] \in Requests
          /\ WellFormed([ r EXCEPT !.wire = w ])
          /\ [ r EXCEPT !.wire = w ].order = r.order
      BY <3>1, <3>2, Changed DEF Verdicts
    <3> QED
      BY <3>1, <3>2, <3>3
  <2> HIDE DEF f
  <2>3. \A s \in requests' : s \in Requests /\ WellFormed(s) /\ versions[s.order] # 0
    BY <2>1, <2>2
  <2>4. TypeOK'
    <3>1. requests' \subseteq Requests
      BY <2>3
    <3>2. ws_api' \in BOOLEAN /\ ready' \in BOOLEAN /\ drops' \in 0..MaxDrops[ws_api']
      <4>1. ws_api \in BOOLEAN /\ drops \in 0..MaxDrops[ws_api]
        BY DEF ActionInv, TypeOK
      <4>2. MaxDrops[ws_api] \in Nat
        BY <4>1, BoundAssumption, Zenon
      <4>3. drops' \in 0..MaxDrops[ws_api]
        BY <2>1, <4>1, <4>2
      <4> QED
        BY <2>1, <4>1, <4>3, Zenon
    <3>3. /\ silent' \subseteq Requests /\ responses' \subseteq Responses
          /\ versions' \in [ Orders -> Nat ] /\ kept' \subseteq Orders
          /\ external' \in [ Orders -> Nat ] /\ placed' \in Seq(Orders)
          /\ updates' \subseteq Orders /\ standing' \subseteq Orders \X Nat
          /\ book' \in [ Orders -> { "new", "open", "closed" } ]
      BY <2>1 DEF ActionInv, TypeOK
    <3> QED
      BY <2>1, <3>1, <3>2, <3>3 DEF TypeOK
  <2>5. RequestsKnown'
    BY <2>1, <2>3 DEF ActionInv, RequestsKnown, WellFormed
  <2>6. ResponseMatchesRequest' /\ RefusalsReported'
    BY <2>1 DEF ActionInv, ResponseMatchesRequest, RefusalsReported
  <2> QED
    BY <2>4, <2>5, <2>6 DEF ActionInv
<1> QED
  BY <1>1, <1>2, <1>3 DEF RequestNext

LEMMA RestStep == ActionInv /\ RestActionsNext => ActionInv'
<1> SUFFICES ASSUME ActionInv, NEW r \in requests,
                    Ack(r) \/ ProcessError(r)
             PROVE  ActionInv'
  BY DEF RestActionsNext, CreateOrderAck, CancelOrderAck
<1>1. CASE Ack(r)
  <2>1. CASE HasError(r)
    <3>1. requests' = requests \ {r} /\ Respond(r, Captured(r), "exchange")
      BY <1>1, <2>1 DEF Ack
    <3> QED
      BY <3>1, RestResponse
  <2>2. CASE ~HasError(r)
    <3>1. BeSilent(r) /\ ~Refused(r)
      BY <1>1, <2>2 DEF Ack, HasError
    <3> QED
      BY <3>1, SilentAction
  <2> QED
    BY <2>1, <2>2
<1>2. CASE ProcessError(r)
  <2>1. /\ Respond(r, Captured(r), "http")
        /\ \A s \in requests' : s \in requests \/ s = [ r EXCEPT !.wire = "done" ]
    BY <1>2 DEF ProcessError
  <2> QED
    BY <2>1, RestResponse
<1> QED
  BY <1>1, <1>2

LEMMA WebSocketStep == ActionInv /\ WebSocketNext => ActionInv'
<1> SUFFICES ASSUME ActionInv, NEW r \in requests,
                    ActionError(r) \/ ActionSuccess(r) \/ ActionOrder(r) \/ ActionCancel(r)
             PROVE  ActionInv'
  BY DEF WebSocketNext
<1>1. CASE ActionError(r)
  BY <1>1, RespondIfFoundAction DEF ActionError
<1>2. CASE ActionSuccess(r)
  BY <1>2, SilentAction DEF ActionSuccess, HasError
<1>3. CASE ActionOrder(r)
  <2>1. r.type = "CREATE_ORDER"
    BY <1>3, Decoded DEF ActionOrder, UnexpectedType
  <2>2. r.version = 1
    BY <2>1 DEF ActionInv, RequestsKnown, WellFormed
  <2>3. RespondIfFound(r, 1)
    BY <1>3 DEF ActionOrder
  <2> QED
    BY <2>2, <2>3, RespondIfFoundAction
<1>4. CASE ActionCancel(r)
  BY <1>4, RespondIfFoundAction DEF ActionCancel
<1> QED
  BY <1>1, <1>2, <1>3, <1>4

LEMMA EnvironmentStep == ActionInv /\ EnvironmentNext => ActionInv'
<1> SUFFICES ASSUME ActionInv, EnvironmentNext PROVE ActionInv'
  OBVIOUS
<1> USE DEF Verdicts
<1>1. /\ book \in [ Orders -> { "new", "open", "closed" } ] /\ updates \subseteq Orders
      /\ placed \in Seq(Orders) /\ external \in [ Orders -> Nat ]
  BY DEF ActionInv, TypeOK
<1>2. ASSUME NEW o \in Orders, Closed(o)
      PROVE  /\ book' \in [ Orders -> { "new", "open", "closed" } ]
             /\ placed' = placed /\ updates' \subseteq Orders /\ standing' \subseteq standing
  BY <1>1, <1>2 DEF Closed
<1>3. ASSUME NEW r \in requests, ExchangeCreates(r) PROVE ActionInv'
  <2>1. r.order \in Orders
    BY DEF ActionInv, TypeOK, Requests
  <2>2. PICK v \in Verdicts :
          /\ ExchangeDecides(r, v) /\ standing' = standing
          /\ \/ /\ book' = [ book EXCEPT ![r.order] = "open" ]
                /\ placed' = Append(placed, r.order)
                /\ updates' = updates \cup { r.order }
             \/ book' = book /\ placed' = placed /\ updates' = updates
    BY <1>3 DEF ExchangeCreates, exchangeVars
  <2>3. /\ book' \in [ Orders -> { "new", "open", "closed" } ]
        /\ placed' \in Seq(Orders) /\ updates' \subseteq Orders
    <3>1. CASE /\ book' = [ book EXCEPT ![r.order] = "open" ]
               /\ placed' = Append(placed, r.order)
               /\ updates' = updates \cup { r.order }
      <4>1. book' \in [ Orders -> { "new", "open", "closed" } ]
        BY <1>1, <2>1, <3>1
      <4>2. Append(placed, r.order) \in Seq(Orders)
        BY <1>1, <2>1
      <4> QED
        BY <1>1, <2>1, <3>1, <4>1, <4>2
    <3> QED
      BY <1>1, <2>2, <3>1
  <2> QED
    BY <2>2, <2>3, DecideAction
<1>4. ASSUME NEW r \in requests, ExchangeCancels(r) PROVE ActionInv'
  <2>1. PICK v \in Verdicts :
          /\ ExchangeDecides(r, v)
          /\ (\E o \in Orders : Closed(o)) \/ UNCHANGED exchangeVars
    BY <1>4 DEF ExchangeCancels, Named
  <2>2. /\ book' \in [ Orders -> { "new", "open", "closed" } ]
        /\ placed' \in Seq(Orders) /\ updates' \subseteq Orders /\ standing' \subseteq standing
    BY <1>1, <1>2, <2>1 DEF exchangeVars
  <2> QED
    BY <2>1, <2>2, DecideAction
<1>5. ASSUME NEW o \in Orders, ExchangeCloses(o) \/ OrderUpdate(o) \/ OmsForgets(o)
      PROVE  ActionInv'
  <2>1. /\ UNCHANGED << ws_api, ready, requests, responses, silent, versions, placed, drops >>
        /\ kept' \subseteq kept /\ updates' \subseteq Orders /\ standing' \subseteq standing
        /\ book' \in [ Orders -> { "new", "open", "closed" } ]
        /\ \/ external' = external
           \/ \E n \in DOMAIN placed : external' = [ external EXCEPT ![o] = n ]
    BY <1>1, <1>2, <1>5 DEF ExchangeCloses, OrderUpdate, OmsForgets, Closed, streamVars,
       omsVars, exchangeVars
  <2>2. external' \in [ Orders -> Nat ]
    BY <1>1, <2>1
  <2>3. TypeOK'
    BY <2>1, <2>2 DEF ActionInv, TypeOK
  <2>4. RequestsKnown'
    BY <2>1 DEF ActionInv, RequestsKnown, WellFormed
  <2>5. ResponseMatchesRequest' /\ RefusalsReported'
    BY <2>1 DEF ActionInv, ResponseMatchesRequest, RefusalsReported
  <2> QED
    BY <2>3, <2>4, <2>5 DEF ActionInv
<1> QED
  BY <1>3, <1>4, <1>5 DEF EnvironmentNext

LEMMA StutterAction == ActionInv /\ UNCHANGED vars => ActionInv'
  BY DEF vars, streamVars, omsVars, exchangeVars, ActionInv, TypeOK, RequestsKnown,
     WellFormed, ResponseMatchesRequest, RefusalsReported

(* The inductive invariant holds in every state that can be reached.       *)
THEOREM ActionsInvariant == Spec => []ActionInv
<1>1. ActionInv /\ [Next]_vars => ActionInv'
  BY RequestStep, RestStep, WebSocketStep, EnvironmentStep, StutterAction DEF Next
<1> QED
  BY InitAction, <1>1, PTL DEF Spec

-----------------------------------------------------------------------------
(* Refused orders                                                          *)

(* An order has one create at a time, and none after a refusal.            *)
OneCreate ==
  \A r, s \in requests :
    r.type = "CREATE_ORDER" /\ s.type = "CREATE_ORDER" /\ r.order = s.order => r = s

(* Until the exchange accepts the create, the order is not in the book.    *)
PendingNew ==
  \A r \in requests :
    r.type = "CREATE_ORDER" /\ r.verdict # "ok" => book[r.order] = "new"

RefusedOnce ==
  \A p \in responses :
    p.type = "CREATE_ORDER" /\ p.origin = "exchange" =>
      \A r \in requests : r.type = "CREATE_ORDER" => r.order # p.order

(* Nothing is known of an order before the first request for it.           *)
Untouched ==
  /\ \A o \in Orders : versions[o] = 0 => book[o] = "new"
  /\ \A p \in responses : versions[p.order] # 0

CreateInv == OneCreate /\ PendingNew /\ RefusedOnce /\ Untouched /\ RefusedNeverOpen

LEMMA InitCreate == Init => CreateInv
  BY Zenon DEF Init, CreateInv, OneCreate, PendingNew, RefusedOnce, Untouched,
     RefusedNeverOpen

(* One request is replaced by another for the same order, or removed.      *)
LEMMA ReplacedCreate ==
  ASSUME CreateInv, NEW r \in requests, NEW q,
         q.type = r.type, q.order = r.order,
         requests' \subseteq (requests \ {r}) \cup {q}
  PROVE  /\ OneCreate'
         /\ \A p \in responses :
              p.type = "CREATE_ORDER" /\ p.origin = "exchange" =>
                \A s \in requests' : s.type = "CREATE_ORDER" => s.order # p.order
<1>1. OneCreate'
  <2> SUFFICES ASSUME NEW s1 \in requests', NEW s2 \in requests',
                      s1.type = "CREATE_ORDER", s2.type = "CREATE_ORDER",
                      s1.order = s2.order
               PROVE  s1 = s2
    BY DEF OneCreate
  <2> QED
    BY DEF CreateInv, OneCreate
<1>2. ASSUME NEW p \in responses, p.type = "CREATE_ORDER", p.origin = "exchange",
             NEW s \in requests', s.type = "CREATE_ORDER"
      PROVE  s.order # p.order
  BY <1>2 DEF CreateInv, RefusedOnce
<1> QED
  BY <1>1, <1>2

(* A request r is answered, with a Response p or without.                  *)
LEMMA AnswerCreate ==
  ASSUME CreateInv, ActionInv, NEW r \in requests, NEW q, NEW p,
         q.type = r.type, q.order = r.order, q.verdict = r.verdict,
         requests' \subseteq (requests \ {r}) \cup {q},
         p.type = r.type, p.order = r.order,
         p.origin = "exchange" => Refused(r) /\ requests' \subseteq requests \ {r},
         responses' \subseteq responses \cup {p},
         versions' = versions, book' = book
  PROVE  CreateInv'
<1>1. OneCreate'
  BY ReplacedCreate
<1>2. PendingNew'
  BY DEF CreateInv, PendingNew
<1>3. RefusedOnce'
  <2> SUFFICES ASSUME NEW x \in responses', x.type = "CREATE_ORDER",
                      x.origin = "exchange",
                      NEW s \in requests', s.type = "CREATE_ORDER"
               PROVE  s.order # x.order
    BY DEF RefusedOnce
  <2>1. CASE x \in responses
    BY <2>1, ReplacedCreate
  <2>2. CASE x = p
    BY <2>2 DEF CreateInv, OneCreate
  <2> QED
    BY <2>1, <2>2
<1>4. Untouched'
  BY DEF CreateInv, Untouched, ActionInv, RequestsKnown
<1>5. RefusedNeverOpen'
  <2> SUFFICES ASSUME NEW x \in responses', x.type = "CREATE_ORDER",
                      x.origin = "exchange"
               PROVE  book[x.order] = "new"
    BY DEF RefusedNeverOpen
  <2>1. CASE x \in responses
    BY <2>1 DEF CreateInv, RefusedNeverOpen
  <2>2. CASE x = p
    BY <2>2 DEF CreateInv, PendingNew, Refused
  <2> QED
    BY <2>1, <2>2
<1> QED
  BY <1>1, <1>2, <1>3, <1>4, <1>5 DEF CreateInv

LEMMA SilentCreate ==
  ASSUME CreateInv, ActionInv, NEW r \in requests, BeSilent(r)
  PROVE  CreateInv'
<1>1. /\ requests' = requests \ {r} /\ responses' = responses
      /\ versions' = versions /\ book' = book
  BY DEF BeSilent, omsVars, exchangeVars
<1> DEFINE p == [ type |-> r.type, order |-> r.order, origin |-> "http" ]
<1>2. p.type = r.type /\ p.order = r.order /\ p.origin # "exchange"
  OBVIOUS
<1> HIDE DEF p
<1> QED
  BY <1>1, <1>2, AnswerCreate

LEMMA SendCreate ==
  ASSUME CreateInv, ActionInv, NEW o \in Orders, CreateOrder(o) \/ CancelOrder(o)
  PROVE  CreateInv'
<1>1. PICK q :
        /\ q.order = o /\ q.verdict = "sent"
        /\ q.type = "CREATE_ORDER" => versions[o] = 0
        /\ versions' = [ versions EXCEPT ![o] = versions[o] + 1 ]
        /\ requests' = requests \cup {q}
        /\ responses' = responses /\ book' = book
  <2>1. PICK t \in RequestTypes, name \in Names :
          /\ t = "CREATE_ORDER" => versions[o] = 0
          /\ Send(NewRequest(t, o, name))
    BY SentName DEF CreateOrder, CancelOrder, RequestTypes
  <2> DEFINE q == NewRequest(t, o, name)
  <2>2. /\ q.order = o /\ q.verdict = "sent" /\ q.type = t
        /\ q.version = versions[o] + 1
    BY DEF NewRequest
  <2>3. Send(q)
    BY <2>1
  <2> HIDE DEF q
  <2> QED
    BY <2>1, <2>2, <2>3 DEF Send
<1>2. versions \in [ Orders -> Nat ] /\ \A x \in Orders : versions[x] # 0 => versions'[x] # 0
  BY <1>1 DEF ActionInv, TypeOK
<1>3. \A r \in requests : versions[r.order] # 0
  BY DEF ActionInv, RequestsKnown
<1>4. OneCreate'
  BY <1>1, <1>3 DEF CreateInv, OneCreate
<1>5. PendingNew'
  BY <1>1 DEF CreateInv, PendingNew, Untouched
<1>6. RefusedOnce' /\ RefusedNeverOpen'
  BY <1>1 DEF CreateInv, RefusedOnce, RefusedNeverOpen, Untouched
<1>7. Untouched'
  <2>1. \A p \in responses : p.order \in Orders
    BY DEF ActionInv, TypeOK, Responses
  <2>2. \A x \in Orders : versions'[x] = 0 => versions[x] = 0
    BY <1>2
  <2> QED
    BY <1>1, <1>2, <2>1, <2>2 DEF CreateInv, Untouched
<1> QED
  BY <1>4, <1>5, <1>6, <1>7 DEF CreateInv

LEMMA RequestStepCreate == CreateInv /\ ActionInv /\ RequestNext => CreateInv'
<1> SUFFICES ASSUME CreateInv, ActionInv, RequestNext PROVE CreateInv'
  OBVIOUS
<1>1. ASSUME NEW o \in Orders, CreateOrder(o) \/ CancelOrder(o) PROVE CreateInv'
  BY <1>1, SendCreate
<1>2. CASE StreamReady
  BY <1>2 DEF StreamReady, omsVars, exchangeVars, CreateInv, OneCreate, PendingNew,
     RefusedOnce, Untouched, RefusedNeverOpen
<1>3. CASE StreamDisconnected
  <2> DEFINE f(r) == [ r EXCEPT !.wire = IF @ = "up" THEN "lost" ELSE @ ]
  <2>1. /\ requests' = { f(r) : r \in requests }
        /\ responses' = responses /\ versions' = versions /\ book' = book
    BY <1>3 DEF StreamDisconnected, omsVars, exchangeVars
  <2>2. ASSUME NEW r \in requests
        PROVE  f(r).type = r.type /\ f(r).order = r.order /\ f(r).verdict = r.verdict
    BY DEF ActionInv, TypeOK, Requests
  <2> HIDE DEF f
  <2>3. \A s \in requests' : \E r \in requests :
          s = f(r) /\ s.type = r.type /\ s.order = r.order /\ s.verdict = r.verdict
    BY <2>1, <2>2
  <2>4. OneCreate'
    BY <2>3 DEF CreateInv, OneCreate
  <2>5. PendingNew'
    BY <2>1, <2>3 DEF CreateInv, PendingNew
  <2>6. RefusedOnce'
    BY <2>1, <2>3 DEF CreateInv, RefusedOnce
  <2>7. Untouched' /\ RefusedNeverOpen'
    BY <2>1 DEF CreateInv, Untouched, RefusedNeverOpen
  <2> QED
    BY <2>4, <2>5, <2>6, <2>7 DEF CreateInv
<1> QED
  BY <1>1, <1>2, <1>3 DEF RequestNext

LEMMA RestStepCreate == CreateInv /\ ActionInv /\ RestActionsNext => CreateInv'
<1> SUFFICES ASSUME CreateInv, ActionInv, NEW r \in requests,
                    Ack(r) \/ ProcessError(r)
             PROVE  CreateInv'
  BY DEF RestActionsNext, CreateOrderAck, CancelOrderAck
<1>1. ASSUME NEW origin, Respond(r, Captured(r), origin)
      PROVE  \E p : /\ p.type = r.type /\ p.order = r.order /\ p.origin = origin
                    /\ responses' = responses \cup {p}
                    /\ versions' = versions /\ book' = book
  <2> DEFINE p == ResponseTo(r, r.type, r.order, Captured(r), origin)
  <2>1. p.type = r.type /\ p.order = r.order /\ p.origin = origin
    BY DEF ResponseTo
  <2>2. /\ responses' = responses \cup {p}
        /\ versions' = versions /\ book' = book
    BY <1>1 DEF Respond, omsVars, exchangeVars
  <2> HIDE DEF p
  <2> QED
    BY <2>1, <2>2
<1>2. CASE Ack(r)
  <2>1. CASE HasError(r)
    <3>1. requests' = requests \ {r} /\ Respond(r, Captured(r), "exchange")
      BY <1>2, <2>1 DEF Ack
    <3>2. PICK p : /\ p.type = r.type /\ p.order = r.order
                   /\ responses' = responses \cup {p}
                   /\ versions' = versions /\ book' = book
      BY <1>1, <3>1
    <3> QED
      BY <2>1, <3>1, <3>2, AnswerCreate DEF HasError
  <2>2. CASE ~HasError(r)
    BY <1>2, <2>2, SilentCreate DEF Ack
  <2> QED
    BY <2>1, <2>2
<1>3. CASE ProcessError(r)
  <2> DEFINE q == [ r EXCEPT !.wire = "done" ]
  <2>1. q.type = r.type /\ q.order = r.order /\ q.verdict = r.verdict
    BY DEF ActionInv, TypeOK, Requests
  <2>2. requests' \subseteq (requests \ {r}) \cup {q} /\ Respond(r, Captured(r), "http")
    BY <1>3 DEF ProcessError
  <2> HIDE DEF q
  <2>3. PICK p : /\ p.type = r.type /\ p.order = r.order /\ p.origin = "http"
                 /\ responses' = responses \cup {p}
                 /\ versions' = versions /\ book' = book
    BY <1>1, <2>2
  <2> QED
    BY <2>1, <2>2, <2>3, AnswerCreate
<1> QED
  BY <1>2, <1>3

LEMMA WebSocketStepCreate == CreateInv /\ ActionInv /\ WebSocketNext => CreateInv'
<1> SUFFICES ASSUME CreateInv, ActionInv, NEW r \in requests,
                    ActionError(r) \/ ActionSuccess(r) \/ ActionOrder(r) \/ ActionCancel(r)
             PROVE  CreateInv'
  BY DEF WebSocketNext
<1>1. ASSUME NEW version, RespondIfFound(r, version), Refused(r)
      PROVE  CreateInv'
  <2> DEFINE p == ResponseTo(r, DecodeType(r.id), DecodeOrder(r.id), version, "exchange")
  <2>1. p.type = r.type /\ p.order = r.order
    BY Decoded DEF ResponseTo
  <2>2. CASE Found(r)
    <3>1. /\ requests' = requests \ {r} /\ responses' = responses \cup {p}
          /\ versions' = versions /\ book' = book
      BY <1>1, <2>2 DEF RespondIfFound, omsVars, exchangeVars
    <3> HIDE DEF p
    <3> QED
      BY <1>1, <2>1, <3>1, AnswerCreate
  <2>3. CASE ~Found(r)
    BY <1>1, <2>3, SilentCreate DEF RespondIfFound
  <2> QED
    BY <2>2, <2>3
<1>2. CASE ActionError(r)
  BY <1>1, <1>2 DEF ActionError, Handler, Refused
<1>3. CASE ActionSuccess(r)
  BY <1>3, SilentCreate DEF ActionSuccess
<1>4. CASE ActionOrder(r)
  BY <1>1, <1>4 DEF ActionOrder, HasError
<1>5. CASE ActionCancel(r)
  BY <1>1, <1>5 DEF ActionCancel, HasError
<1> QED
  BY <1>2, <1>3, <1>4, <1>5

LEMMA EnvironmentStepCreate == CreateInv /\ ActionInv /\ EnvironmentNext => CreateInv'
<1> SUFFICES ASSUME CreateInv, ActionInv, EnvironmentNext PROVE CreateInv'
  OBVIOUS
<1>1. book \in [ Orders -> { "new", "open", "closed" } ]
  BY DEF ActionInv, TypeOK
<1>2. /\ \A r \in requests : r.order \in Orders /\ versions[r.order] # 0
      /\ \A p \in responses : p.order \in Orders
  BY DEF ActionInv, TypeOK, Requests, Responses, RequestsKnown
<1>3. ASSUME NEW r \in requests, NEW v, ExchangeDecides(r, v)
      PROVE  \E q : /\ q.type = r.type /\ q.order = r.order /\ q.verdict = v
                    /\ requests' \subseteq (requests \ {r}) \cup {q}
                    /\ r.verdict = "sent"
                    /\ responses' = responses /\ versions' = versions
  <2> DEFINE q == [ r EXCEPT !.verdict = v ]
  <2>1. q.type = r.type /\ q.order = r.order /\ q.verdict = v
    BY DEF ActionInv, TypeOK, Requests
  <2>2. /\ requests' \subseteq (requests \ {r}) \cup {q} /\ r.verdict = "sent"
        /\ responses' = responses /\ versions' = versions
    BY <1>3 DEF ExchangeDecides, omsVars
  <2> HIDE DEF q
  <2> QED
    BY <2>1, <2>2
<1>4. ASSUME NEW r \in requests, NEW v, ExchangeDecides(r, v),
             \/ book' = book
             \/ r.type = "CREATE_ORDER" /\ v = "ok" /\ book' = [ book EXCEPT ![r.order] = "open" ]
             \/ \E o \in Orders :
                  book[o] = "open" /\ book' = [ book EXCEPT ![o] = "closed" ]
      PROVE  CreateInv'
  <2> DEFINE Accepted == /\ r.type = "CREATE_ORDER" /\ v = "ok"
                         /\ book' = [ book EXCEPT ![r.order] = "open" ]
  <2>0. Accepted \/ \A x \in Orders : book[x] = "new" => book'[x] = "new"
    BY <1>1, <1>4
  <2> HIDE DEF Accepted
  <2>1. PICK q : /\ q.type = r.type /\ q.order = r.order /\ q.verdict = v
                 /\ requests' \subseteq (requests \ {r}) \cup {q}
                 /\ r.verdict = "sent"
                 /\ responses' = responses /\ versions' = versions
    BY <1>3, <1>4
  <2>2. OneCreate' /\ RefusedOnce'
    BY <2>1, ReplacedCreate DEF RefusedOnce
  <2>3. PendingNew'
    <3> SUFFICES ASSUME NEW s \in requests', s.type = "CREATE_ORDER", s.verdict # "ok"
                 PROVE  book'[s.order] = "new"
      BY DEF PendingNew
    <3>1. book[s.order] = "new" /\ s.order \in Orders
      BY <1>2, <2>1 DEF CreateInv, PendingNew
    <3>2. CASE Accepted
      BY <1>1, <2>1, <3>1, <3>2 DEF Accepted, CreateInv, OneCreate
    <3> QED
      BY <2>0, <3>1, <3>2
  <2>4. Untouched'
    <3>1. \A o \in Orders : o # r.order /\ book[o] = "new" => book'[o] = "new"
      BY <1>1, <2>0 DEF Accepted
    <3> QED
      BY <1>2, <2>1, <3>1 DEF CreateInv, Untouched
  <2>5. RefusedNeverOpen'
    <3> SUFFICES ASSUME NEW p \in responses, p.type = "CREATE_ORDER", p.origin = "exchange"
                 PROVE  book'[p.order] = "new"
      BY <2>1 DEF RefusedNeverOpen
    <3>1. book[p.order] = "new" /\ p.order \in Orders
      BY <1>2 DEF CreateInv, RefusedNeverOpen
    <3>2. CASE Accepted
      BY <1>1, <3>1, <3>2 DEF Accepted, CreateInv, RefusedOnce
    <3> QED
      BY <2>0, <3>1, <3>2
  <2> QED
    BY <2>2, <2>3, <2>4, <2>5 DEF CreateInv
<1>5. ASSUME NEW r \in requests, ExchangeCreates(r) PROVE CreateInv'
  BY <1>4, <1>5 DEF ExchangeCreates, exchangeVars
<1>6. ASSUME NEW r \in requests, ExchangeCancels(r) PROVE CreateInv'
  BY <1>4, <1>6 DEF ExchangeCancels, Named, Closed, exchangeVars
<1>7. ASSUME NEW o \in Orders, ExchangeCloses(o) \/ OrderUpdate(o) \/ OmsForgets(o)
      PROVE  CreateInv'
  <2>1. /\ requests' = requests /\ responses' = responses /\ versions' = versions
        /\ \/ book' = book
           \/ book[o] = "open" /\ book' = [ book EXCEPT ![o] = "closed" ]
    BY <1>7 DEF ExchangeCloses, OrderUpdate, OmsForgets, Closed, streamVars, omsVars,
       exchangeVars
  <2>2. \A x \in Orders : book[x] = "new" => book'[x] = "new"
    BY <1>1, <2>1
  <2> QED
    BY <1>2, <2>1, <2>2 DEF CreateInv, OneCreate, PendingNew, RefusedOnce, Untouched,
       RefusedNeverOpen
<1> QED
  BY <1>5, <1>6, <1>7 DEF EnvironmentNext

LEMMA StutterCreate == CreateInv /\ UNCHANGED vars => CreateInv'
  BY DEF vars, streamVars, omsVars, exchangeVars, CreateInv, OneCreate, PendingNew,
     RefusedOnce, Untouched, RefusedNeverOpen

LEMMA CreateInvariant == Spec => []CreateInv
<1>1. CreateInv /\ ActionInv /\ [Next]_vars => CreateInv'
  BY RequestStepCreate, RestStepCreate, WebSocketStepCreate, EnvironmentStepCreate,
     StutterCreate DEF Next
<1> QED
  BY InitCreate, <1>1, ActionsInvariant, PTL DEF Spec

-----------------------------------------------------------------------------
(* The names of orders                                                     *)

Placed(o) == \E n \in DOMAIN placed : placed[n] = o

(* The name is one of the order. *)
NameOf(name, o) ==
  \/ name = << "cloid", o >>
  \/ \E n \in DOMAIN placed : placed[n] = o /\ name = << "oid", n >>

(* What the OMS knows as an external id is that of the order.              *)
ExternalKnown ==
  /\ \A o \in Orders :
       external[o] # 0 => external[o] \in DOMAIN placed /\ placed[external[o]] = o
  /\ \A o \in Orders : book[o] # "new" => Placed(o)

(* A cancel on its way names its order, whatever is placed meanwhile.      *)
NamesResolve ==
  \A r \in requests : r.type = "CANCEL_ORDER" => NameOf(r.name, r.order)

StandingOpen ==
  \A c \in standing : book[c[1]] = "open" /\ c[2] <= versions[c[1]]

Answers == requests \cup silent \cup { p.request : p \in responses }

(* The exchange has dealt with a cancel as to its order. *)
Dealt(r) == r.type = "CANCEL_ORDER" /\ r.verdict \in { "ok", "error" }

Met ==
  \A r \in Answers :
    /\ r.version <= versions[r.order]
    /\ Dealt(r) => << r.order, r.version >> \notin standing

MeetInv == ExternalKnown /\ NamesResolve /\ StandingOpen /\ Met

LEMMA InitMeet == Init => MeetInv
<1> SUFFICES ASSUME Init PROVE MeetInv
  OBVIOUS
<1>1. /\ requests = {} /\ silent = {} /\ responses = {} /\ standing = {}
      /\ external = [ o \in Orders |-> 0 ] /\ book = [ o \in Orders |-> "new" ]
  BY DEF Init
<1>2. ExternalKnown
  BY <1>1 DEF ExternalKnown
<1>3. NamesResolve /\ StandingOpen
  BY <1>1, Zenon DEF NamesResolve, StandingOpen
<1>4. Answers = {}
  BY <1>1 DEF Answers
<1> QED
  BY <1>2, <1>3, <1>4, Zenon DEF MeetInv, Met

(* A name leads to no order but the one it is of, and to that one if it    *)
(* has been placed.                                                        *)
LEMMA NamedOnly ==
  ASSUME NEW name, NEW o \in Orders, NameOf(name, o)
  PROVE  /\ Named(name) \subseteq {o}
         /\ Placed(o) => o \in Named(name)
<1>1. CASE name = << "cloid", o >>
  <2>1. ASSUME NEW x, NEW n, name \in { << "cloid", x >>, << "oid", n >> } PROVE x = o
    BY <1>1, <2>1
  <2>2. \A n : name \in { << "cloid", o >>, << "oid", n >> }
    BY <1>1
  <2> QED
    BY <2>1, <2>2 DEF Named, Placed
<1>2. CASE \E n \in DOMAIN placed : placed[n] = o /\ name = << "oid", n >>
  <2>1. PICK n \in DOMAIN placed : placed[n] = o /\ name = << "oid", n >>
    BY <1>2
  <2>2. ASSUME NEW x, NEW m, name \in { << "cloid", x >>, << "oid", m >> } PROVE m = n
    BY <2>1, <2>2
  <2>3. name \in { << "cloid", o >>, << "oid", n >> }
    BY <2>1
  <2> QED
    BY <2>1, <2>2, <2>3 DEF Named, Placed
<1> QED
  BY <1>1, <1>2 DEF NameOf

LEMMA NamedByRequest ==
  ASSUME ActionInv, MeetInv, NEW r \in requests, r.type = "CANCEL_ORDER"
  PROVE  /\ Named(r.name) \subseteq { r.order }
         /\ Placed(r.order) => r.order \in Named(r.name)
<1>1. r.order \in Orders
  BY DEF ActionInv, TypeOK, Requests
<1>2. NameOf(r.name, r.order)
  BY DEF MeetInv, NamesResolve
<1> QED
  BY <1>1, <1>2, NamedOnly

(* A request that is new to no set of requests, with its name and verdict. *)
Like(s, r) ==
  /\ s.type = r.type /\ s.order = r.order /\ s.version = r.version
  /\ s.name = r.name /\ s.verdict = r.verdict

(* Requests change sets, or lose their connection, and nothing else moves. *)
LEMMA SameMeet ==
  ASSUME MeetInv,
         UNCHANGED << versions, external, book, placed, standing >>,
         \A s \in requests' : \E r \in requests : Like(s, r),
         silent' \subseteq silent \cup requests,
         \A p \in responses' : p \in responses \/ p.request \in requests
  PROVE  MeetInv'
<1>1. ExternalKnown' /\ StandingOpen'
  BY DEF MeetInv, ExternalKnown, StandingOpen, Placed
<1>2. NamesResolve'
  BY DEF MeetInv, NamesResolve, NameOf, Like
<1>3. \A s \in Answers' : \E r \in Answers : Like(s, r)
  <2>1. \A r : Like(r, r)
    BY DEF Like
  <2> QED
    BY <2>1 DEF Answers
<1>4. Met'
  <2> SUFFICES ASSUME NEW s \in Answers'
               PROVE  /\ s.version <= versions[s.order]
                      /\ Dealt(s) => << s.order, s.version >> \notin standing
    BY Zenon DEF Met, Dealt
  <2>1. PICK r \in Answers : Like(s, r)
    BY <1>3
  <2>2. Dealt(s) => Dealt(r)
    BY <2>1 DEF Dealt, Like
  <2>3. /\ r.version <= versions[r.order]
        /\ Dealt(r) => << r.order, r.version >> \notin standing
    BY DEF MeetInv, Met
  <2> QED
    BY <2>1, <2>2, <2>3 DEF Like
<1> QED
  BY <1>1, <1>2, <1>4 DEF MeetInv

(* A request is sent under a name of its order; a cancel has a number that *)
(* no answered one has.                                                    *)
LEMMA SendMeet ==
  ASSUME ActionInv, MeetInv, NEW o \in Orders, CreateOrder(o) \/ CancelOrder(o)
  PROVE  MeetInv'
<1>1. versions \in [ Orders -> Nat ] /\ external[o] \in Nat
  BY DEF ActionInv, TypeOK
<1>2. \A r \in Answers : r \in Requests /\ r.order \in Orders /\ r.version \in Nat
  BY DEF ActionInv, TypeOK, Answers, Requests, Responses
<1>3. PICK r :
        /\ r.order = o /\ r.version = versions[o] + 1 /\ r.verdict = "sent"
        /\ r.type = "CANCEL_ORDER" => r.name = CancelName(o)
        /\ requests' = requests \cup {r}
        /\ versions' = [ versions EXCEPT ![o] = versions[o] + 1 ]
        /\ \/ standing' = standing
           \/ standing' = standing \cup { << o, versions[o] + 1 >> } /\ book[o] = "open"
        /\ UNCHANGED << silent, responses, external, book, placed >>
  <2>1. PICK t \in RequestTypes, name \in { CreateName(o), CancelName(o) } :
          /\ t = "CANCEL_ORDER" => name = CancelName(o)
          /\ Send(NewRequest(t, o, name))
          /\ \/ standing' = standing
             \/ standing' = standing \cup { << o, versions[o] + 1 >> } /\ book[o] = "open"
    BY DEF CreateOrder, CancelOrder, RequestTypes
  <2> DEFINE r == NewRequest(t, o, name)
  <2>2. /\ r.order = o /\ r.version = versions[o] + 1 /\ r.verdict = "sent"
        /\ r.type = t /\ r.name = name
    BY DEF NewRequest
  <2>3. Send(r)
    BY <2>1
  <2> HIDE DEF r
  <2> QED
    BY <2>1, <2>2, <2>3 DEF Send
<1>4. ExternalKnown'
  BY <1>3 DEF MeetInv, ExternalKnown, Placed
<1>5. NamesResolve'
  <2>1. NameOf(CancelName(o), o)
    BY <1>1 DEF CancelName, NameOf, MeetInv, ExternalKnown
  <2> QED
    BY <1>3, <2>1 DEF MeetInv, NamesResolve, NameOf
<1>6. \A x \in Orders : versions[x] <= versions'[x]
  BY <1>1, <1>3
<1>7. StandingOpen'
  <2> SUFFICES ASSUME NEW c \in standing'
               PROVE  book[c[1]] = "open" /\ c[2] <= versions'[c[1]]
    BY <1>3 DEF StandingOpen
  <2>1. CASE c \in standing
    <3>1. c[1] \in Orders /\ c[2] \in Nat
      BY <2>1 DEF ActionInv, TypeOK
    <3>2. book[c[1]] = "open" /\ c[2] <= versions[c[1]]
      BY <2>1 DEF MeetInv, StandingOpen
    <3>3. versions[c[1]] <= versions'[c[1]] /\ versions[c[1]] \in Nat /\ versions'[c[1]] \in Nat
      BY <1>1, <1>3, <1>6, <3>1
    <3> QED
      BY <3>1, <3>2, <3>3
  <2>2. CASE c = << o, versions[o] + 1 >> /\ book[o] = "open"
    <3>1. c[1] = o /\ c[2] = versions[o] + 1 /\ versions'[o] = versions[o] + 1
      BY <1>1, <1>3, <2>2
    <3> QED
      BY <1>1, <2>2, <3>1
  <2> QED
    BY <1>3, <2>1, <2>2
<1>8. Met'
  <2>1. Answers' = Answers \cup {r}
    BY <1>3 DEF Answers
  <2>2. ASSUME NEW s \in Answers
        PROVE  /\ s.version <= versions'[s.order]
               /\ Dealt(s) => << s.order, s.version >> \notin standing'
    <3>1. /\ s.version <= versions[s.order]
          /\ Dealt(s) => << s.order, s.version >> \notin standing
      BY DEF MeetInv, Met
    <3>2. << s.order, s.version >> # << o, versions[o] + 1 >>
      BY <1>1, <1>2, <3>1
    <3>3. s.version <= versions'[s.order]
      BY <1>1, <1>2, <1>3, <1>6, <3>1
    <3> QED
      BY <1>3, <3>1, <3>2, <3>3
  <2>3. r.version <= versions'[r.order] /\ ~Dealt(r)
    BY <1>1, <1>3 DEF Dealt
  <2> QED
    BY <2>1, <2>2, <2>3 DEF Met, Dealt
<1> QED
  BY <1>4, <1>5, <1>7, <1>8 DEF MeetInv

LEMMA RequestStepMeet == ActionInv /\ MeetInv /\ RequestNext => MeetInv'
<1> SUFFICES ASSUME ActionInv, MeetInv, RequestNext PROVE MeetInv'
  OBVIOUS
<1>1. ASSUME NEW o \in Orders, CreateOrder(o) \/ CancelOrder(o) PROVE MeetInv'
  BY <1>1, SendMeet
<1>2. CASE StreamReady
  BY <1>2, SameMeet DEF StreamReady, omsVars, exchangeVars, Like
<1>3. CASE StreamDisconnected
  <2> DEFINE f(r) == [ r EXCEPT !.wire = IF @ = "up" THEN "lost" ELSE @ ]
  <2>1. /\ requests' = { f(r) : r \in requests }
        /\ UNCHANGED << silent, responses, versions, external, book, placed, standing >>
    BY <1>3 DEF StreamDisconnected, omsVars, exchangeVars
  <2>2. ASSUME NEW r \in requests PROVE Like(f(r), r)
    BY DEF ActionInv, TypeOK, Requests, Like
  <2> HIDE DEF f
  <2>3. \A s \in requests' : \E r \in requests : Like(s, r)
    BY <2>1, <2>2
  <2> QED
    BY <2>1, <2>3, SameMeet
<1> QED
  BY <1>1, <1>2, <1>3 DEF RequestNext

(* The answer of either transport is that of a request.                    *)
LEMMA SilentMeet ==
  ASSUME MeetInv, NEW r \in requests, BeSilent(r)
  PROVE  MeetInv'
  BY SameMeet DEF BeSilent, omsVars, exchangeVars, Like

LEMMA RestStepMeet == ActionInv /\ MeetInv /\ RestActionsNext => MeetInv'
<1> SUFFICES ASSUME ActionInv, MeetInv, NEW r \in requests,
                    Ack(r) \/ ProcessError(r)
             PROVE  MeetInv'
  BY DEF RestActionsNext, CreateOrderAck, CancelOrderAck
<1>1. ASSUME NEW origin, Respond(r, Captured(r), origin),
             \A s \in requests' : \E x \in requests : Like(s, x)
      PROVE  MeetInv'
  <2> DEFINE p == ResponseTo(r, r.type, r.order, Captured(r), origin)
  <2>1. p.request = r
    BY DEF ResponseTo
  <2>2. /\ responses' = responses \cup {p} /\ silent' = silent
        /\ UNCHANGED << versions, external, book, placed, standing >>
    BY <1>1 DEF Respond, omsVars, exchangeVars
  <2> HIDE DEF p
  <2> QED
    BY <1>1, <2>1, <2>2, SameMeet
<1>2. CASE Ack(r)
  <2>1. CASE HasError(r)
    BY <1>1, <1>2, <2>1 DEF Ack, Like
  <2>2. CASE ~HasError(r)
    BY <1>2, <2>2, SilentMeet DEF Ack
  <2> QED
    BY <2>1, <2>2
<1>3. CASE ProcessError(r)
  <2> DEFINE q == [ r EXCEPT !.wire = "done" ]
  <2>1. Like(q, r)
    BY DEF ActionInv, TypeOK, Requests, Like
  <2>2. requests' \subseteq requests \cup {q} /\ Respond(r, Captured(r), "http")
    BY <1>3 DEF ProcessError
  <2> HIDE DEF q
  <2>3. \A s \in requests' : \E x \in requests : Like(s, x)
    BY <2>1, <2>2 DEF Like
  <2> QED
    BY <1>1, <2>2, <2>3
<1> QED
  BY <1>2, <1>3

LEMMA WebSocketStepMeet == ActionInv /\ MeetInv /\ WebSocketNext => MeetInv'
<1> SUFFICES ASSUME ActionInv, MeetInv, NEW r \in requests,
                    ActionError(r) \/ ActionSuccess(r) \/ ActionOrder(r) \/ ActionCancel(r)
             PROVE  MeetInv'
  BY DEF WebSocketNext
<1>1. ASSUME NEW version, RespondIfFound(r, version) PROVE MeetInv'
  <2>1. CASE Found(r)
    <3> DEFINE p == ResponseTo(r, DecodeType(r.id), DecodeOrder(r.id), version, "exchange")
    <3>1. p.request = r
      BY DEF ResponseTo
    <3>2. /\ requests' = requests \ {r} /\ responses' = responses \cup {p}
          /\ UNCHANGED << silent, versions, external, book, placed, standing >>
      BY <1>1, <2>1 DEF RespondIfFound, omsVars, exchangeVars
    <3> HIDE DEF p
    <3> QED
      BY <3>1, <3>2, SameMeet DEF Like
  <2>2. CASE ~Found(r)
    BY <1>1, <2>2, SilentMeet DEF RespondIfFound
  <2> QED
    BY <2>1, <2>2
<1> QED
  BY <1>1, SilentMeet DEF ActionError, ActionSuccess, ActionOrder, ActionCancel

(* A decision of the exchange about r, with a verdict v.                   *)
LEMMA DecideMeet ==
  ASSUME ActionInv, MeetInv, NEW r \in requests, NEW v, ExchangeDecides(r, v),
         placed' \in Seq(Orders),
         \A n \in DOMAIN placed : n \in DOMAIN placed' /\ placed'[n] = placed[n],
         \A o \in Orders : book'[o] # "new" => Placed(o)',
         standing' \subseteq standing,
         \A c \in standing' : book'[c[1]] = "open",
         r.type = "CANCEL_ORDER" /\ v \in { "ok", "error" } =>
           << r.order, r.version >> \notin standing'
  PROVE  MeetInv'
<1> DEFINE q == [ r EXCEPT !.verdict = v ]
<1>1. /\ requests' \subseteq (requests \ {r}) \cup {q}
      /\ UNCHANGED << silent, responses, versions, external >>
  BY DEF ExchangeDecides, omsVars
<1>2. /\ q.type = r.type /\ q.order = r.order /\ q.version = r.version
      /\ q.name = r.name /\ q.verdict = v
  BY DEF ActionInv, TypeOK, Requests
<1> HIDE DEF q
<1>3. ExternalKnown'
  BY <1>1 DEF MeetInv, ExternalKnown
<1>4. ASSUME NEW name, NEW o, NameOf(name, o) PROVE NameOf(name, o)'
  BY <1>4 DEF NameOf
<1>5. NamesResolve'
  <2>1. \A s \in requests' : s.type = "CANCEL_ORDER" => NameOf(s.name, s.order)
    BY <1>1, <1>2 DEF MeetInv, NamesResolve
  <2> QED
    BY <1>4, <2>1 DEF NamesResolve
<1>6. StandingOpen'
  BY <1>1 DEF MeetInv, StandingOpen
<1>7. Met'
  <2>1. Answers' \subseteq Answers \cup {q}
    BY <1>1 DEF Answers
  <2>2. r \in Answers
    BY DEF Answers
  <2>3. ASSUME NEW s \in Answers
        PROVE  /\ s.version <= versions[s.order]
               /\ Dealt(s) => << s.order, s.version >> \notin standing
    BY DEF MeetInv, Met
  <2>4. q.version <= versions[q.order] /\ (Dealt(q) => << q.order, q.version >> \notin standing')
    <3>1. q.version <= versions[q.order]
      BY <1>2, <2>2, <2>3
    <3>2. << q.order, q.version >> = << r.order, r.version >>
      BY <1>2, Zenon
    <3>3. Dealt(q) => << r.order, r.version >> \notin standing'
      BY <1>2 DEF Dealt
    <3> QED
      BY <3>1, <3>2, <3>3, Zenon
  <2>5. ASSUME NEW s \in Answers'
        PROVE  /\ s.version <= versions[s.order]
               /\ Dealt(s) => << s.order, s.version >> \notin standing'
    <3>1. CASE s \in Answers
      BY <2>3, <3>1
    <3>2. CASE s = q
      BY <2>4, <3>2, Zenon
    <3> QED
      BY <2>1, <3>1, <3>2
  <2>6. versions' = versions
    BY <1>1
  <2> QED
    BY <2>5, <2>6, Zenon DEF Met, Dealt
<1> QED
  BY <1>3, <1>5, <1>6, <1>7 DEF MeetInv

LEMMA EnvironmentStepMeet == ActionInv /\ MeetInv /\ EnvironmentNext => MeetInv'
<1> SUFFICES ASSUME ActionInv, MeetInv, EnvironmentNext PROVE MeetInv'
  OBVIOUS
<1>1. /\ book \in [ Orders -> { "new", "open", "closed" } ] /\ placed \in Seq(Orders)
      /\ external \in [ Orders -> Nat ] /\ standing \subseteq Orders \X Nat
  BY DEF ActionInv, TypeOK
<1>2. /\ \A o \in Orders : book[o] # "new" => Placed(o)
      /\ \A c \in standing : book[c[1]] = "open" /\ c[2] <= versions[c[1]]
  BY DEF MeetInv, ExternalKnown, StandingOpen
<1>3. \A c \in standing : c[1] \in Orders
  BY <1>1
<1>4. ASSUME NEW o \in Orders, book[o] = "open", Closed(o)
      PROVE  /\ placed' = placed
             /\ \A x \in Orders : book'[x] # "new" => Placed(x)'
             /\ standing' \subseteq standing
             /\ \A c \in standing' : book'[c[1]] = "open" /\ c[1] # o
  <2>1. /\ book' = [ book EXCEPT ![o] = "closed" ] /\ placed' = placed
        /\ standing' = { c \in standing : c[1] # o }
    BY <1>4 DEF Closed
  <2>2. \A x \in Orders : book'[x] # "new" => book[x] # "new"
    BY <1>1, <1>4, <2>1
  <2>3. \A x : Placed(x)' = Placed(x)
    BY <2>1 DEF Placed
  <2> QED
    BY <1>1, <1>2, <1>3, <2>1, <2>2, <2>3
<1>5. ASSUME NEW r \in requests, ExchangeCreates(r) PROVE MeetInv'
  <2>1. r.order \in Orders /\ r.type # "CANCEL_ORDER"
    BY <1>5 DEF ExchangeCreates, ActionInv, TypeOK, Requests
  <2>2. PICK v :
          /\ ExchangeDecides(r, v) /\ standing' = standing
          /\ \/ /\ book' = [ book EXCEPT ![r.order] = "open" ]
                /\ placed' = Append(placed, r.order)
             \/ book' = book /\ placed' = placed
    BY <1>5 DEF ExchangeCreates, exchangeVars
  <2>3. /\ placed' \in Seq(Orders)
        /\ \A n \in DOMAIN placed : n \in DOMAIN placed' /\ placed'[n] = placed[n]
        /\ \A x \in Orders : book'[x] # "new" => book[x] # "new" \/ Placed(x)'
    <3>1. CASE placed' = Append(placed, r.order) /\ book' = [ book EXCEPT ![r.order] = "open" ]
      <4>1. /\ placed' \in Seq(Orders)
            /\ \A n \in DOMAIN placed : n \in DOMAIN placed' /\ placed'[n] = placed[n]
            /\ Len(placed) + 1 \in DOMAIN placed' /\ placed'[Len(placed) + 1] = r.order
        BY <1>1, <2>1, <3>1
      <4>2. Placed(r.order)'
        BY <4>1 DEF Placed
      <4>3. \A x \in Orders : x # r.order => book'[x] = book[x]
        BY <1>1, <3>1
      <4> QED
        BY <4>1, <4>2, <4>3
    <3>2. CASE book' = book /\ placed' = placed
      BY <1>1, <3>2
    <3> QED
      BY <2>2, <3>1, <3>2
  <2>4. \A x \in Orders : book'[x] # "new" => Placed(x)'
    BY <1>2, <2>3 DEF Placed
  <2>5. \A c \in standing' : book'[c[1]] = "open"
    BY <1>1, <1>2, <1>3, <2>1, <2>2
  <2> QED
    BY <2>1, <2>2, <2>3, <2>4, <2>5, DecideMeet
<1>6. ASSUME NEW r \in requests, ExchangeCancels(r) PROVE MeetInv'
  <2>1. r.order \in Orders /\ r.type = "CANCEL_ORDER"
    BY <1>6 DEF ExchangeCancels, ActionInv, TypeOK, Requests
  <2>2. /\ Named(r.name) \subseteq { r.order }
        /\ Placed(r.order) => r.order \in Named(r.name)
    BY <2>1, NamedByRequest
  <2>3. CASE \E o \in Named(r.name) :
               book[o] = "open" /\ ExchangeDecides(r, "ok") /\ Closed(o)
    <3>1. book[r.order] = "open" /\ ExchangeDecides(r, "ok") /\ Closed(r.order)
      BY <2>2, <2>3
    <3>2. /\ placed' = placed
          /\ \A x \in Orders : book'[x] # "new" => Placed(x)'
          /\ standing' \subseteq standing
          /\ \A c \in standing' : book'[c[1]] = "open" /\ c[1] # r.order
      BY <1>4, <2>1, <3>1
    <3>3. << r.order, r.version >> \notin standing'
      BY <3>2
    <3> QED
      BY <1>1, <3>1, <3>2, <3>3, DecideMeet
  <2>4. ASSUME NEW v, ExchangeDecides(r, v), UNCHANGED exchangeVars,
               v \in { "ok", "error" } => << r.order, r.version >> \notin standing
        PROVE  MeetInv'
    <3>1. UNCHANGED << book, placed, standing >>
      BY <2>4 DEF exchangeVars
    <3>2. \A x \in Orders : book'[x] # "new" => Placed(x)'
      BY <1>2, <3>1 DEF Placed
    <3> QED
      BY <1>1, <1>2, <2>4, <3>1, <3>2, DecideMeet
  <2>5. CASE /\ \A o \in Named(r.name) : book[o] # "open"
             /\ ExchangeDecides(r, "error") /\ UNCHANGED exchangeVars
    <3>1. book[r.order] # "open"
      BY <1>2, <2>1, <2>2, <2>5
    <3>2. << r.order, r.version >> \notin standing
      BY <1>2, <3>1
    <3> QED
      BY <2>4, <2>5, <3>2
  <2>6. CASE ExchangeDecides(r, "general") /\ UNCHANGED exchangeVars
    BY <2>4, <2>6
  <2> QED
    BY <1>6, <2>3, <2>5, <2>6 DEF ExchangeCancels
<1>7. ASSUME NEW o \in Orders, ExchangeCloses(o) PROVE MeetInv'
  <2>1. /\ book[o] = "open" /\ Closed(o)
        /\ UNCHANGED << requests, silent, responses, versions, external >>
    BY <1>7 DEF ExchangeCloses, streamVars, omsVars
  <2>2. /\ placed' = placed
        /\ \A x \in Orders : book'[x] # "new" => Placed(x)'
        /\ standing' \subseteq standing
        /\ \A c \in standing' : book'[c[1]] = "open" /\ c[1] # o
    BY <1>4, <2>1
  <2>3. ExternalKnown'
    BY <2>1, <2>2 DEF MeetInv, ExternalKnown
  <2>4. NamesResolve'
    BY <2>1, <2>2 DEF MeetInv, NamesResolve, NameOf
  <2>5. StandingOpen'
    BY <1>2, <2>1, <2>2 DEF StandingOpen
  <2>6. Answers' = Answers
    BY <2>1 DEF Answers
  <2>7. Met'
    BY <2>1, <2>2, <2>6 DEF MeetInv, Met, Dealt
  <2> QED
    BY <2>3, <2>4, <2>5, <2>7 DEF MeetInv
<1>8. ASSUME NEW o \in Orders, OrderUpdate(o) PROVE MeetInv'
  <2>1. PICK n \in DOMAIN placed : placed[n] = o /\ external' = [ external EXCEPT ![o] = n ]
    BY <1>8 DEF OrderUpdate
  <2>2. UNCHANGED << requests, silent, responses, versions, book, placed, standing >>
    BY <1>8 DEF OrderUpdate, streamVars
  <2>3. ExternalKnown'
    BY <1>1, <2>1, <2>2 DEF MeetInv, ExternalKnown, Placed
  <2>4. NamesResolve' /\ StandingOpen'
    BY <2>2 DEF MeetInv, NamesResolve, NameOf, StandingOpen
  <2>5. Answers' = Answers
    BY <2>2 DEF Answers
  <2>6. Met'
    BY <2>2, <2>5 DEF MeetInv, Met, Dealt
  <2> QED
    BY <2>3, <2>4, <2>6 DEF MeetInv
<1>9. ASSUME NEW o \in Orders, OmsForgets(o) PROVE MeetInv'
  BY <1>9, SameMeet DEF OmsForgets, streamVars, exchangeVars, Like
<1> QED
  BY <1>5, <1>6, <1>7, <1>8, <1>9 DEF EnvironmentNext

LEMMA StutterMeet == MeetInv /\ UNCHANGED vars => MeetInv'
  BY SameMeet DEF vars, streamVars, omsVars, exchangeVars, Like

LEMMA MeetInvariant == Spec => []MeetInv
<1>1. MeetInv /\ ActionInv /\ [Next]_vars => MeetInv'
  BY RequestStepMeet, RestStepMeet, WebSocketStepMeet, EnvironmentStepMeet, StutterMeet
     DEF Next
<1> QED
  BY InitMeet, <1>1, ActionsInvariant, PTL DEF Spec

-----------------------------------------------------------------------------
(* Theorems                                                                *)

(* Types of the streams, the OMS and the exchange; every request id is     *)
(* that of a request type and an order.                                    *)
THEOREM TypeCorrect == Spec => []TypeOK
  BY ActionsInvariant, PTL DEF ActionInv

(* A Response names the type, the order and the version of the request it  *)
(* answers, over both transports.                                          *)
THEOREM ResponsesAlwaysMatch == Spec => []ResponseMatchesRequest
  BY ActionsInvariant, PTL DEF ActionInv

(* A refusal that was answered is reported unless the order is forgotten.  *)
THEOREM RefusalsAlwaysReported == Spec => []RefusalsReported
  BY ActionsInvariant, PTL DEF ActionInv

(* No cancel passes by an order that has been open since it was sent, nor  *)
(* closes another one instead, however it was named and whenever the       *)
(* external id came.                                                       *)
THEOREM CancelsAlwaysMeet == Spec => []CancelsMeetTheirOrder
<1>1. ActionInv /\ MeetInv => CancelsMeetTheirOrder
  BY DEF MeetInv, Met, Dealt, Answers, CancelsMeetTheirOrder
<1> QED
  BY ActionsInvariant, MeetInvariant, <1>1, PTL

(* The fatal errors of the two handlers of the web socket are not met.     *)
THEOREM NeverUnexpected == Spec => []NoUnexpected
<1>1. ActionInv => NoUnexpected
  <2> SUFFICES ASSUME ActionInv, NEW r \in requests PROVE ~UnexpectedType(r)
    BY DEF NoUnexpected
  <2> QED
    BY Decoded DEF UnexpectedType, Handler, RequestTypes
<1> QED
  BY ActionsInvariant, <1>1, PTL

(* An order whose create the exchange was reported to have refused never   *)
(* enters the book.                                                        *)
THEOREM RefusedNeverOpens == Spec => []RefusedNeverOpen
  BY CreateInvariant, PTL DEF CreateInv

-----------------------------------------------------------------------------
(* OrderActions implements OrderLifecycle.                                 *)

(* What the refinement needs beyond ActionInv and CreateInv                *)

(* A request is known by its order and its number. *)
Numbered ==
  /\ \A r \in requests :
       r.version <= versions[r.order] /\ r.type = Lifecycle!Type(r.version)
  /\ \A r, s \in requests : r.order = s.order /\ r.version = s.version => r = s

(* What the exchange has executed shows in its book. *)
Executed ==
  \A r \in requests :
    r.verdict = "ok" =>
      IF r.type = "CREATE_ORDER" THEN book[r.order] # "new" ELSE book[r.order] = "closed"

(* The OMS forgets an order when there is nothing left to do; over the web *)
(* socket it knows that from the exchange.                                 *)
Forgotten ==
  /\ \A o \in kept : versions[o] # 0
  /\ ws_api => \A o \in Orders :
                 versions[o] # 0 /\ o \notin kept => Lifecycle!Settled(o)
  /\ ws_api => \A p \in responses : p.origin = "exchange"

LifeInv == Numbered /\ Executed /\ Forgotten

(* Requests with a number. *)
LEMMA InNumbers ==
  ASSUME NEW w, NEW q
  PROVE  q \in Numbers(w) <=> \E r \in requests : r.wire = w /\ q = << r.order, r.version >>
BY DEF Numbers

LEMMA InNumbersNext ==
  ASSUME NEW w, NEW q
  PROVE  q \in Numbers(w)' <=> \E r \in requests' : r.wire = w /\ q = << r.order, r.version >>
BY DEF Numbers

(* A request that leaves, or is only kept as one whose callback has been   *)
(* called, takes its number with it.                                       *)
LEMMA NumberLeaves ==
  ASSUME Numbered, NEW r \in requests, NEW w \in { "up", "lost" },
         requests \ {r} \subseteq requests',
         \A s \in requests' : s \in requests \ {r} \/ s.wire = "done"
  PROVE  Numbers(w)' = Numbers(w) \ { << r.order, r.version >> }
<1>1. ASSUME NEW q \in Numbers(w)'
      PROVE  q \in Numbers(w) \ { << r.order, r.version >> }
  <2>1. PICK s \in requests' : s.wire = w /\ q = << s.order, s.version >>
    BY InNumbersNext
  <2>2. s \in requests \ {r}
    BY <2>1
  <2> QED
    BY <2>1, <2>2, InNumbers DEF Numbered
<1>2. ASSUME NEW q \in Numbers(w) \ { << r.order, r.version >> }
      PROVE  q \in Numbers(w)'
  <2>1. PICK s \in requests : s.wire = w /\ q = << s.order, s.version >>
    BY <1>2, InNumbers
  <2>2. s \in requests'
    BY <1>2, <2>1
  <2> QED
    BY <2>1, <2>2, InNumbersNext
<1> QED
  BY <1>1, <1>2

(* Requests that stay what they are for clients.                           *)
LEMMA NumbersStay ==
  ASSUME NEW w,
         \A s \in requests' : \E r \in requests :
           s.wire = r.wire /\ s.order = r.order /\ s.version = r.version,
         \A r \in requests : r.wire = w => \E s \in requests' :
           s.wire = r.wire /\ s.order = r.order /\ s.version = r.version
  PROVE  Numbers(w)' = Numbers(w)
<1>1. ASSUME NEW q \in Numbers(w)' PROVE q \in Numbers(w)
  <2>1. PICK s \in requests' : s.wire = w /\ q = << s.order, s.version >>
    BY InNumbersNext
  <2>2. PICK r \in requests : s.wire = r.wire /\ s.order = r.order /\ s.version = r.version
    OBVIOUS
  <2> QED
    BY <2>1, <2>2, InNumbers
<1>2. ASSUME NEW q \in Numbers(w) PROVE q \in Numbers(w)'
  <2>1. PICK r \in requests : r.wire = w /\ q = << r.order, r.version >>
    BY InNumbers
  <2>2. PICK s \in requests' : s.wire = r.wire /\ s.order = r.order /\ s.version = r.version
    BY <2>1
  <2> QED
    BY <2>1, <2>2, InNumbersNext
<1> QED
  BY <1>1, <1>2

LEMMA InitLife == Init => LifeInv /\ Lifecycle!Init
<1> SUFFICES ASSUME Init PROVE LifeInv /\ Lifecycle!Init
  OBVIOUS
<1>1. requests = {} /\ responses = {} /\ kept = {} /\ versions = [ o \in Orders |-> 0 ]
      /\ book = [ o \in Orders |-> "new" ]
  BY DEF Init
<1>2. Numbers("up") = {} /\ Numbers("lost") = {} /\ Told = {}
  BY <1>1 DEF Numbers, Told
<1> QED
  BY <1>1, <1>2 DEF LifeInv, Numbered, Executed, Forgotten, Lifecycle!Init

-----------------------------------------------------------------------------
(* Requests                                                                *)

LEMMA SendLife ==
  ASSUME ActionInv, CreateInv, LifeInv, NEW o \in Orders,
         CreateOrder(o) \/ CancelOrder(o)
  PROVE  LifeInv' /\ Lifecycle!Ask(o)
<1>1. versions \in [ Orders -> Nat ]
  BY DEF ActionInv, TypeOK
<1>2. PICK r :
        /\ r.order = o /\ r.version = versions[o] + 1 /\ r.wire = "up" /\ r.verdict = "sent"
        /\ r.type = Lifecycle!Type(r.version)
        /\ requests' = requests \cup {r}
        /\ versions' = [ versions EXCEPT ![o] = versions[o] + 1 ]
        /\ kept' = kept \cup {o}
        /\ UNCHANGED << ws_api, responses, book >>
  <2>1. PICK t \in RequestTypes, name \in Names :
          /\ t = "CREATE_ORDER" => versions[o] = 0 /\ kept' = kept \cup {o}
          /\ t = "CANCEL_ORDER" => o \in kept /\ kept' = kept
          /\ Send(NewRequest(t, o, name))
    BY SentName DEF CreateOrder, CancelOrder, RequestTypes
  <2> DEFINE r == NewRequest(t, o, name)
  <2>2. /\ r.order = o /\ r.version = versions[o] + 1 /\ r.wire = "up"
        /\ r.verdict = "sent" /\ r.type = t
    BY DEF NewRequest
  <2>3. Send(r)
    BY <2>1
  <2> HIDE DEF r
  <2>4. kept' = kept \cup {o}
    BY <2>1 DEF RequestTypes
  <2>5. t = Lifecycle!Type(versions[o] + 1)
    <3>1. CASE t = "CREATE_ORDER"
      BY <2>1, <3>1 DEF Lifecycle!Type
    <3>2. CASE t = "CANCEL_ORDER"
      BY <1>1, <2>1, <3>2 DEF Lifecycle!Type, LifeInv, Forgotten
    <3> QED
      BY <3>1, <3>2 DEF RequestTypes
  <2> QED
    BY <2>2, <2>3, <2>4, <2>5 DEF Send
<1>3. \A s \in requests : s.order \in Orders /\ s.version \in Nat
  BY DEF ActionInv, TypeOK, Requests
<1>4. \A x \in Orders : versions[x] <= versions'[x] /\ (x # o => versions'[x] = versions[x])
  BY <1>1, <1>2
<1>5. Numbered'
  <2>1. \A s \in requests : s.version <= versions[s.order] /\ s.type = Lifecycle!Type(s.version)
    BY DEF LifeInv, Numbered
  <2>2. ASSUME NEW s \in requests PROVE s.version <= versions'[s.order]
    BY <1>1, <1>2, <1>3, <1>4, <2>1
  <2>3. \A s \in requests' : s.version <= versions'[s.order] /\ s.type = Lifecycle!Type(s.version)
    BY <1>1, <1>2, <2>1, <2>2
  <2>4. ASSUME NEW s \in requests, s.order = o PROVE s.version # r.version
    BY <1>1, <1>2, <1>3, <2>1, <2>4
  <2>5. \A s1, s2 \in requests' : s1.order = s2.order /\ s1.version = s2.version => s1 = s2
    BY <1>2, <2>4 DEF LifeInv, Numbered
  <2> QED
    BY <2>3, <2>5 DEF Numbered, Lifecycle!Type
<1>6. Executed'
  BY <1>2 DEF LifeInv, Executed
<1>7. Forgotten'
  <2>1. \A x \in kept' : versions'[x] # 0
    BY <1>1, <1>2 DEF LifeInv, Forgotten, ActionInv, TypeOK
  <2>2. \A x \in Orders : Lifecycle!Settled(x) => Lifecycle!Settled(x)'
    BY <1>2 DEF Lifecycle!Settled, Told
  <2>3. \A x \in Orders : versions'[x] # 0 /\ x \notin kept' => versions[x] # 0 /\ x \notin kept
    BY <1>2, <1>4
  <2> QED
    BY <1>2, <2>1, <2>2, <2>3 DEF LifeInv, Forgotten
<1>8. Numbers("up")' = Numbers("up") \cup { << o, versions[o] + 1 >> }
  <2>1. ASSUME NEW q
        PROVE  q \in Numbers("up")' <=> q \in Numbers("up") \cup { << o, versions[o] + 1 >> }
    BY <1>2, InNumbers, InNumbersNext
  <2> QED
    BY <2>1
<1>9. Numbers("lost")' = Numbers("lost")
  <2>1. ASSUME NEW q PROVE q \in Numbers("lost")' <=> q \in Numbers("lost")
    BY <1>2, InNumbers, InNumbersNext
  <2> QED
    BY <2>1
<1>10. Told' = Told
  BY <1>2 DEF Told
<1> QED
  BY <1>2, <1>5, <1>6, <1>7, <1>8, <1>9, <1>10 DEF LifeInv, Lifecycle!Ask

-----------------------------------------------------------------------------
(* Answers                                                                 *)

(* The facts about one request that the steps below use. *)
LEMMA OfRequest ==
  ASSUME ActionInv, LifeInv, NEW r \in requests
  PROVE  /\ r.order \in Orders /\ r.version \in 1..versions[r.order]
         /\ r.type = Lifecycle!Type(r.version)
         /\ r.type = "CREATE_ORDER" <=> r.version = 1
<1>1. r.order \in Orders /\ r.version \in Nat \ {0} /\ versions \in [ Orders -> Nat ]
  BY DEF ActionInv, TypeOK, Requests
<1>2. r.version <= versions[r.order] /\ r.type = Lifecycle!Type(r.version)
  BY DEF LifeInv, Numbered
<1> QED
  BY <1>1, <1>2 DEF Lifecycle!Type

(* Nothing is lost of LifeInv when a request leaves and more is told. *)
LEMMA LeaveLife ==
  ASSUME LifeInv, NEW r \in requests,
         \A s \in requests' :
           \/ s \in requests \ {r}
           \/ /\ s.order = r.order /\ s.version = r.version /\ s.type = r.type
              /\ s.verdict = r.verdict /\ s.wire = "done",
         \A s1, s2 \in requests' :
           s1 \notin requests \ {r} /\ s2 \notin requests \ {r} => s1 = s2,
         responses \subseteq responses',
         ws_api => \A p \in responses' : p.origin = "exchange",
         UNCHANGED << ws_api, versions, kept, book >>
  PROVE  LifeInv'
<1>1. Numbered'
  <2>1. \A s \in requests' : s.version <= versions[s.order] /\ s.type = Lifecycle!Type(s.version)
    BY DEF LifeInv, Numbered
  <2>2. ASSUME NEW s1 \in requests', NEW s2 \in requests',
               s1.order = s2.order, s1.version = s2.version
        PROVE  s1 = s2
    BY <2>2 DEF LifeInv, Numbered
  <2> QED
    BY <2>1, <2>2 DEF Numbered, Lifecycle!Type
<1>2. Executed'
  BY DEF LifeInv, Executed
<1>3. Forgotten'
  <2>1. \A x : Lifecycle!Settled(x) => Lifecycle!Settled(x)'
    BY DEF Lifecycle!Settled, Told
  <2> QED
    BY <2>1 DEF LifeInv, Forgotten
<1> QED
  BY <1>1, <1>2, <1>3 DEF LifeInv

(* A refusal is told. *)
LEMMA RefuseLife ==
  ASSUME ActionInv, CreateInv, LifeInv, NEW r \in requests, NEW p,
         r.wire = "up", Refused(r),
         requests' = requests \ {r}, responses' = responses \cup {p},
         p.type = r.type, p.order = r.order, p.origin = "exchange",
         UNCHANGED << ws_api, versions, kept, book >>
  PROVE  LifeInv' /\ Lifecycle!Refuse(r.order, r.version)
<1>1. LifeInv'
  <2>1. ws_api => \A q \in responses' : q.origin = "exchange"
    BY DEF LifeInv, Forgotten
  <2> QED
    BY <2>1, LeaveLife
<1>2. << r.order, r.version >> \in Numbers("up")
  BY InNumbers
<1>3. r.version = 1 => book[r.order] = "new"
  BY OfRequest DEF CreateInv, PendingNew, Refused
<1>4. /\ Numbers("up")' = Numbers("up") \ { << r.order, r.version >> }
      /\ Numbers("lost")' = Numbers("lost") \ { << r.order, r.version >> }
  BY NumberLeaves DEF LifeInv
<1>5. << r.order, r.version >> \notin Numbers("lost")
  BY InNumbers DEF LifeInv, Numbered
<1>6. Told' = Told \cup { << r.order, Lifecycle!Type(r.version), "exchange" >> }
  BY OfRequest DEF Told
<1> QED
  BY <1>1, <1>2, <1>3, <1>4, <1>5, <1>6 DEF Lifecycle!Refuse

(* Nothing is told: the request was executed, or the order is forgotten.   *)
LEMMA AcceptLife ==
  ASSUME ActionInv, CreateInv, LifeInv, NEW r \in requests,
         r.wire = "up", r.verdict # "sent", BeSilent(r),
         Refused(r) => ws_api /\ r.order \notin kept
  PROVE  LifeInv' /\ Lifecycle!Accept(r.order, r.version)
<1>1. /\ requests' = requests \ {r}
      /\ UNCHANGED << ws_api, responses, versions, kept, book >>
  BY DEF BeSilent, omsVars, exchangeVars
<1>2. LifeInv'
  <2>1. ws_api => \A q \in responses' : q.origin = "exchange"
    BY <1>1 DEF LifeInv, Forgotten
  <2> QED
    BY <1>1, <2>1, LeaveLife
<1>3. << r.order, r.version >> \in Numbers("up")
  BY InNumbers
<1>4. IF r.version = 1 THEN book[r.order] # "new" ELSE Lifecycle!Settled(r.order)
  <2>1. CASE r.verdict = "ok"
    BY <2>1, OfRequest DEF LifeInv, Executed, Lifecycle!Settled
  <2>2. CASE r.verdict # "ok"
    <3>1. r.verdict \in Verdicts
      BY DEF ActionInv, TypeOK, Requests
    <3>2. ws_api /\ r.order \notin kept
      BY <2>2, <3>1 DEF Verdicts, Refused
    <3>3. Lifecycle!Settled(r.order)
      BY <3>2, OfRequest DEF LifeInv, Forgotten, ActionInv, TypeOK, RequestsKnown
    <3>4. CASE r.version = 1
      <4>1. r.type = "CREATE_ORDER" /\ book[r.order] = "new"
        BY <2>2, <3>4, OfRequest DEF CreateInv, PendingNew
      <4>2. PICK p \in responses :
              p.order = r.order /\ p.type = "CREATE_ORDER" /\ p.origin = "exchange"
        BY <3>3, <4>1 DEF Lifecycle!Settled, Told
      <4> QED
        BY <4>1, <4>2 DEF CreateInv, RefusedOnce
    <3> QED
      BY <3>3, <3>4
  <2> QED
    BY <2>1, <2>2
<1>5. /\ Numbers("up")' = Numbers("up") \ { << r.order, r.version >> }
      /\ Numbers("lost")' = Numbers("lost") \ { << r.order, r.version >> }
  BY <1>1, NumberLeaves DEF LifeInv
<1>6. << r.order, r.version >> \notin Numbers("lost")
  BY InNumbers DEF LifeInv, Numbered
<1>7. Told' = Told
  BY <1>1 DEF Told
<1> QED
  BY <1>1, <1>2, <1>3, <1>4, <1>5, <1>6, <1>7 DEF Lifecycle!Accept

(* A callback is called with an error. *)
LEMMA FailLife ==
  ASSUME ActionInv, CreateInv, LifeInv, NEW r \in requests, ProcessError(r)
  PROVE  LifeInv' /\ Lifecycle!Fail(r.order, r.version)
<1> DEFINE q == [ r EXCEPT !.wire = "done" ]
           p == ResponseTo(r, r.type, r.order, Captured(r), "http")
<1>1. /\ ~ws_api /\ r.wire # "done"
      /\ requests \ {r} \subseteq requests' /\ requests' \subseteq (requests \ {r}) \cup {q}
      /\ responses' = responses \cup {p}
      /\ UNCHANGED << ws_api, versions, kept, book >>
  BY DEF ProcessError, Respond, omsVars, exchangeVars
<1>2. /\ q.order = r.order /\ q.version = r.version /\ q.type = r.type
      /\ q.verdict = r.verdict /\ q.wire = "done"
  BY DEF ActionInv, TypeOK, Requests
<1>3. p.type = r.type /\ p.order = r.order /\ p.origin = "http"
  BY DEF ResponseTo
<1> HIDE DEF q, p
<1>4. LifeInv'
  BY <1>1, <1>2, LeaveLife
<1>5. << r.order, r.version >> \in Numbers("up") \cup Numbers("lost")
  <2>1. r.wire \in Wires
    BY DEF ActionInv, TypeOK, Requests
  <2> QED
    BY <1>1, <2>1, InNumbers DEF Wires
<1>6. /\ Numbers("up")' = Numbers("up") \ { << r.order, r.version >> }
      /\ Numbers("lost")' = Numbers("lost") \ { << r.order, r.version >> }
  BY <1>1, <1>2, NumberLeaves DEF LifeInv
<1>7. Told' = Told \cup { << r.order, Lifecycle!Type(r.version), "http" >> }
  BY <1>1, <1>3, OfRequest DEF Told
<1> QED
  BY <1>1, <1>4, <1>5, <1>6, <1>7 DEF Lifecycle!Fail

LEMMA RestStepLife ==
  ASSUME ActionInv, CreateInv, LifeInv, RestActionsNext
  PROVE  LifeInv' /\ Lifecycle!Next
<1>1. PICK r \in requests : Ack(r) \/ ProcessError(r)
  BY DEF RestActionsNext, CreateOrderAck, CancelOrderAck
<1>2. r.order \in Orders /\ r.version \in 1..versions[r.order]
  BY OfRequest
<1>3. CASE Ack(r)
  <2>1. r.wire = "up" /\ r.verdict # "sent"
    BY <1>3 DEF Ack, Answered
  <2>2. CASE HasError(r)
    <3> DEFINE p == ResponseTo(r, r.type, r.order, Captured(r), "exchange")
    <3>1. /\ requests' = requests \ {r} /\ responses' = responses \cup {p}
          /\ UNCHANGED << ws_api, versions, kept, book >>
      BY <1>3, <2>2 DEF Ack, Respond, omsVars, exchangeVars
    <3>2. p.type = r.type /\ p.order = r.order /\ p.origin = "exchange"
      BY DEF ResponseTo
    <3> HIDE DEF p
    <3>3. LifeInv' /\ Lifecycle!Refuse(r.order, r.version)
      BY <2>1, <2>2, <3>1, <3>2, RefuseLife DEF HasError
    <3> QED
      BY <1>2, <3>3 DEF Lifecycle!Next
  <2>3. CASE ~HasError(r)
    <3>1. LifeInv' /\ Lifecycle!Accept(r.order, r.version)
      BY <1>3, <2>1, <2>3, AcceptLife DEF Ack, HasError
    <3> QED
      BY <1>2, <3>1 DEF Lifecycle!Next
  <2> QED
    BY <2>2, <2>3
<1>4. CASE ProcessError(r)
  BY <1>2, <1>4, FailLife DEF Lifecycle!Next
<1> QED
  BY <1>1, <1>3, <1>4

LEMMA WebSocketStepLife ==
  ASSUME ActionInv, CreateInv, LifeInv, WebSocketNext
  PROVE  LifeInv' /\ Lifecycle!Next
<1>1. PICK r \in requests :
        /\ ws_api /\ Answered(r)
        /\ ActionError(r) \/ ActionSuccess(r) \/ ActionOrder(r) \/ ActionCancel(r)
  BY DEF WebSocketNext
<1>2. /\ r.order \in Orders /\ r.version \in 1..versions[r.order]
      /\ r.wire = "up" /\ r.verdict # "sent"
  BY <1>1, OfRequest DEF Answered
<1>3. ASSUME NEW version, RespondIfFound(r, version), Refused(r)
      PROVE  LifeInv' /\ Lifecycle!Next
  <2> DEFINE p == ResponseTo(r, DecodeType(r.id), DecodeOrder(r.id), version, "exchange")
  <2>1. p.type = r.type /\ p.order = r.order /\ p.origin = "exchange"
    BY Decoded DEF ResponseTo
  <2>2. CASE Found(r)
    <3>1. /\ requests' = requests \ {r} /\ responses' = responses \cup {p}
          /\ UNCHANGED << ws_api, versions, kept, book >>
      BY <1>3, <2>2 DEF RespondIfFound, omsVars, exchangeVars
    <3> HIDE DEF p
    <3>2. LifeInv' /\ Lifecycle!Refuse(r.order, r.version)
      BY <1>2, <1>3, <2>1, <3>1, RefuseLife
    <3> QED
      BY <1>2, <3>2 DEF Lifecycle!Next
  <2>3. CASE ~Found(r)
    <3>1. BeSilent(r) /\ r.order \notin kept
      BY <1>3, <2>3, Decoded DEF RespondIfFound, Found
    <3>2. LifeInv' /\ Lifecycle!Accept(r.order, r.version)
      BY <1>1, <1>2, <3>1, AcceptLife
    <3> QED
      BY <1>2, <3>2 DEF Lifecycle!Next
  <2> QED
    BY <2>2, <2>3
<1>4. CASE ActionError(r)
  BY <1>3, <1>4 DEF ActionError, Handler, Refused
<1>5. CASE ActionSuccess(r)
  BY <1>2, <1>5, AcceptLife DEF ActionSuccess, HasError, Lifecycle!Next
<1>6. CASE ActionOrder(r)
  BY <1>3, <1>6 DEF ActionOrder, HasError
<1>7. CASE ActionCancel(r)
  BY <1>3, <1>7 DEF ActionCancel, HasError
<1> QED
  BY <1>1, <1>4, <1>5, <1>6, <1>7

-----------------------------------------------------------------------------
(* The connection and the environment                                      *)

LEMMA DisconnectedLife ==
  ASSUME ActionInv, LifeInv, StreamDisconnected
  PROVE  LifeInv' /\ Lifecycle!Lose
<1> DEFINE f(r) == [ r EXCEPT !.wire = IF @ = "up" THEN "lost" ELSE @ ]
<1>1. /\ requests' = { f(r) : r \in requests }
      /\ UNCHANGED << ws_api, responses, versions, kept, book >>
  BY DEF StreamDisconnected, omsVars, exchangeVars
<1>2. ASSUME NEW r \in requests
      PROVE  /\ f(r).order = r.order /\ f(r).version = r.version /\ f(r).type = r.type
             /\ f(r).verdict = r.verdict
             /\ f(r).wire = IF r.wire = "up" THEN "lost" ELSE r.wire
  BY DEF ActionInv, TypeOK, Requests
<1> HIDE DEF f
<1>3. Numbered'
  <2>1. \A s \in requests' : s.version <= versions[s.order] /\ s.type = Lifecycle!Type(s.version)
    BY <1>1, <1>2 DEF LifeInv, Numbered
  <2>2. ASSUME NEW s1 \in requests', NEW s2 \in requests',
               s1.order = s2.order, s1.version = s2.version
        PROVE  s1 = s2
    <3>1. PICK r1 \in requests, r2 \in requests : s1 = f(r1) /\ s2 = f(r2)
      BY <1>1
    <3>2. r1 = r2
      BY <1>2, <2>2, <3>1 DEF LifeInv, Numbered
    <3> QED
      BY <3>1, <3>2
  <2> QED
    BY <1>1, <2>1, <2>2 DEF Numbered, Lifecycle!Type
<1>4. Executed'
  BY <1>1, <1>2 DEF LifeInv, Executed
<1>5. Told' = Told
  BY <1>1 DEF Told
<1>6. Forgotten'
  BY <1>1, <1>5 DEF LifeInv, Forgotten, Lifecycle!Settled
<1>7. Numbers("up")' = {}
  <2>1. \A s \in requests' : s.wire # "up"
    BY <1>1, <1>2
  <2> QED
    BY <2>1, InNumbersNext
<1>8. Numbers("lost")' = Numbers("lost") \cup Numbers("up")
  <2>1. ASSUME NEW q \in Numbers("lost")' PROVE q \in Numbers("lost") \cup Numbers("up")
    <3>1. PICK r \in requests : f(r).wire = "lost" /\ q = << f(r).order, f(r).version >>
      BY <1>1, InNumbersNext
    <3> QED
      BY <1>2, <3>1, InNumbers
  <2>2. ASSUME NEW q \in Numbers("lost") \cup Numbers("up") PROVE q \in Numbers("lost")'
    <3>1. PICK r \in requests : r.wire \in { "lost", "up" } /\ q = << r.order, r.version >>
      BY InNumbers
    <3>2. f(r) \in requests' /\ f(r).wire = "lost" /\ q = << f(r).order, f(r).version >>
      BY <1>1, <1>2, <3>1
    <3> QED
      BY <3>2, InNumbersNext
  <2> QED
    BY <2>1, <2>2
<1> QED
  BY <1>1, <1>3, <1>4, <1>5, <1>6, <1>7, <1>8 DEF LifeInv, Lifecycle!Lose

LEMMA RequestStepLife ==
  ASSUME ActionInv, CreateInv, LifeInv, RequestNext
  PROVE  LifeInv' /\ (Lifecycle!Next \/ UNCHANGED Lifecycle!vars)
<1>1. ASSUME NEW o \in Orders, CreateOrder(o) \/ CancelOrder(o)
      PROVE  LifeInv' /\ Lifecycle!Next
  BY <1>1, SendLife DEF Lifecycle!Next
<1>2. CASE StreamReady
  <2>1. UNCHANGED << ws_api, requests, responses, versions, kept, book >>
    BY <1>2 DEF StreamReady, omsVars, exchangeVars
  <2>2. UNCHANGED << Numbers("up"), Numbers("lost"), Told >>
    BY <2>1 DEF Numbers, Told
  <2>3. LifeInv'
    BY <2>1, <2>2 DEF LifeInv, Numbered, Executed, Forgotten, Lifecycle!Settled, Lifecycle!Type
  <2> QED
    BY <2>1, <2>2, <2>3 DEF Lifecycle!vars
<1>3. CASE StreamDisconnected
  BY <1>3, DisconnectedLife DEF Lifecycle!Next
<1> QED
  BY <1>1, <1>2, <1>3 DEF RequestNext

(* The book moves on, for one order. *)
BookMoves(o) ==
  \/ book' = book
  \/ book[o] = "new" /\ book' = [ book EXCEPT ![o] = "open" ]
  \/ book[o] = "open" /\ book' = [ book EXCEPT ![o] = "closed" ]

(* What has been executed and settled stays so. *)
LEMMA MovesKeep ==
  ASSUME ActionInv, NEW o \in Orders, BookMoves(o), responses' = responses
  PROVE  /\ \A x \in Orders : book[x] # "new" => book'[x] # "new"
         /\ \A x \in Orders : book[x] = "closed" => book'[x] = "closed"
         /\ \A x \in Orders : Lifecycle!Settled(x) => Lifecycle!Settled(x)'
         /\ Told' = Told
<1>1. book \in [ Orders -> { "new", "open", "closed" } ]
  BY DEF ActionInv, TypeOK
<1>2. Told' = Told
  BY DEF Told
<1>3. \A x \in Orders : book[x] = "closed" => book'[x] = "closed"
  BY <1>1 DEF BookMoves
<1> QED
  BY <1>1, <1>2, <1>3 DEF BookMoves, Lifecycle!Settled

(* The exchange decides: no request changes for clients. *)
LEMMA DecideLife ==
  ASSUME ActionInv, CreateInv, LifeInv, NEW r \in requests, NEW v,
         ExchangeDecides(r, v), BookMoves(r.order),
         v = "ok" => IF r.type = "CREATE_ORDER" THEN book'[r.order] # "new"
                                                ELSE book'[r.order] = "closed"
  PROVE  LifeInv' /\ UNCHANGED << versions, Numbers("up"), Numbers("lost"), Told >>
<1> DEFINE q == [ r EXCEPT !.verdict = v ]
<1>1. /\ requests' = (requests \ {r}) \cup (IF r.wire = "done" THEN {} ELSE {q})
      /\ UNCHANGED << ws_api, responses, versions, kept >>
  BY DEF ExchangeDecides, omsVars
<1>2. /\ q.order = r.order /\ q.version = r.version /\ q.type = r.type
      /\ q.verdict = v /\ q.wire = r.wire
  BY DEF ActionInv, TypeOK, Requests
<1> HIDE DEF q
<1>3. \A s \in requests : s.order \in Orders
  BY DEF ActionInv, TypeOK, Requests
<1>4. /\ \A x \in Orders : book[x] # "new" => book'[x] # "new"
      /\ \A x \in Orders : book[x] = "closed" => book'[x] = "closed"
      /\ \A x \in Orders : Lifecycle!Settled(x) => Lifecycle!Settled(x)'
      /\ Told' = Told
  BY <1>1, <1>3, MovesKeep
<1>5. Numbered'
  <2>1. \A s \in requests' : s.version <= versions[s.order] /\ s.type = Lifecycle!Type(s.version)
    BY <1>1, <1>2 DEF LifeInv, Numbered
  <2>2. ASSUME NEW s1 \in requests', NEW s2 \in requests',
               s1.order = s2.order, s1.version = s2.version
        PROVE  s1 = s2
    BY <1>1, <1>2, <2>2 DEF LifeInv, Numbered
  <2> QED
    BY <1>1, <2>1, <2>2 DEF Numbered, Lifecycle!Type
<1>6. Executed'
  BY <1>1, <1>2, <1>3, <1>4 DEF LifeInv, Executed
<1>7. Forgotten'
  BY <1>1, <1>4 DEF LifeInv, Forgotten
<1>8. ASSUME NEW w \in { "up", "lost" } PROVE Numbers(w)' = Numbers(w)
  <2>1. \A s \in requests' : \E x \in requests :
          s.wire = x.wire /\ s.order = x.order /\ s.version = x.version
    BY <1>1, <1>2
  <2>2. \A x \in requests : x.wire = w => \E s \in requests' :
          s.wire = x.wire /\ s.order = x.order /\ s.version = x.version
    <3> SUFFICES ASSUME NEW x \in requests, x.wire = w
                 PROVE  \E s \in requests' :
                          s.wire = x.wire /\ s.order = x.order /\ s.version = x.version
      OBVIOUS
    <3>1. CASE x = r
      BY <1>1, <1>2, <3>1
    <3>2. CASE x # r
      BY <1>1, <3>2
    <3> QED
      BY <3>1, <3>2
  <2> QED
    BY <2>1, <2>2, NumbersStay
<1> QED
  BY <1>1, <1>4, <1>5, <1>6, <1>7, <1>8 DEF LifeInv

LEMMA EnvironmentStepLife ==
  ASSUME ActionInv, CreateInv, MeetInv, LifeInv, EnvironmentNext
  PROVE  LifeInv' /\ (Lifecycle!Next \/ UNCHANGED Lifecycle!vars)
<1>1. book \in [ Orders -> { "new", "open", "closed" } ]
  BY DEF ActionInv, TypeOK
<1>2. ASSUME NEW r \in requests, ExchangeCreates(r)
      PROVE  LifeInv' /\ (Lifecycle!Next \/ UNCHANGED Lifecycle!vars)
  <2>1. r.order \in Orders /\ r.type = "CREATE_ORDER"
    BY <1>2, OfRequest DEF ExchangeCreates
  <2>2. CASE ExchangeDecides(r, "ok") /\ book' = [ book EXCEPT ![r.order] = "open" ]
    <3>1. book[r.order] = "new"
      BY <2>1, <2>2 DEF ExchangeDecides, CreateInv, PendingNew
    <3>2. LifeInv' /\ UNCHANGED << versions, Numbers("up"), Numbers("lost"), Told >>
      BY <1>1, <2>1, <2>2, <3>1, DecideLife DEF BookMoves
    <3>3. versions[r.order] # 0
      BY DEF ActionInv, RequestsKnown
    <3>4. << r.order, "CREATE_ORDER", "exchange" >> \notin Told
      BY <2>1 DEF Told, CreateInv, RefusedOnce
    <3>5. Lifecycle!Opens(r.order)
      BY <2>2, <3>1, <3>2, <3>3, <3>4 DEF Lifecycle!Opens
    <3> QED
      BY <2>1, <3>2, <3>5 DEF Lifecycle!Next
  <2>3. CASE (\E v \in { "error", "general" } : ExchangeDecides(r, v)) /\ UNCHANGED exchangeVars
    <3>1. PICK v \in { "error", "general" } : ExchangeDecides(r, v) /\ book' = book
      BY <2>3 DEF exchangeVars
    <3>2. LifeInv' /\ UNCHANGED << versions, Numbers("up"), Numbers("lost"), Told >>
      BY <3>1, DecideLife DEF BookMoves
    <3> QED
      BY <3>1, <3>2 DEF Lifecycle!vars
  <2> QED
    BY <1>2, <2>2, <2>3 DEF ExchangeCreates
<1>3. ASSUME NEW r \in requests, ExchangeCancels(r)
      PROVE  LifeInv' /\ (Lifecycle!Next \/ UNCHANGED Lifecycle!vars)
  <2>1. r.order \in Orders /\ r.type # "CREATE_ORDER"
    BY <1>3, OfRequest DEF ExchangeCancels
  <2>2. CASE /\ book[r.order] = "open" /\ ExchangeDecides(r, "ok")
             /\ book' = [ book EXCEPT ![r.order] = "closed" ]
    <3>1. LifeInv' /\ UNCHANGED << versions, Numbers("up"), Numbers("lost"), Told >>
      BY <1>1, <2>1, <2>2, DecideLife DEF BookMoves
    <3>2. Lifecycle!Closes(r.order)
      BY <2>2, <3>1 DEF Lifecycle!Closes
    <3> QED
      BY <2>1, <3>1, <3>2 DEF Lifecycle!Next
  <2>3. CASE (\E v \in { "error", "general" } : ExchangeDecides(r, v)) /\ book' = book
    <3>1. PICK v \in { "error", "general" } : ExchangeDecides(r, v)
      BY <2>3
    <3>2. LifeInv' /\ UNCHANGED << versions, Numbers("up"), Numbers("lost"), Told >>
      BY <2>3, <3>1, DecideLife DEF BookMoves
    <3> QED
      BY <2>3, <3>2 DEF Lifecycle!vars
  <2>4. Named(r.name) \subseteq { r.order }
    BY <1>3, NamedByRequest DEF ExchangeCancels
  <2> QED
    BY <1>3, <2>2, <2>3, <2>4 DEF ExchangeCancels, Closed, exchangeVars
<1>4. ASSUME NEW o \in Orders, ExchangeCloses(o) \/ OrderUpdate(o) \/ OmsForgets(o)
      PROVE  LifeInv' /\ (Lifecycle!Next \/ UNCHANGED Lifecycle!vars)
  <2>1. /\ UNCHANGED << ws_api, requests, responses, versions >>
        /\ kept' \subseteq kept
        /\ \/ kept' = kept
           \/ kept' = kept \ {o} /\ Complete(o) /\ book' = book
        /\ \/ book' = book
           \/ book[o] = "open" /\ book' = [ book EXCEPT ![o] = "closed" ]
    BY <1>4 DEF ExchangeCloses, OrderUpdate, OmsForgets, Closed, streamVars, omsVars,
       exchangeVars
  <2>2. UNCHANGED << Numbers("up"), Numbers("lost"), Told >>
    BY <2>1 DEF Numbers, Told
  <2>3. BookMoves(o)
    BY <2>1 DEF BookMoves
  <2>4. /\ \A x \in Orders : book[x] # "new" => book'[x] # "new"
        /\ \A x \in Orders : book[x] = "closed" => book'[x] = "closed"
        /\ \A x \in Orders : Lifecycle!Settled(x) => Lifecycle!Settled(x)'
    BY <2>1, <2>3, MovesKeep
  <2>5. Numbered' /\ Executed'
    <3>1. \A s \in requests : s.order \in Orders
      BY DEF ActionInv, TypeOK, Requests
    <3> QED
      BY <2>1, <2>4, <3>1 DEF LifeInv, Numbered, Executed, Lifecycle!Type
  <2>6. Forgotten'
    <3>1. ws_api /\ Complete(o) => Lifecycle!Settled(o)
      BY DEF Complete, Lifecycle!Settled, Told, LifeInv, Forgotten
    <3>2. ws_api => \A x \in Orders :
                      versions[x] # 0 /\ x \notin kept' => Lifecycle!Settled(x)'
      BY <2>1, <2>4, <3>1 DEF LifeInv, Forgotten
    <3> QED
      BY <2>1, <3>2 DEF LifeInv, Forgotten
  <2> QED
    BY <2>1, <2>2, <2>5, <2>6 DEF LifeInv, Lifecycle!vars, Lifecycle!Next, Lifecycle!Closes
<1> QED
  BY <1>2, <1>3, <1>4 DEF EnvironmentNext

LEMMA StutterLife ==
  ASSUME LifeInv, UNCHANGED vars
  PROVE  LifeInv' /\ UNCHANGED Lifecycle!vars
<1>1. UNCHANGED << ws_api, requests, responses, versions, kept, book >>
  BY DEF vars, streamVars, omsVars, exchangeVars
<1>2. UNCHANGED << Numbers("up"), Numbers("lost"), Told >>
  BY <1>1 DEF Numbers, Told
<1> QED
  BY <1>1, <1>2 DEF LifeInv, Numbered, Executed, Forgotten, Lifecycle!Settled,
     Lifecycle!Type, Lifecycle!vars

-----------------------------------------------------------------------------
(* Over either transport, with request ids, parsers, lost connections and  *)
(* an OMS that forgets, every step is one of OrderLifecycle or none: every *)
(* request is answered once, fails or is lost, refusals are told of the    *)
(* right order, and silence means that nothing is left to do.              *)
THEOREM Implements == Spec => ImplementsLifecycle
<1>1. ActionInv /\ CreateInv /\ MeetInv /\ LifeInv /\ [Next]_vars =>
        LifeInv' /\ [Lifecycle!Next]_(Lifecycle!vars)
  BY RequestStepLife, RestStepLife, WebSocketStepLife, EnvironmentStepLife, StutterLife
     DEF Next
<1> QED
  BY InitLife, <1>1, ActionsInvariant, CreateInvariant, MeetInvariant, PTL
     DEF Spec, ImplementsLifecycle, Lifecycle!Spec

=============================================================================
