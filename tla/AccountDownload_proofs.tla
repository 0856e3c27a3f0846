----------------------- MODULE AccountDownload_proofs -----------------------
(***************************************************************************)
(* Proofs about AccountDownload, for every set of orders, every number of  *)
(* dex and any number of lost connections.                                 *)
(***************************************************************************)
EXTENDS AccountDownload, FiniteSetTheorems, TLAPS

-----------------------------------------------------------------------------
(* The download                                                            *)

(* The values of the two tables. *)
LEMMA FollowingTable ==
  /\ Following("SUBSCRIBE_NOTIFICATION") = "SUBSCRIBE_USER_FUNDINGS"
  /\ Following("SUBSCRIBE_USER_FUNDINGS") = "GET_SPOT_CLEARING_HOUSE_STATE"
  /\ Following("GET_SPOT_CLEARING_HOUSE_STATE") = "GET_CLEARING_HOUSE_STATE"
  /\ Following("GET_CLEARING_HOUSE_STATE") = "SUBSCRIBE_ORDER_UPDATES"
  /\ Following("SUBSCRIBE_ORDER_UPDATES") = "GET_OPEN_ORDERS"
  /\ Following("GET_OPEN_ORDERS") = "GET_STALE_ORDERS"
  /\ Following("GET_STALE_ORDERS") = "SUBSCRIBE_USER_FILLS"
  /\ Following("SUBSCRIBE_USER_FILLS") = "GET_USER_FILLS"
  /\ Following("GET_USER_FILLS") = "SUBSCRIBE_USER_EVENTS"
  /\ Following("SUBSCRIBE_USER_EVENTS") = "DONE"
  /\ Following("DONE") = "DONE"
  /\ Following("UNDEFINED") = "DONE"
BY Zenon DEF Following

LEMMA KindOfTable ==
  /\ KindOf["GET_SPOT_CLEARING_HOUSE_STATE"] = "spot_clearing_house_state"
  /\ KindOf["GET_CLEARING_HOUSE_STATE"] = "clearing_house_state"
  /\ KindOf["GET_OPEN_ORDERS"] = "open_orders"
  /\ KindOf["GET_STALE_ORDERS"] = "stale_orders"
  /\ KindOf["GET_USER_FILLS"] = "trades"
BY Zenon DEF KindOf, GetStates

LEMMA NextStateType ==
  ASSUME NEW s \in States, NEW details
  PROVE  NextState(s, details) \in States \ { "UNDEFINED" }
BY FollowingTable DEF NextState, Skips, States, SubscribeStates, GetStates

LEMMA KindOfType ==
  ASSUME NEW s \in GetStates
  PROVE  /\ KindOf[s] \in Kinds
         /\ (KindOf[s] = "stale_orders") <=> (s = "GET_STALE_ORDERS")
BY KindOfTable DEF GetStates, Kinds

(* Only the answer to the open orders leads to GET_STALE_ORDERS, and only  *)
(* with orders to ask about.                                               *)
LEMMA StaleOrdersFollow ==
  ASSUME NEW s \in States, NEW details
  PROVE  (NextState(s, details) = "GET_STALE_ORDERS")
           <=> (s = "GET_OPEN_ORDERS" /\ details # {})
BY FollowingTable DEF NextState, Skips, States, SubscribeStates, GetStates

(* What Enter does to the mailboxes. *)
LEMMA EnterRequests ==
  ASSUME req \in [ Kinds -> Mailbox ], NEW s \in States, NEW told, Enter(s, told)
  PROVE  /\ req' \in [ Kinds -> Mailbox ]
         /\ \A k \in Kinds :
              \/ req'[k] = req[k]
              \/ /\ s \in GetStates /\ k = KindOf[s]
                 /\ req'[k] = Requested(req[k])
         /\ s = "GET_STALE_ORDERS" =>
              req'["stale_orders"] = Requested(req["stale_orders"])
         /\ s # "GET_STALE_ORDERS" => req'["stale_orders"] = req["stale_orders"]
<1>1. CASE s \in GetStates
  <2>1. /\ req' = [ req EXCEPT ![KindOf[s]] = Requested(@) ]
        /\ KindOf[s] \in Kinds
        /\ (KindOf[s] = "stale_orders") <=> (s = "GET_STALE_ORDERS")
    BY <1>1, KindOfType DEF Enter
  <2>2. Requested(req[KindOf[s]]) \in Mailbox
    BY <2>1 DEF Requested, Mailbox
  <2>3. "stale_orders" \in Kinds
    BY DEF Kinds
  <2> QED
    BY <1>1, <2>1, <2>2, <2>3
<1>2. CASE s \notin GetStates
  BY <1>2 DEF Enter, GetStates
<1> QED
  BY <1>1, <1>2

Statuses == { "DOWNLOADING", "READY" }

LEMMA AnnounceType ==
  ASSUME NEW told \in Seq(Statuses), NEW s \in Statuses
  PROVE  Announce(told, s) \in Seq(Statuses)
BY DEF Announce

(* What Enter does to the rest of DropCopy. *)
LEMMA EnterType ==
  ASSUME subs \subseteq SubscribeStates, NEW s \in States,
         NEW told \in Seq(Statuses), Enter(s, told)
  PROVE  /\ status' \in Statuses
         /\ state' = s /\ state' \in States
         /\ announced' \in Seq(Statuses)
         /\ subs' \subseteq SubscribeStates
<1>1. status' \in Statuses
  BY DEF Enter, Statuses
<1>2. announced' \in Seq(Statuses)
  BY <1>1, AnnounceType DEF Enter
<1> QED
  BY <1>1, <1>2 DEF Enter

-----------------------------------------------------------------------------
(* Types                                                                   *)

LEMMA NewValues ==
  /\ NewMailbox \in Mailbox
  /\ NoSnapshot \in Snapshots
BY DEF NewMailbox, Mailbox, NoSnapshot, Snapshots

LEMMA InitType == Init => TypeOK
<1> SUFFICES ASSUME Init
             PROVE  TypeOK
  OBVIOUS
<1>1. /\ chain \in [ ChainKinds -> Nat ]
      /\ \A k \in ChainKinds : chain[k] <= LastIndex(k)
  <2>1. \A k \in ChainKinds : LastIndex(k) \in Nat
    BY DexAssumption DEF Init, LastIndex
  <2>2. chain = [ k \in ChainKinds |-> 0 ]
    BY DEF Init
  <2>3. \A k \in ChainKinds : chain[k] = 0
    BY <2>2
  <2> QED
    BY <2>1, <2>2, <2>3
<1>2. req \in [ Kinds -> Mailbox ] /\ snapshot \in Snapshots
  BY NewValues DEF Init
<1>3. asking \in [ Orders -> { "no", "sent", "open", "closed" } ]
  BY DEF Init
<1>4. /\ state \in States /\ drops \in 0..MaxDrops /\ dexes \in 0..MaxDex
      /\ announced \in Seq({ "DOWNLOADING", "READY" })
  BY DropsAssumption, DexAssumption DEF Init, States
<1>5. /\ subs \subseteq SubscribeStates /\ acks \subseteq SubscribeStates
      /\ feed \subseteq Orders \X { "open", "closed" }
      /\ details_stale_orders \subseteq Orders /\ askedEarly \subseteq Orders
      /\ open \subseteq Orders /\ known \subseteq Orders
      /\ working \subseteq known
      /\ stale \subseteq working /\ early \subseteq working
      /\ suspects \subseteq Orders
  BY DEF Init
<1> QED
  BY <1>1, <1>2, <1>3, <1>4, <1>5 DEF Init, TypeOK

(* What a confirmation does to the sets of the OMS. *)
LEMMA ConfirmedType ==
  ASSUME known \subseteq Orders, working \subseteq known,
         stale \subseteq working, early \subseteq working,
         NEW os, NEW isOpen, NEW isEarly,
         Confirmed(os, isOpen, isEarly)
  PROVE  /\ known' \subseteq Orders /\ working' \subseteq known'
         /\ stale' \subseteq working' /\ early' \subseteq working'
BY DEF Confirmed

LEMMA DropCopyType ==
  ASSUME TypeOK, DropCopyNext
  PROVE  TypeOK'
<1>1. CASE DropCopyReady
  <2>1. "SUBSCRIBE_NOTIFICATION" \in States
    BY DEF States, SubscribeStates
  <2>2. Enter("SUBSCRIBE_NOTIFICATION", Announce(announced, "READY"))
    BY <1>1 DEF DropCopyReady
  <2>3. req' \in [ Kinds -> Mailbox ]
    BY <2>1, <2>2, EnterRequests DEF TypeOK
  <2>4. /\ status' \in { "DISCONNECTED", "DOWNLOADING", "READY" }
        /\ state' \in States /\ subs' \subseteq SubscribeStates
        /\ announced' \in Seq(Statuses)
    <3>1. Announce(announced, "READY") \in Seq(Statuses)
      BY AnnounceType DEF TypeOK, Statuses
    <3> QED
      BY <2>1, <2>2, <3>1, EnterType DEF TypeOK, Statuses
  <2> QED
    BY <1>1, <2>3, <2>4
       DEF DropCopyReady, TypeOK, LastIndex, Statuses, shVars, oeVars, omsVars
<1>2. CASE DropCopyDisconnected
  <2>1. snapshot' \in Snapshots
    BY <1>2 DEF DropCopyDisconnected, TypeOK, Snapshots
  <2>2. drops' \in 0..MaxDrops
    BY <1>2, DropsAssumption DEF DropCopyDisconnected, TypeOK
  <2>3. /\ askedEarly' \subseteq Orders /\ state' \in States
        /\ announced' \in Seq({ "DOWNLOADING", "READY" })
    BY <1>2 DEF DropCopyDisconnected, States
  <2> QED
    BY <1>2, <2>1, <2>2, <2>3
       DEF DropCopyDisconnected, TypeOK, LastIndex, Statuses, shVars, reqVars
<1>3. ASSUME NEW s \in SubscribeStates, SubscriptionResponse(s)
      PROVE  TypeOK'
  <2>1. NextState(s, details_stale_orders) \in States
    BY NextStateType DEF States
  <2>2. Enter(NextState(s, details_stale_orders), announced)
    BY <1>3 DEF SubscriptionResponse
  <2>3. req' \in [ Kinds -> Mailbox ]
    BY <2>1, <2>2, EnterRequests DEF TypeOK
  <2>4. /\ status' \in { "DISCONNECTED", "DOWNLOADING", "READY" }
        /\ state' \in States /\ subs' \subseteq SubscribeStates
        /\ announced' \in Seq(Statuses)
    BY <2>1, <2>2, EnterType DEF TypeOK, Statuses
  <2> QED
    BY <1>3, <2>3, <2>4
       DEF SubscriptionResponse, TypeOK, LastIndex, Statuses, shVars, oeVars,
           omsVars
<1>4. ASSUME NEW o \in Orders, NEW what \in { "open", "closed" },
             OrderUpdates(o, what)
      PROVE  TypeOK'
  <2>1. /\ known' \subseteq Orders /\ working' \subseteq known'
        /\ stale' \subseteq working' /\ early' \subseteq working'
    BY <1>4, ConfirmedType DEF OrderUpdates, TypeOK
  <2> QED
    BY <1>4, <2>1
       DEF OrderUpdates, TypeOK, LastIndex, shVars, dcVars, reqVars, oeVars
<1>5. CASE DropCopyCheckStaleOrders
  <2>1. req' \in [ Kinds -> Mailbox ]
    BY <1>5 DEF DropCopyCheckStaleOrders, PeriodicRequest, Requested, TypeOK,
                Mailbox
  <2> QED
    BY <1>5, <2>1
       DEF DropCopyCheckStaleOrders, NewlyStale, TypeOK, LastIndex, shVars,
           dcVars, wsVars, oeVars, omsVars
<1>6. CASE DropCopyCheckRequestQueue
  <2> DEFINE s == NextState(state, QueueOnResponse(state))
  <2>1. s \in States
    BY NextStateType DEF TypeOK
  <2>2. Enter(s, announced)
    BY <1>6 DEF DropCopyCheckRequestQueue
  <2>3. req' \in [ Kinds -> Mailbox ]
    BY <2>1, <2>2, EnterRequests DEF TypeOK
  <2>4. /\ status' \in { "DISCONNECTED", "DOWNLOADING", "READY" }
        /\ state' \in States /\ subs' \subseteq SubscribeStates
        /\ announced' \in Seq(Statuses)
    BY <2>1, <2>2, EnterType DEF TypeOK, Statuses
  <2>5. details_stale_orders' \subseteq Orders
    BY <1>6 DEF DropCopyCheckRequestQueue, QueueOnResponse, NewlyStale, TypeOK
  <2> QED
    BY <1>6, <2>3, <2>4, <2>5
       DEF DropCopyCheckRequestQueue, TypeOK, LastIndex, Statuses, shVars,
           oeVars,
           omsVars
<1> QED
  BY <1>1, <1>2, <1>3, <1>4, <1>5, <1>6 DEF DropCopyNext, DropCopyTimer

LEMMA OrderEntryType ==
  ASSUME TypeOK, OrderEntryNext
  PROVE  TypeOK'
<1>1. CASE OrderEntryConnected
  BY <1>1
     DEF OrderEntryConnected, TypeOK, LastIndex, shVars, dcVars, wsVars,
         reqVars, omsVars
<1>2. CASE OrderEntryDisconnected
  BY <1>2, DropsAssumption
     DEF OrderEntryDisconnected, TypeOK, LastIndex, shVars, dcVars, wsVars,
         reqVars, omsVars
<1>3. ASSUME NEW kind \in ChainKinds, SendChain(kind)
      PROVE  TypeOK'
  <2>1. req' \in [ Kinds -> Mailbox ]
    BY <1>3 DEF SendChain, HandedOut, TypeOK, Mailbox
  <2>2. /\ chain' \in [ ChainKinds -> Nat ]
        /\ \A k \in ChainKinds : chain'[k] <= LastIndex(k)
    BY <1>3, DexAssumption DEF SendChain, IndexesNoDex, TypeOK, LastIndex
  <2> QED
    BY <1>3, <2>1, <2>2
       DEF SendChain, TypeOK, LastIndex, shVars, dcVars, wsVars, omsVars
<1>4. CASE SendOrderStatus
  <2>1. req' \in [ Kinds -> Mailbox ]
    BY <1>4 DEF SendOrderStatus, HandedOut, TypeOK, Mailbox
  <2>2. FoundOrders \subseteq Orders
    BY DEF FoundOrders, TypeOK
  <2>3. download_stale_orders_counter' \in Nat
    <3>1. Cardinality(FoundOrders) \in Nat
      BY <2>2, OrdersAssumption, FS_Subset, FS_CardinalityType
    <3> QED
      BY <1>4, <3>1 DEF SendOrderStatus, TypeOK
  <2>4. asking' \in [ Orders -> { "no", "sent", "open", "closed" } ]
    BY <1>4 DEF SendOrderStatus, TypeOK
  <2>5. suspects' \subseteq Orders
    BY <1>4 DEF SendOrderStatus, TypeOK
  <2>6. details_stale_orders' \subseteq Orders
    BY <1>4 DEF SendOrderStatus, QueueAfterSend, TypeOK
  <2>7. blocked' \in BOOLEAN
    BY <1>4 DEF SendOrderStatus, TypeOK
  <2> QED
    BY <1>4, <2>1, <2>3, <2>4, <2>5, <2>6, <2>7
       DEF SendOrderStatus, TypeOK, LastIndex, shVars, dcVars, wsVars, omsVars
<1>5. ASSUME NEW kind \in ChainKinds, NEW ok \in BOOLEAN, ChainAck(kind, ok)
      PROVE  TypeOK'
  <2>1. req' \in [ Kinds -> Mailbox ]
    <3>1. kind \in Kinds /\ Committed(req[kind]) \in Mailbox
      BY DEF ChainKinds, Committed, TypeOK, Mailbox
    <3> QED
      BY <1>5, <3>1 DEF ChainAck, TypeOK
  <2>2. /\ chain' \in [ ChainKinds -> Nat ]
        /\ \A k \in ChainKinds : chain'[k] <= LastIndex(k)
    BY <1>5, DexAssumption DEF ChainAck, Finished, TypeOK, LastIndex
  <2>3. /\ known' \subseteq Orders /\ working' \subseteq known'
        /\ stale' \subseteq working' /\ early' \subseteq working'
    BY <1>5, ConfirmedType DEF ChainAck, TypeOK, omsVars
  <2>4. snapshot' \in Snapshots
    BY <1>5, NewValues DEF ChainAck, TypeOK
  <2>5. suspects' \subseteq Orders
    BY <1>5 DEF ChainAck, TypeOK
  <2> QED
    BY <1>5, <2>1, <2>2, <2>3, <2>4, <2>5
       DEF ChainAck, TypeOK, LastIndex, shVars, dcVars, wsVars
<1>6. ASSUME NEW o \in Orders, NEW ok \in BOOLEAN, OrderStatusAck(o, ok)
      PROVE  TypeOK'
  <2>1. download_stale_orders_counter' \in Nat
    BY <1>6 DEF OrderStatusAck, UnexpectedOrderStatusAck, Outstanding, TypeOK
  <2>2. req' \in [ Kinds -> Mailbox ]
    BY <1>6 DEF OrderStatusAck, StaleCommitted, Committed, TypeOK, Mailbox
  <2>3. /\ known' \subseteq Orders /\ working' \subseteq known'
        /\ stale' \subseteq working' /\ early' \subseteq working'
    BY <1>6, ConfirmedType DEF OrderStatusAck, TypeOK, omsVars
  <2>4. /\ asking' \in [ Orders -> { "no", "sent", "open", "closed" } ]
        /\ askedEarly' \subseteq Orders /\ suspects' \subseteq Orders
    BY <1>6 DEF OrderStatusAck, TypeOK
  <2> QED
    BY <1>6, <2>1, <2>2, <2>3, <2>4
       DEF OrderStatusAck, TypeOK, LastIndex, shVars, dcVars, wsVars
<1>7. ASSUME NEW kind \in ChainKinds, ChainIndexesNoDex(kind)
      PROVE  TypeOK'
  BY <1>7 DEF ChainIndexesNoDex, TypeOK, LastIndex, dcVars, wsVars, reqVars,
              oeVars, omsVars
<1> QED
  BY <1>1, <1>2, <1>3, <1>4, <1>5, <1>6, <1>7
     DEF OrderEntryNext, OrderEntryTimer

LEMMA EnvironmentType ==
  ASSUME TypeOK, EnvironmentNext
  PROVE  TypeOK'
<1>1. ASSUME NEW s \in SubscribeStates, ExchangeSubscribes(s)
      PROVE  TypeOK'
  BY <1>1
     DEF ExchangeSubscribes, TypeOK, LastIndex, shVars, dcVars, reqVars, oeVars,
         omsVars
<1>2. CASE ExchangeAnswersOpenOrders
  <2>1. snapshot' \in Snapshots
    BY <1>2 DEF ExchangeAnswersOpenOrders, TypeOK, Snapshots
  <2> QED
    BY <1>2, <2>1
       DEF ExchangeAnswersOpenOrders, TypeOK, LastIndex, shVars, dcVars, wsVars,
           reqVars, omsVars
<1>3. ASSUME NEW o \in Orders, ExchangeCloses(o)
      PROVE  TypeOK'
  BY <1>3
     DEF ExchangeCloses, TypeOK, LastIndex, shVars, dcVars, reqVars, oeVars,
         omsVars
<1>4. ASSUME NEW o \in Orders, ExchangeUpdates(o)
      PROVE  TypeOK'
  BY <1>4
     DEF ExchangeUpdates, TypeOK, LastIndex, shVars, dcVars, reqVars, oeVars,
         omsVars
<1>5. ASSUME NEW o \in Orders, ExchangeAnswersOrderStatus(o)
      PROVE  TypeOK'
  BY <1>5
     DEF ExchangeAnswersOrderStatus, TypeOK, LastIndex, shVars, dcVars, wsVars,
         reqVars, omsVars
<1>6. ASSUME NEW o \in Orders, OmsSuspects(o)
      PROVE  TypeOK'
  BY <1>6
     DEF OmsSuspects, TypeOK, LastIndex, shVars, dcVars, wsVars, reqVars, oeVars
<1>7. ASSUME NEW s \in SubscribeStates, ExchangeRefuses(s)
      PROVE  TypeOK'
  BY <1>7
     DEF ExchangeRefuses, TypeOK, LastIndex, shVars, dcVars, reqVars, oeVars,
         omsVars
<1>8. ASSUME NEW o \in Orders, OmsForgets(o)
      PROVE  TypeOK'
  BY <1>8 DEF OmsForgets, TypeOK, LastIndex, dcVars, wsVars, reqVars, shVars,
              oeVars
<1>9. CASE RestListsDexes
  <2>1. dexes' \in 0..MaxDex /\ dexes' > dexes
    BY <1>9, DexAssumption DEF RestListsDexes, TypeOK
  <2>2. \A k \in ChainKinds : chain'[k] <= LastIndex(k)'
    BY <1>9, <2>1, DexAssumption DEF RestListsDexes, TypeOK, LastIndex, oeVars
  <2> QED
    BY <1>9, <2>1, <2>2 DEF RestListsDexes, TypeOK, dcVars, wsVars, reqVars,
                            oeVars, omsVars
<1> QED
  BY <1>1, <1>2, <1>3, <1>4, <1>5, <1>6, <1>7, <1>8, <1>9 DEF EnvironmentNext

LEMMA StepType == TypeOK /\ [Next]_vars => TypeOK'
<1> SUFFICES ASSUME TypeOK, [Next]_vars
             PROVE  TypeOK'
  OBVIOUS
<1>1. CASE UNCHANGED vars
  BY <1>1 DEF vars, dcVars, wsVars, reqVars, shVars, oeVars, omsVars, TypeOK,
              LastIndex
<1> QED
  BY <1>1, DropCopyType, OrderEntryType, EnvironmentType DEF Next, Running

(* Types and ranges: every variable stays within its type; a chain of      *)
(* requests asks for no dex beyond those listed, whenever the list grows,  *)
(* as one that would begin with an empty list ends the program instead.    *)
THEOREM TypeCorrect == Spec => []TypeOK
BY InitType, StepType, PTL DEF Spec

-----------------------------------------------------------------------------
(* The inductive invariant, in its parts                                   *)

(* The first half of QueueMatchesRequest. *)
QueuedIffPending ==
  (details_stale_orders # {}) <=> req["stale_orders"].pending

(* A request forgets the last answer, and an answer to an earlier hand-out *)
(* is none to a request that waits.                                        *)
AnswersNotPending == \A k \in Kinds : ~(req[k].pending /\ req[k].responded)

(* The counter counts the requests it has been told of; while there are    *)
(* any their mailbox is on the wire, and it stays there if there were none *)
(* when it was handed out.                                                 *)
CountMatches ==
  /\ download_stale_orders_counter = Cardinality(Outstanding)
  /\ req["stale_orders"].inflight <=> (Outstanding # {} \/ blocked)
  /\ blocked => Outstanding = {}

(* What clients have been told is a matter of the state of the download. *)
Told(s) ==
  CASE s = "UNDEFINED" -> << >>
    [] s = "DONE"      -> << "READY", "DOWNLOADING", "READY" >>
    [] OTHER           -> << "READY", "DOWNLOADING" >>

AnnouncedFollows == announced = Told(state)

(* The states after the status of the stale orders has been asked for. *)
LateStates ==
  { "SUBSCRIBE_USER_FILLS", "GET_USER_FILLS", "SUBSCRIBE_USER_EVENTS", "DONE" }

(* What was not trusted when the open orders were used is stale until it   *)
(* is confirmed, is queued in GET_STALE_ORDERS, and is dealt with after.   *)
SuspectsFollowed ==
  /\ suspects \subseteq stale
  /\ state = "GET_STALE_ORDERS" => suspects \subseteq details_stale_orders
  /\ state \in LateStates => suspects = {}

(* It would be right to believe o open. *)
Believable(o) == o \in working => o \in open \/ << o, "closed" >> \in feed

(* Whatever may make an order trusted is believable, and as long as there  *)
(* is any such thing the feed is active, so that a closing is not missed.  *)
TrustFounded ==
  /\ state \notin EarlyStates => live
  /\ "SUBSCRIBE_ORDER_UPDATES" \in acks => live
  /\ feed # {} => live
  /\ ~snapshot.taken => snapshot.orders = {}
  /\ \A o \in Orders :
       /\ o \in working \ (stale \cup early) => live /\ Believable(o)
       /\ << o, "open" >> \in feed => Believable(o)
       /\ o \in snapshot.orders /\ ~snapshot.early => live /\ Believable(o)
       /\ asking[o] = "open" /\ o \notin askedEarly => live /\ Believable(o)

Inv ==
  /\ TypeOK
  /\ QueuedIffPending
  /\ AnswersNotPending
  /\ CountMatches
  /\ AnnouncedFollows
  /\ SuspectsFollowed
  /\ TrustFounded

-----------------------------------------------------------------------------
(* The queue and its mailbox                                               *)

(* A commit answers only what does not wait, and leaves pending alone. *)
LEMMA CommitKeeps ==
  ASSUME req \in [ Kinds -> Mailbox ], AnswersNotPending, NEW kind \in Kinds,
         req' = req \/ req' = [ req EXCEPT ![kind] = Committed(@) ]
  PROVE  /\ AnswersNotPending'
         /\ \A k \in Kinds : req'[k].pending = req[k].pending
<1>1. CASE req' = req
  BY <1>1 DEF AnswersNotPending
<1>2. CASE req' = [ req EXCEPT ![kind] = Committed(@) ]
  <2>1. /\ req'[kind] = Committed(req[kind])
        /\ \A k \in Kinds \ {kind} : req'[k] = req[k]
    BY <1>2
  <2>2. /\ Committed(req[kind]).pending = req[kind].pending
        /\ Committed(req[kind]).responded = ~req[kind].pending
    BY DEF Committed
  <2>3. req[kind].pending \in BOOLEAN
    BY DEF Mailbox
  <2> QED
    BY <2>1, <2>2, <2>3 DEF AnswersNotPending
<1> QED
  BY <1>1, <1>2

(* Entering a state other than GET_STALE_ORDERS asks nothing of the queue. *)
LEMMA EnterKeepsQueue ==
  ASSUME TypeOK, QueuedIffPending, AnswersNotPending,
         NEW s \in States, NEW told, Enter(s, told),
         (s = "GET_STALE_ORDERS") => (details_stale_orders' # {}),
         (s # "GET_STALE_ORDERS") => (details_stale_orders' = details_stale_orders)
  PROVE  QueuedIffPending' /\ AnswersNotPending'
<1>1. /\ \A k \in Kinds : req'[k] = req[k] \/ req'[k] = Requested(req[k])
      /\ s = "GET_STALE_ORDERS" =>
           req'["stale_orders"] = Requested(req["stale_orders"])
      /\ s # "GET_STALE_ORDERS" => req'["stale_orders"] = req["stale_orders"]
  BY EnterRequests DEF TypeOK
<1>2. QueuedIffPending'
  BY <1>1 DEF QueuedIffPending, Requested
<1>3. ASSUME NEW k \in Kinds
      PROVE  ~(req'[k].pending /\ req'[k].responded)
  <2>1. CASE req'[k] = req[k]
    BY <2>1 DEF AnswersNotPending
  <2>2. CASE req'[k] = Requested(req[k])
    BY <2>2 DEF Requested
  <2> QED
    BY <1>1, <2>1, <2>2
<1> QED
  BY <1>2, <1>3 DEF AnswersNotPending

LEMMA DropCopyQueue ==
  ASSUME TypeOK, QueuedIffPending, AnswersNotPending, DropCopyNext
  PROVE  QueuedIffPending' /\ AnswersNotPending'
<1>1. CASE DropCopyReady
  <2>1. /\ Enter("SUBSCRIBE_NOTIFICATION", Announce(announced, "READY"))
        /\ details_stale_orders' = details_stale_orders
        /\ "SUBSCRIBE_NOTIFICATION" \in States
    BY <1>1 DEF DropCopyReady, States, SubscribeStates
  <2> QED
    BY <2>1, EnterKeepsQueue
<1>2. CASE DropCopyDisconnected
  BY <1>2 DEF DropCopyDisconnected, reqVars, QueuedIffPending, AnswersNotPending
<1>3. ASSUME NEW s \in SubscribeStates, SubscriptionResponse(s)
      PROVE  QueuedIffPending' /\ AnswersNotPending'
  <2> DEFINE n == NextState(s, details_stale_orders)
  <2>1. s \in States /\ s # "GET_OPEN_ORDERS"
    BY DEF States, SubscribeStates
  <2>2. n \in States /\ n # "GET_STALE_ORDERS"
    BY <2>1, NextStateType, StaleOrdersFollow
  <2>3. Enter(n, announced) /\ details_stale_orders' = details_stale_orders
    BY <1>3 DEF SubscriptionResponse
  <2> QED
    BY <2>2, <2>3, EnterKeepsQueue
<1>4. ASSUME NEW o \in Orders, NEW what \in { "open", "closed" },
             OrderUpdates(o, what)
      PROVE  QueuedIffPending' /\ AnswersNotPending'
  BY <1>4 DEF OrderUpdates, reqVars, QueuedIffPending, AnswersNotPending
<1>5. CASE DropCopyCheckStaleOrders
  <2>1. \A k \in Kinds \ { "stale_orders" } : req'[k] = req[k]
    BY <1>5 DEF DropCopyCheckStaleOrders, PeriodicRequest, TypeOK
  <2>2. CASE NewlyStale = {}
    BY <1>5, <2>2 DEF DropCopyCheckStaleOrders, PeriodicRequest,
                      QueuedIffPending, AnswersNotPending
  <2>3. CASE NewlyStale # {}
    <3>1. /\ req'["stale_orders"] = Requested(req["stale_orders"])
          /\ details_stale_orders' # {}
      BY <1>5, <2>3 DEF DropCopyCheckStaleOrders, PeriodicRequest, TypeOK, Kinds
    <3> QED
      BY <2>1, <3>1 DEF QueuedIffPending, AnswersNotPending, Requested
  <2> QED
    BY <2>2, <2>3
<1>6. CASE DropCopyCheckRequestQueue
  <2> DEFINE q == QueueOnResponse(state)
             n == NextState(state, q)
  <2>1. n \in States /\ (n = "GET_STALE_ORDERS" <=> state = "GET_OPEN_ORDERS" /\ q # {})
    BY NextStateType, StaleOrdersFollow DEF TypeOK
  <2>2. Enter(n, announced) /\ details_stale_orders' = q
    BY <1>6 DEF DropCopyCheckRequestQueue
  <2>3. n # "GET_STALE_ORDERS" => q = details_stale_orders
    BY <2>1 DEF QueueOnResponse
  <2> QED
    BY <2>1, <2>2, <2>3, EnterKeepsQueue
<1> QED
  BY <1>1, <1>2, <1>3, <1>4, <1>5, <1>6 DEF DropCopyNext, DropCopyTimer

LEMMA OrderEntryQueue ==
  ASSUME TypeOK, QueuedIffPending, AnswersNotPending, OrderEntryNext
  PROVE  QueuedIffPending' /\ AnswersNotPending'
<1> USE DEF QueuedIffPending, AnswersNotPending
<1>1. CASE \/ OrderEntryConnected \/ OrderEntryDisconnected
           \/ \E kind \in ChainKinds : ChainIndexesNoDex(kind)
  BY <1>1
     DEF OrderEntryConnected, OrderEntryDisconnected, ChainIndexesNoDex, reqVars
<1>2. ASSUME NEW kind \in ChainKinds, SendChain(kind)
      PROVE  QueuedIffPending' /\ AnswersNotPending'
  <2>1. /\ kind \in Kinds /\ kind # "stale_orders"
        /\ req' = [ req EXCEPT ![kind] = HandedOut(@) ]
        /\ details_stale_orders' = details_stale_orders
    BY <1>2 DEF SendChain, ChainKinds
  <2> QED
    BY <2>1 DEF HandedOut, TypeOK
<1>3. CASE SendOrderStatus
  <2>1. /\ req' = [ req EXCEPT !["stale_orders"] = HandedOut(@) ]
        /\ details_stale_orders' = {}
        /\ "stale_orders" \in Kinds
    BY <1>3 DEF SendOrderStatus, QueueAfterSend, Kinds
  <2> QED
    BY <2>1 DEF HandedOut, TypeOK
<1>4. ASSUME NEW kind \in ChainKinds, NEW ok \in BOOLEAN, ChainAck(kind, ok)
      PROVE  QueuedIffPending' /\ AnswersNotPending'
  <2>1. /\ kind \in Kinds /\ kind # "stale_orders"
        /\ req' = req \/ req' = [ req EXCEPT ![kind] = Committed(@) ]
        /\ details_stale_orders' = details_stale_orders
    BY <1>4 DEF ChainAck, ChainKinds
  <2> QED
    BY <2>1, CommitKeeps DEF TypeOK, Kinds
<1>5. ASSUME NEW o \in Orders, NEW ok \in BOOLEAN, OrderStatusAck(o, ok)
      PROVE  QueuedIffPending' /\ AnswersNotPending'
  <2>1. /\ req' = req \/ req' = [ req EXCEPT !["stale_orders"] = Committed(@) ]
        /\ details_stale_orders' = details_stale_orders
        /\ "stale_orders" \in Kinds
    BY <1>5 DEF OrderStatusAck, StaleCommitted, Kinds
  <2> QED
    BY <2>1, CommitKeeps DEF TypeOK
<1> QED
  BY <1>1, <1>2, <1>3, <1>4, <1>5 DEF OrderEntryNext, OrderEntryTimer

LEMMA EnvironmentKeepsRequests ==
  ASSUME EnvironmentNext
  PROVE  UNCHANGED << dcVars, reqVars, oeStatus, chain, blocked,
                      download_stale_orders_counter >>
BY
   DEF EnvironmentNext, ExchangeSubscribes, ExchangeRefuses,
       ExchangeAnswersOpenOrders,
       ExchangeCloses, ExchangeUpdates, ExchangeAnswersOrderStatus, OmsSuspects,
       OmsForgets, RestListsDexes, oeVars

LEMMA QueueStep ==
  ASSUME TypeOK, QueuedIffPending, AnswersNotPending, [Next]_vars
  PROVE  QueuedIffPending' /\ AnswersNotPending'
<1>1. CASE EnvironmentNext
  BY <1>1, EnvironmentKeepsRequests
     DEF reqVars, QueuedIffPending, AnswersNotPending
<1>2. CASE UNCHANGED vars
  BY <1>2 DEF vars, reqVars, QueuedIffPending, AnswersNotPending
<1> QED
  BY <1>1, <1>2, DropCopyQueue, OrderEntryQueue DEF Next, Running

-----------------------------------------------------------------------------
(* The counter of outstanding status requests                              *)

LEMMA OutstandingFinite ==
  /\ IsFiniteSet(Outstanding)
  /\ Cardinality(Outstanding) \in Nat
  /\ Cardinality(Outstanding) = 0 <=> Outstanding = {}
BY OrdersAssumption, FS_Subset, FS_CardinalityType, FS_EmptySet DEF Outstanding

(* What changes neither the requests nor whether they are on the wire. *)
LEMMA CountQuiet ==
  ASSUME CountMatches,
         Outstanding' = Outstanding,
         req'["stale_orders"].inflight = req["stale_orders"].inflight,
         download_stale_orders_counter' = download_stale_orders_counter,
         blocked' = blocked
  PROVE  CountMatches'
BY DEF CountMatches

LEMMA DropCopyCount ==
  ASSUME TypeOK, CountMatches, DropCopyNext
  PROVE  CountMatches'
<1>1. /\ asking' = asking
      /\ download_stale_orders_counter' = download_stale_orders_counter
      /\ blocked' = blocked
  BY DEF DropCopyNext, DropCopyTimer, DropCopyReady, DropCopyDisconnected,
         SubscriptionResponse, OrderUpdates, DropCopyCheckStaleOrders,
         DropCopyCheckRequestQueue, oeVars
<1>2. Outstanding' = Outstanding
  BY <1>1 DEF Outstanding
<1>3. \/ req' = req
      \/ req' = [ req EXCEPT !["stale_orders"] = Requested(@) ]
      \/ \E s \in States, told \in Seq(Statuses) : Enter(s, told)
  <2>1. "SUBSCRIBE_NOTIFICATION" \in States
    BY DEF States, SubscribeStates
  <2>2. \A s, q : s \in States => NextState(s, q) \in States
    BY NextStateType
  <2>3. SubscribeStates \subseteq States /\ state \in States
    BY DEF States, TypeOK
  <2>4. /\ announced \in Seq(Statuses)
        /\ Announce(announced, "READY") \in Seq(Statuses)
    <3>1. announced \in Seq(Statuses)
      BY DEF TypeOK, Statuses
    <3>2. Announce(announced, "READY") \in Seq(Statuses)
      BY <3>1, AnnounceType DEF Statuses
    <3> QED
      BY <3>1, <3>2
  <2> QED
    BY <2>1, <2>2, <2>3, <2>4
       DEF DropCopyNext, DropCopyTimer, DropCopyReady, DropCopyDisconnected,
           SubscriptionResponse, OrderUpdates, DropCopyCheckStaleOrders,
           DropCopyCheckRequestQueue, reqVars, PeriodicRequest
<1>4. req'["stale_orders"].inflight = req["stale_orders"].inflight
  <2>1. "stale_orders" \in Kinds
    BY DEF Kinds
  <2>2. CASE req' = req
    BY <2>2
  <2>3. CASE req' = [ req EXCEPT !["stale_orders"] = Requested(@) ]
    BY <2>1, <2>3 DEF TypeOK, Requested
  <2>4. ASSUME NEW s \in States, NEW told, Enter(s, told)
        PROVE  req'["stale_orders"].inflight = req["stale_orders"].inflight
    BY <2>1, <2>4, EnterRequests DEF TypeOK, Requested
  <2> QED
    BY <1>3, <2>2, <2>3, <2>4
<1> QED
  BY <1>1, <1>2, <1>4, CountQuiet

LEMMA OrderEntryCount ==
  ASSUME TypeOK, CountMatches, OrderEntryNext
  PROVE  CountMatches'
<1>1. CASE \/ OrderEntryConnected \/ OrderEntryDisconnected
           \/ \E kind \in ChainKinds : ChainIndexesNoDex(kind)
  <2>1. UNCHANGED << req, asking, download_stale_orders_counter, blocked >>
    BY <1>1 DEF OrderEntryConnected, OrderEntryDisconnected, ChainIndexesNoDex,
                reqVars, oeVars
  <2> QED
    BY <2>1, CountQuiet DEF Outstanding
<1>2. ASSUME NEW kind \in ChainKinds, SendChain(kind)
      PROVE  CountMatches'
  <2>1. /\ kind # "stale_orders"
        /\ req' = [ req EXCEPT ![kind] = HandedOut(@) ]
        /\ UNCHANGED << asking, download_stale_orders_counter, blocked >>
    BY <1>2 DEF SendChain, ChainKinds
  <2>2. req'["stale_orders"] = req["stale_orders"]
    BY <2>1 DEF TypeOK, Kinds
  <2> QED
    BY <2>1, <2>2, CountQuiet DEF Outstanding
<1>3. CASE SendOrderStatus
  <2>1. ~req["stale_orders"].inflight
    BY <1>3 DEF SendOrderStatus, HandsOut, RequestReady, Kinds
  <2>2. Outstanding = {} /\ ~blocked /\ download_stale_orders_counter = 0
    BY <2>1, OutstandingFinite DEF CountMatches
  <2>3. FoundOrders \subseteq Orders
    BY DEF FoundOrders, TypeOK
  <2>4. Outstanding' = FoundOrders
    <3>1. asking' = [ o \in Orders |->
                        IF o \in FoundOrders THEN "sent" ELSE asking[o] ]
      BY <1>3 DEF SendOrderStatus
    <3>2. \A o \in Orders : asking[o] = "no"
      BY <2>2 DEF Outstanding
    <3>3. \A o \in Orders : (asking'[o] # "no") <=> (o \in FoundOrders)
      BY <3>1, <3>2
    <3> QED
      BY <2>3, <3>3 DEF Outstanding
  <2>5. Cardinality(FoundOrders) \in Nat
    BY <2>3, OrdersAssumption, FS_Subset, FS_CardinalityType
  <2>6. download_stale_orders_counter' = Cardinality(FoundOrders)
    BY <1>3, <2>2, <2>5 DEF SendOrderStatus
  <2>7. req'["stale_orders"].inflight
    BY <1>3 DEF SendOrderStatus, TypeOK, HandedOut, Kinds
  <2>8. blocked' <=> FoundOrders = {}
    BY <1>3, <2>2 DEF SendOrderStatus
  <2> QED
    BY <2>4, <2>6, <2>7, <2>8 DEF CountMatches
<1>4. ASSUME NEW kind \in ChainKinds, NEW ok \in BOOLEAN, ChainAck(kind, ok)
      PROVE  CountMatches'
  <2>1. /\ kind # "stale_orders"
        /\ req' = req \/ req' = [ req EXCEPT ![kind] = Committed(@) ]
        /\ UNCHANGED << asking, download_stale_orders_counter, blocked >>
    BY <1>4 DEF ChainAck, ChainKinds
  <2>2. req'["stale_orders"] = req["stale_orders"]
    BY <2>1 DEF TypeOK, Kinds
  <2> QED
    BY <2>1, <2>2, CountQuiet DEF Outstanding
<1>5. ASSUME NEW o \in Orders, NEW ok \in BOOLEAN, OrderStatusAck(o, ok)
      PROVE  CountMatches'
  <2>1. /\ asking' = [ asking EXCEPT ![o] = "no" ]
        /\ o \in Outstanding
        /\ download_stale_orders_counter' = download_stale_orders_counter - 1
        /\ req' = StaleCommitted(download_stale_orders_counter')
        /\ ~blocked /\ ~blocked'
    BY <1>5 DEF OrderStatusAck, Outstanding, CountMatches
  <2>2. Outstanding' = Outstanding \ {o}
    BY <2>1 DEF Outstanding, TypeOK
  <2>3. Cardinality(Outstanding') = Cardinality(Outstanding) - 1
    BY <2>1, <2>2, OutstandingFinite, FS_RemoveElement
  <2>4. download_stale_orders_counter' = Cardinality(Outstanding')
    BY <2>1, <2>3 DEF CountMatches
  <2>5. CASE Outstanding' = {}
    <3>1. download_stale_orders_counter' = 0
      BY <2>4, <2>5, FS_EmptySet
    <3>2. ~req'["stale_orders"].inflight
      BY <2>1, <3>1 DEF StaleCommitted, Committed, TypeOK, Kinds
    <3> QED
      BY <2>1, <2>4, <2>5, <3>2 DEF CountMatches
  <2>6. CASE Outstanding' # {}
    <3>1. IsFiniteSet(Outstanding')
      BY <2>2, OutstandingFinite, FS_Subset
    <3>2. download_stale_orders_counter' # 0
      BY <2>4, <2>6, <3>1, FS_EmptySet
    <3>3. req' = req
      BY <2>1, <3>2 DEF StaleCommitted
    <3>4. req["stale_orders"].inflight
      BY <2>1 DEF CountMatches
    <3> QED
      BY <2>1, <2>4, <2>6, <3>3, <3>4 DEF CountMatches
  <2> QED
    BY <2>5, <2>6
<1> QED
  BY <1>1, <1>2, <1>3, <1>4, <1>5 DEF OrderEntryNext, OrderEntryTimer

(* An answer of the exchange changes how far a request is, not whether it  *)
(* is outstanding.                                                         *)
LEMMA EnvironmentCount ==
  ASSUME TypeOK, CountMatches, EnvironmentNext
  PROVE  CountMatches'
<1>1. UNCHANGED << req, download_stale_orders_counter, blocked >>
  BY EnvironmentKeepsRequests DEF reqVars
<1>2. Outstanding' = Outstanding
  <2>1. ASSUME NEW o \in Orders, ExchangeAnswersOrderStatus(o)
        PROVE  Outstanding' = Outstanding
    BY <2>1 DEF ExchangeAnswersOrderStatus, Outstanding, TypeOK
  <2>2. asking' = asking \/ \E o \in Orders : ExchangeAnswersOrderStatus(o)
    BY
       DEF EnvironmentNext, ExchangeSubscribes, ExchangeRefuses,
           ExchangeAnswersOpenOrders,
           ExchangeCloses, ExchangeUpdates, OmsSuspects, OmsForgets,
           RestListsDexes, oeVars
  <2> QED
    BY <2>1, <2>2 DEF Outstanding
<1> QED
  BY <1>1, <1>2, CountQuiet

LEMMA CountStep ==
  ASSUME TypeOK, CountMatches, [Next]_vars
  PROVE  CountMatches'
<1>1. CASE UNCHANGED vars
  BY <1>1, CountQuiet DEF vars, reqVars, oeVars, Outstanding
<1> QED
  BY <1>1, DropCopyCount, OrderEntryCount, EnvironmentCount DEF Next, Running

-----------------------------------------------------------------------------
(* What clients are told of a connection                                   *)

LEMMA AnnounceCases ==
  ASSUME NEW told, NEW s
  PROVE  /\ told = << >> => Announce(told, s) = Append(told, s)
         /\ told # << >> /\ told[Len(told)] = s => Announce(told, s) = told
         /\ told[Len(told)] # s => Announce(told, s) = Append(told, s)
BY DEF Announce

LEMMA AnnounceTable ==
  /\ Announce(<< >>, "READY") = << "READY" >>
  /\ Announce(<< "READY" >>, "DOWNLOADING") = << "READY", "DOWNLOADING" >>
  /\ Announce(<< "READY", "DOWNLOADING" >>, "DOWNLOADING") =
       << "READY", "DOWNLOADING" >>
  /\ Announce(<< "READY", "DOWNLOADING" >>, "READY") =
       << "READY", "DOWNLOADING", "READY" >>
<1>1. ASSUME NEW told, told = << >>
      PROVE  Announce(told, "READY") = << "READY" >>
  <2>1. Announce(told, "READY") = Append(told, "READY")
    BY <1>1, AnnounceCases, Zenon
  <2>2. told \in Seq(Statuses) /\ Len(told) = 0
    BY <1>1
  <2>3. Append(told, "READY") = << "READY" >>
    BY <2>2
  <2> QED
    BY <2>1, <2>3
<1>2. ASSUME NEW told, told = << "READY" >>
      PROVE  Announce(told, "DOWNLOADING") = << "READY", "DOWNLOADING" >>
  <2>1. Len(told) = 1 /\ told[1] # "DOWNLOADING"
    BY <1>2
  <2>2. Announce(told, "DOWNLOADING") = Append(told, "DOWNLOADING")
    BY <2>1, AnnounceCases
  <2> QED
    BY <1>2, <2>2
<1>3. ASSUME NEW told, told = << "READY", "DOWNLOADING" >>
      PROVE  /\ Announce(told, "DOWNLOADING") = told
             /\ Announce(told, "READY") = << "READY", "DOWNLOADING", "READY" >>
  <2>1. Len(told) = 2 /\ told[2] = "DOWNLOADING" /\ told # << >>
    BY <1>3
  <2>2. /\ Announce(told, "DOWNLOADING") = told
        /\ Announce(told, "READY") = Append(told, "READY")
    BY <2>1, AnnounceCases
  <2> QED
    BY <1>3, <2>2
<1> QED
  BY <1>1, <1>2, <1>3

LEMMA ToldTable ==
  /\ Told("UNDEFINED") = << >>
  /\ Told("DONE") = << "READY", "DOWNLOADING", "READY" >>
  /\ \A s \in States \ { "UNDEFINED", "DONE" } :
       Told(s) = << "READY", "DOWNLOADING" >>
BY Zenon DEF Told

(* A step of the download says DOWNLOADING again, its last step READY. *)
LEMMA EnterTold ==
  ASSUME AnnouncedFollows, state \in States \ { "UNDEFINED", "DONE" },
         NEW s \in States \ { "UNDEFINED" }, Enter(s, announced)
  PROVE  AnnouncedFollows'
<1>1. announced = << "READY", "DOWNLOADING" >>
  BY ToldTable DEF AnnouncedFollows
<1>2. /\ state' = s
      /\ announced' = Announce(announced, status')
      /\ status' = IF s = "DONE" THEN "READY" ELSE "DOWNLOADING"
  BY DEF Enter
<1>3. announced' = Told(s)
  BY <1>1, <1>2, AnnounceTable, ToldTable
<1> QED
  BY <1>2, <1>3 DEF AnnouncedFollows

LEMMA AnnouncedStep ==
  ASSUME TypeOK, AnnouncedFollows, [Next]_vars
  PROVE  AnnouncedFollows'
<1>1. CASE UNCHANGED dcVars
  BY <1>1 DEF dcVars, AnnouncedFollows
<1>2. CASE DropCopyReady
  <2> DEFINE s == "SUBSCRIBE_NOTIFICATION"
  <2>1. Enter(s, Announce(announced, "READY")) /\ announced = << >>
    BY <1>2, ToldTable DEF DropCopyReady, AnnouncedFollows
  <2>2. /\ state' = s /\ status' = "DOWNLOADING"
        /\ announced' = Announce(Announce(announced, "READY"), status')
    BY <2>1 DEF Enter
  <2>3. announced' = << "READY", "DOWNLOADING" >>
    BY <2>1, <2>2, AnnounceTable
  <2>4. s \in States \ { "UNDEFINED", "DONE" }
    BY DEF States, SubscribeStates
  <2> QED
    BY <2>2, <2>3, <2>4, ToldTable DEF AnnouncedFollows
<1>3. CASE DropCopyDisconnected
  BY <1>3, ToldTable DEF DropCopyDisconnected, AnnouncedFollows
<1>4. ASSUME NEW s \in SubscribeStates, SubscriptionResponse(s)
      PROVE  AnnouncedFollows'
  <2>1. state = s /\ s \in States \ { "UNDEFINED", "DONE" }
    BY <1>4 DEF SubscriptionResponse, States, SubscribeStates
  <2>2. NextState(s, details_stale_orders) \in States \ { "UNDEFINED" }
    BY <2>1, NextStateType
  <2>3. Enter(NextState(s, details_stale_orders), announced)
    BY <1>4 DEF SubscriptionResponse
  <2> QED
    BY <2>1, <2>2, <2>3, EnterTold
<1>5. CASE DropCopyCheckRequestQueue
  <2> DEFINE n == NextState(state, QueueOnResponse(state))
  <2>1. state \in States \ { "UNDEFINED", "DONE" }
    BY <1>5 DEF DropCopyCheckRequestQueue, States, GetStates
  <2>2. n \in States \ { "UNDEFINED" }
    BY <2>1, NextStateType
  <2>3. Enter(n, announced)
    BY <1>5 DEF DropCopyCheckRequestQueue
  <2> QED
    BY <2>1, <2>2, <2>3, EnterTold
<1>6. CASE EnvironmentNext
  BY <1>1, <1>6, EnvironmentKeepsRequests
<1>7. CASE OrderEntryNext
  BY <1>1, <1>7
     DEF OrderEntryNext, OrderEntryConnected, OrderEntryDisconnected,
         OrderEntryTimer, ChainIndexesNoDex, SendChain, SendOrderStatus,
         ChainAck, OrderStatusAck
<1>8. CASE \/ UNCHANGED vars \/ DropCopyCheckStaleOrders
           \/ \E o \in Orders, what \in { "open", "closed" } : OrderUpdates(o, what)
  BY <1>1, <1>8 DEF vars, DropCopyCheckStaleOrders, OrderUpdates
<1> QED
  BY <1>2, <1>3, <1>4, <1>5, <1>6, <1>7, <1>8
     DEF Next, Running, DropCopyNext, DropCopyTimer

-----------------------------------------------------------------------------
(* The orders that were not trusted when the download began                *)

(* Where a state may lead, as far as the suspects are concerned. *)
LEMMA LateStatesFollow ==
  ASSUME NEW s \in States, NEW details
  PROVE  /\ NextState(s, details) \in LateStates =>
              s \in LateStates \cup { "GET_STALE_ORDERS", "UNDEFINED" }
                \/ (s = "GET_OPEN_ORDERS" /\ details = {})
         /\ s \in LateStates => NextState(s, details) \in LateStates
BY FollowingTable
   DEF NextState, Skips, LateStates, States, SubscribeStates, GetStates

LEMMA ConfirmedStale ==
  ASSUME NEW os, NEW isOpen, NEW isEarly, Confirmed(os, isOpen, isEarly)
  PROVE  stale' = stale \ os
BY DEF Confirmed

LEMMA DropCopySuspects ==
  ASSUME TypeOK, QueuedIffPending, AnswersNotPending, SuspectsFollowed,
         DropCopyNext
  PROVE  SuspectsFollowed'
<1>1. CASE DropCopyReady
  <2>1. state' = "SUBSCRIBE_NOTIFICATION"
    BY <1>1 DEF DropCopyReady, Enter
  <2>2. suspects' = stale' /\ stale' = stale
    BY <1>1 DEF DropCopyReady, omsVars
  <2> QED
    BY <2>1, <2>2 DEF SuspectsFollowed, LateStates
<1>2. CASE DropCopyDisconnected
  BY <1>2 DEF DropCopyDisconnected, SuspectsFollowed, LateStates
<1>3. ASSUME NEW s \in SubscribeStates, SubscriptionResponse(s)
      PROVE  SuspectsFollowed'
  <2> DEFINE n == NextState(s, details_stale_orders)
  <2>1. /\ s \in States
        /\ s \notin { "GET_OPEN_ORDERS", "GET_STALE_ORDERS", "UNDEFINED" }
    BY DEF States, SubscribeStates
  <2>2. /\ n \in States /\ n # "GET_STALE_ORDERS"
        /\ n \in LateStates => s \in LateStates
    BY <2>1, NextStateType, StaleOrdersFollow, LateStatesFollow
  <2>3. state = s /\ state' = n
    BY <1>3 DEF SubscriptionResponse, Enter
  <2>4. stale' = stale /\ suspects' = suspects
    BY <1>3 DEF SubscriptionResponse, omsVars
  <2> QED
    BY <2>2, <2>3, <2>4 DEF SuspectsFollowed
<1>4. ASSUME NEW o \in Orders, NEW what \in { "open", "closed" },
             OrderUpdates(o, what)
      PROVE  SuspectsFollowed'
  <2>1. stale' = stale \ {o} /\ suspects' = suspects \ {o}
    BY <1>4, ConfirmedStale DEF OrderUpdates
  <2> QED
    BY <1>4, <2>1 DEF OrderUpdates, dcVars, reqVars, SuspectsFollowed
<1>5. CASE DropCopyCheckStaleOrders
  BY <1>5 DEF DropCopyCheckStaleOrders, dcVars, omsVars, SuspectsFollowed,
              LateStates
<1>6. CASE DropCopyCheckRequestQueue
  <2> DEFINE q == QueueOnResponse(state)
             n == NextState(state, q)
  <2>1. /\ state \in States /\ state \in GetStates /\ state # "UNDEFINED"
        /\ state' = n
        /\ details_stale_orders' = q
        /\ stale' = stale /\ suspects' = suspects
    BY <1>6 DEF DropCopyCheckRequestQueue, Enter, TypeOK, omsVars, GetStates
  <2>2. state = "GET_OPEN_ORDERS" => suspects \subseteq q
    BY DEF QueueOnResponse, NewlyStale, SuspectsFollowed
  <2>3. state = "GET_STALE_ORDERS" => suspects = {}
    <3>1. SUFFICES ASSUME state = "GET_STALE_ORDERS"
                   PROVE  suspects = {}
      OBVIOUS
    <3>2. req["stale_orders"].responded
      BY <1>6, <3>1, KindOfTable DEF DropCopyCheckRequestQueue, HasResponse
    <3>3. ~req["stale_orders"].pending
      BY <3>2 DEF AnswersNotPending, Kinds
    <3>4. details_stale_orders = {}
      BY <3>3 DEF QueuedIffPending
    <3> QED
      BY <3>1, <3>4 DEF SuspectsFollowed
  <2>4. n = "GET_STALE_ORDERS" => state = "GET_OPEN_ORDERS"
    BY <2>1, StaleOrdersFollow
  <2>5. n \in LateStates => suspects = {}
    BY <2>1, <2>2, <2>3, LateStatesFollow DEF SuspectsFollowed
  <2> QED
    BY <2>1, <2>2, <2>4, <2>5 DEF SuspectsFollowed
<1> QED
  BY <1>1, <1>2, <1>3, <1>4, <1>5, <1>6 DEF DropCopyNext, DropCopyTimer

LEMMA OrderEntrySuspects ==
  ASSUME TypeOK, SuspectsFollowed, OrderEntryNext
  PROVE  SuspectsFollowed'
<1>1. CASE \/ OrderEntryConnected \/ OrderEntryDisconnected
           \/ \E kind \in ChainKinds : ChainIndexesNoDex(kind)
  BY <1>1 DEF OrderEntryConnected, OrderEntryDisconnected, ChainIndexesNoDex,
              dcVars, reqVars, omsVars, SuspectsFollowed
<1>2. ASSUME NEW kind \in ChainKinds, SendChain(kind)
      PROVE  SuspectsFollowed'
  BY <1>2 DEF SendChain, dcVars, omsVars, SuspectsFollowed
<1>3. CASE SendOrderStatus
  <2>1. /\ state' = state /\ stale' = stale
        /\ suspects' = IF state = "GET_STALE_ORDERS"
                       THEN suspects \ FoundOrders ELSE suspects
    BY <1>3 DEF SendOrderStatus, dcVars, omsVars
  <2>2. state = "GET_STALE_ORDERS" => suspects \subseteq FoundOrders
    BY DEF FoundOrders, SuspectsFollowed, TypeOK
  <2> QED
    BY <2>1, <2>2 DEF SuspectsFollowed
<1>4. ASSUME NEW kind \in ChainKinds, NEW ok \in BOOLEAN, ChainAck(kind, ok)
      PROVE  SuspectsFollowed'
  <2>1. /\ state' = state
        /\ details_stale_orders' = details_stale_orders
    BY <1>4 DEF ChainAck, dcVars
  <2>2. \/ stale' = stale /\ suspects' = suspects
        \/ /\ stale' = stale \ snapshot.orders
           /\ suspects' = suspects \ snapshot.orders
    BY <1>4, ConfirmedStale DEF ChainAck, omsVars
  <2> QED
    BY <2>1, <2>2 DEF SuspectsFollowed
<1>5. ASSUME NEW o \in Orders, NEW ok \in BOOLEAN, OrderStatusAck(o, ok)
      PROVE  SuspectsFollowed'
  <2>1. /\ state' = state
        /\ details_stale_orders' = details_stale_orders
    BY <1>5 DEF OrderStatusAck, dcVars
  <2>2. \/ stale' = stale /\ suspects' = suspects
        \/ stale' = stale \ {o} /\ suspects' = suspects \ {o}
    BY <1>5, ConfirmedStale DEF OrderStatusAck, omsVars
  <2> QED
    BY <2>1, <2>2 DEF SuspectsFollowed
<1> QED
  BY <1>1, <1>2, <1>3, <1>4, <1>5 DEF OrderEntryNext, OrderEntryTimer

LEMMA EnvironmentSuspects ==
  ASSUME TypeOK, SuspectsFollowed, EnvironmentNext
  PROVE  SuspectsFollowed'
<1>1. state' = state /\ details_stale_orders' = details_stale_orders
  BY EnvironmentKeepsRequests DEF dcVars, reqVars
<1>2. ASSUME NEW o \in Orders, OmsSuspects(o)
      PROVE  SuspectsFollowed'
  <2>1. /\ stale' = stale \cup {o}
        /\ suspects' = suspects
             \/ /\ suspects' = suspects \cup {o}
                /\ state \notin LateStates \cup { "GET_STALE_ORDERS" }
    BY <1>2 DEF OmsSuspects, EarlyStates, LateStates
  <2> QED
    BY <1>1, <2>1 DEF SuspectsFollowed
<1>3. ASSUME NEW o \in Orders, OmsForgets(o)
      PROVE  SuspectsFollowed'
  BY <1>1, <1>3 DEF OmsForgets, SuspectsFollowed
<1>4. \/ stale' = stale /\ suspects' = suspects
      \/ \E o \in Orders : OmsSuspects(o) \/ OmsForgets(o)
  BY
     DEF EnvironmentNext, ExchangeSubscribes, ExchangeRefuses,
         ExchangeAnswersOpenOrders,
         ExchangeCloses, ExchangeUpdates, ExchangeAnswersOrderStatus,
         RestListsDexes, omsVars
<1> QED
  BY <1>1, <1>2, <1>3, <1>4 DEF SuspectsFollowed

LEMMA SuspectsStep ==
  ASSUME TypeOK, QueuedIffPending, AnswersNotPending, SuspectsFollowed,
         [Next]_vars
  PROVE  SuspectsFollowed'
<1>1. CASE UNCHANGED vars
  BY <1>1 DEF vars, dcVars, reqVars, omsVars, SuspectsFollowed
<1> QED
  BY <1>1, DropCopySuspects, OrderEntrySuspects, EnvironmentSuspects
     DEF Next, Running

-----------------------------------------------------------------------------
(* Trusted orders                                                          *)

(* Past SUBSCRIBE_ORDER_UPDATES only by its response. *)
LEMMA EarlyStatesFollow ==
  ASSUME NEW s \in States \ { "UNDEFINED" }, NEW details
  PROVE  NextState(s, details) \notin EarlyStates =>
           s \notin EarlyStates \/ s = "SUBSCRIBE_ORDER_UPDATES"
BY FollowingTable
   DEF NextState, Skips, EarlyStates, States, SubscribeStates, GetStates

(* What does not confirm anything: the sets of the OMS do not gain a       *)
(* trusted order and nothing that was believable stops being so.           *)
LEMMA TrustQuiet ==
  ASSUME TrustFounded,
         state' \notin EarlyStates => live,
         UNCHANGED << acks, live, feed, open, snapshot, asking, askedEarly,
                      working, stale, early >>
  PROVE  TrustFounded'
BY DEF TrustFounded, Believable

(* A confirmation by believable answers, or by early ones, keeps trust     *)
(* founded.                                                                *)
LEMMA ConfirmedTrust ==
  ASSUME TrustFounded, NEW os, NEW isOpen \in BOOLEAN, NEW isEarly \in BOOLEAN,
         Confirmed(os, isOpen, isEarly),
         NEW o \in Orders,
         isOpen /\ ~isEarly /\ o \in os => live /\ Believable(o)
  PROVE  /\ o \in working' \ (stale' \cup early') =>
              /\ live
              /\ o \in open \/ << o, "closed" >> \in feed
         /\ o \in working' => o \in working
         /\ o \in os /\ ~isOpen => o \notin working'
BY DEF Confirmed, TrustFounded, Believable

LEMMA DropCopyTrust ==
  ASSUME TypeOK, TrustFounded, DropCopyNext
  PROVE  TrustFounded'
<1>1. CASE DropCopyReady
  <2>1. state' \in EarlyStates
    BY <1>1 DEF DropCopyReady, Enter, EarlyStates
  <2> QED
    BY <1>1, <2>1, TrustQuiet DEF DropCopyReady, oeVars, omsVars
<1>2. CASE DropCopyDisconnected
  <2>1. /\ state' \in EarlyStates /\ acks' = {} /\ feed' = {}
        /\ working' \ stale' = {} /\ asking' = asking
    BY <1>2 DEF DropCopyDisconnected, EarlyStates
  <2>2. /\ snapshot'.orders = snapshot.orders /\ snapshot'.early = snapshot.taken
        /\ snapshot'.taken = snapshot.taken
    BY <1>2 DEF DropCopyDisconnected, TypeOK, Snapshots
  <2>3. ASSUME NEW o \in Orders, asking[o] = "open"
        PROVE  o \in askedEarly'
    BY <1>2, <2>3 DEF DropCopyDisconnected
  <2>4. ~snapshot'.taken => snapshot'.orders = {}
    BY <2>2 DEF TrustFounded
  <2> QED
    BY <2>1, <2>2, <2>3, <2>4 DEF TrustFounded
<1>3. ASSUME NEW s \in SubscribeStates, SubscriptionResponse(s)
      PROVE  TrustFounded'
  <2> DEFINE n == NextState(s, details_stale_orders)
  <2>1. s \in States \ { "UNDEFINED" }
    BY DEF States, SubscribeStates
  <2>2. s \in acks /\ s = state /\ state' = n /\ acks' = acks \ {s}
    BY <1>3 DEF SubscriptionResponse, Enter
  <2>3. n \notin EarlyStates => live
    BY <2>1, <2>2, EarlyStatesFollow DEF TrustFounded
  <2>4. UNCHANGED << live, feed, open, snapshot, asking, askedEarly,
                     working, stale, early >>
    BY <1>3 DEF SubscriptionResponse, oeVars, omsVars
  <2> QED
    BY <2>2, <2>3, <2>4 DEF TrustFounded, Believable
<1>4. ASSUME NEW x \in Orders, NEW what \in { "open", "closed" },
             OrderUpdates(x, what)
      PROVE  TrustFounded'
  <2>1. /\ << x, what >> \in feed /\ feed' = feed \ { << x, what >> }
        /\ Confirmed({x}, what = "open", FALSE)
        /\ UNCHANGED << state, acks, live, open, snapshot, asking, askedEarly >>
    BY <1>4 DEF OrderUpdates, dcVars, oeVars
  <2>2. live
    BY <2>1 DEF TrustFounded
  <2>3. x \in Orders /\ what = "open" => live /\ Believable(x)
    BY <2>1 DEF TrustFounded
  <2>4. ASSUME NEW o \in Orders
        PROVE  /\ o \in working' \ (stale' \cup early') => Believable(o)'
               /\ Believable(o) => Believable(o)'
    <3>1. /\ o \in working' \ (stale' \cup early') =>
               o \in open \/ << o, "closed" >> \in feed
          /\ o \in working' => o \in working
          /\ o = x /\ what = "closed" => o \notin working'
      <4>1. (what = "open") \in BOOLEAN
        OBVIOUS
      <4>2. what = "open" /\ o \in {x} => live /\ Believable(o)
        BY <2>3
      <4>3. Confirmed({x}, what = "open", FALSE)
        BY <2>1
      <4>4. /\ o \in working' \ (stale' \cup early') =>
                 live /\ (o \in open \/ << o, "closed" >> \in feed)
            /\ o \in working' => o \in working
            /\ o \in {x} /\ ~(what = "open") => o \notin working'
        BY <4>1, <4>2, <4>3, ConfirmedTrust
      <4> QED
        BY <4>4
    <3>2. o # x \/ what = "open" =>
            (<< o, "closed" >> \in feed => << o, "closed" >> \in feed')
      BY <2>1
    <3> QED
      BY <2>1, <3>1, <3>2 DEF Believable
  <2> QED
    BY <2>1, <2>2, <2>4 DEF TrustFounded
<1>5. CASE DropCopyCheckStaleOrders
  BY <1>5, TrustQuiet
     DEF DropCopyCheckStaleOrders, TrustFounded, dcVars, wsVars,
                          oeVars, omsVars
<1>6. CASE DropCopyCheckRequestQueue
  <2> DEFINE n == NextState(state, QueueOnResponse(state))
  <2>1. /\ state \in States \ { "UNDEFINED" } /\ state # "SUBSCRIBE_ORDER_UPDATES"
        /\ state' = n
    BY <1>6 DEF DropCopyCheckRequestQueue, Enter, TypeOK, GetStates
  <2>2. n \notin EarlyStates => live
    BY <2>1, EarlyStatesFollow DEF TrustFounded
  <2> QED
    BY <1>6, <2>1, <2>2, TrustQuiet
       DEF DropCopyCheckRequestQueue, oeVars, omsVars
<1> QED
  BY <1>1, <1>2, <1>3, <1>4, <1>5, <1>6 DEF DropCopyNext, DropCopyTimer

LEMMA OrderEntryTrust ==
  ASSUME TypeOK, TrustFounded, OrderEntryNext
  PROVE  TrustFounded'
<1>1. CASE \/ OrderEntryConnected \/ OrderEntryDisconnected
           \/ \E kind \in ChainKinds : ChainIndexesNoDex(kind)
  BY <1>1, TrustQuiet
     DEF OrderEntryConnected, OrderEntryDisconnected, ChainIndexesNoDex, dcVars,
         wsVars, oeVars, omsVars, TrustFounded
<1>2. ASSUME NEW kind \in ChainKinds, SendChain(kind)
      PROVE  TrustFounded'
  BY <1>2, TrustQuiet DEF SendChain, dcVars, wsVars, omsVars, TrustFounded
<1>3. CASE SendOrderStatus
  <2>1. UNCHANGED << state, acks, live, feed, open, snapshot, askedEarly,
                     working, stale, early >>
    BY <1>3 DEF SendOrderStatus, dcVars, wsVars, omsVars
  <2>2. \A o \in Orders : asking'[o] = "open" => asking[o] = "open"
    BY <1>3 DEF SendOrderStatus
  <2> QED
    BY <2>1, <2>2 DEF TrustFounded, Believable
<1>4. ASSUME NEW kind \in ChainKinds, NEW ok \in BOOLEAN, ChainAck(kind, ok)
      PROVE  TrustFounded'
  <2>1. UNCHANGED << state, acks, live, feed, open, asking, askedEarly >>
    BY <1>4 DEF ChainAck, dcVars, wsVars
  <2>2. snapshot' = snapshot \/ (snapshot'.orders = {} /\ ~snapshot'.taken)
    BY <1>4 DEF ChainAck, NoSnapshot
  <2>3. CASE UNCHANGED omsVars
    BY <2>1, <2>2, <2>3 DEF omsVars, TrustFounded, Believable
  <2>4. CASE Confirmed(snapshot.orders, TRUE, snapshot.early)
    <3>1. snapshot.early \in BOOLEAN
      BY DEF TypeOK, Snapshots
    <3>2. ASSUME NEW o \in Orders
          PROVE  /\ o \in working' \ (stale' \cup early') =>
                      live /\ (o \in open \/ << o, "closed" >> \in feed)
                 /\ o \in working' => o \in working
      <4>1. ~snapshot.early /\ o \in snapshot.orders => live /\ Believable(o)
        BY DEF TrustFounded
      <4> QED
        BY <2>4, <3>1, <4>1, ConfirmedTrust
    <3> QED
      BY <2>1, <2>2, <3>2 DEF TrustFounded, Believable
  <2> QED
    BY <1>4, <2>3, <2>4 DEF ChainAck
<1>5. ASSUME NEW x \in Orders, NEW ok \in BOOLEAN, OrderStatusAck(x, ok)
      PROVE  TrustFounded'
  <2>1. UNCHANGED << state, acks, live, feed, open, snapshot >>
    BY <1>5 DEF OrderStatusAck, dcVars, wsVars
  <2>2. ASSUME NEW o \in Orders, asking'[o] = "open", o \notin askedEarly'
        PROVE  asking[o] = "open" /\ o \notin askedEarly
    BY <1>5, <2>2 DEF OrderStatusAck, TypeOK
  <2>3. CASE UNCHANGED omsVars
    BY <2>1, <2>2, <2>3 DEF omsVars, TrustFounded, Believable
  <2>4. CASE Confirmed({x}, asking[x] = "open", x \in askedEarly)
    <3>1. ASSUME NEW o \in Orders
          PROVE  /\ o \in working' \ (stale' \cup early') =>
                      live /\ (o \in open \/ << o, "closed" >> \in feed)
                 /\ o \in working' => o \in working
      <4> DEFINE isOpen == asking[x] = "open"
                 isEarly == x \in askedEarly
      <4>1. isOpen /\ ~isEarly /\ o \in {x} => live /\ Believable(o)
        BY DEF TrustFounded
      <4>2. isOpen \in BOOLEAN /\ isEarly \in BOOLEAN
        OBVIOUS
      <4>3. Confirmed({x}, isOpen, isEarly)
        BY <2>4
      <4> HIDE DEF isOpen, isEarly
      <4> QED
        BY <4>1, <4>2, <4>3, ConfirmedTrust
    <3> QED
      BY <2>1, <2>2, <3>1 DEF TrustFounded, Believable
  <2> QED
    BY <1>5, <2>3, <2>4 DEF OrderStatusAck
<1> QED
  BY <1>1, <1>2, <1>3, <1>4, <1>5 DEF OrderEntryNext, OrderEntryTimer

LEMMA EnvironmentTrust ==
  ASSUME TypeOK, TrustFounded, EnvironmentNext
  PROVE  TrustFounded'
<1>1. state' = state
  BY EnvironmentKeepsRequests DEF dcVars
<1>2. ASSUME NEW s \in SubscribeStates, ExchangeSubscribes(s)
      PROVE  TrustFounded'
  <2>1. /\ acks' = acks \cup {s}
        /\ live' = (live \/ s = "SUBSCRIBE_ORDER_UPDATES")
        /\ UNCHANGED << feed, open, snapshot, asking, askedEarly, working, stale,
                        early >>
    BY <1>2 DEF ExchangeSubscribes, oeVars, omsVars
  <2> QED
    BY <1>1, <2>1 DEF TrustFounded, Believable
<1>3. CASE ExchangeAnswersOpenOrders
  <2>1. /\ snapshot'.taken /\ snapshot'.orders \subseteq open
        /\ ~snapshot'.early => state \notin EarlyStates
    BY <1>3 DEF ExchangeAnswersOpenOrders
  <2>2. UNCHANGED << acks, live, feed, open, asking, askedEarly, working, stale,
                     early >>
    BY <1>3 DEF ExchangeAnswersOpenOrders, wsVars, omsVars
  <2> QED
    BY <1>1, <2>1, <2>2 DEF TrustFounded, Believable
<1>4. ASSUME NEW x \in Orders, ExchangeCloses(x)
      PROVE  TrustFounded'
  <2>1. /\ open' = open \ {x}
        /\ live => feed' = feed \cup { << x, "closed" >> }
        /\ ~live => feed' = feed
        /\ UNCHANGED << acks, live, snapshot, asking, askedEarly, working, stale,
                        early >>
    BY <1>4 DEF ExchangeCloses, oeVars, omsVars
  <2>2. ASSUME NEW o \in Orders, live, Believable(o)
        PROVE  Believable(o)'
    BY <2>1, <2>2 DEF Believable
  <2>3. ASSUME NEW o \in Orders
        PROVE  << o, "open" >> \in feed' => << o, "open" >> \in feed
    BY <2>1
  <2> QED
    BY <1>1, <2>1, <2>2, <2>3 DEF TrustFounded
<1>5. ASSUME NEW x \in Orders, ExchangeUpdates(x)
      PROVE  TrustFounded'
  <2>1. /\ feed' = feed \cup { << x, "open" >> } /\ x \in open /\ live
        /\ UNCHANGED << acks, live, open, snapshot, asking, askedEarly, working,
                        stale, early >>
    BY <1>5 DEF ExchangeUpdates, oeVars, omsVars
  <2> QED
    BY <1>1, <2>1 DEF TrustFounded, Believable
<1>6. ASSUME NEW x \in Orders, ExchangeAnswersOrderStatus(x)
      PROVE  TrustFounded'
  <2>1. UNCHANGED << acks, live, feed, open, snapshot, working, stale, early >>
    BY <1>6 DEF ExchangeAnswersOrderStatus, wsVars, omsVars
  <2>2. ASSUME NEW o \in Orders, asking'[o] = "open", o \notin askedEarly'
        PROVE  live /\ Believable(o)
    <3>1. CASE o = x
      <4>1. o \in open /\ state \notin EarlyStates
        BY <1>6, <2>2, <3>1 DEF ExchangeAnswersOrderStatus, TypeOK
      <4> QED
        BY <4>1 DEF TrustFounded, Believable
    <3>2. CASE o # x
      BY <1>6, <2>2, <3>2 DEF ExchangeAnswersOrderStatus, TypeOK, TrustFounded
    <3> QED
      BY <3>1, <3>2
  <2> QED
    BY <1>1, <2>1, <2>2 DEF TrustFounded, Believable
<1>7. ASSUME NEW x \in Orders, OmsSuspects(x)
      PROVE  TrustFounded'
  <2>1. /\ stale' = stale \cup {x}
        /\ UNCHANGED << acks, live, feed, open, snapshot, asking, askedEarly,
                        working, early >>
    BY <1>7 DEF OmsSuspects, wsVars, oeVars
  <2> QED
    BY <1>1, <2>1 DEF TrustFounded, Believable
<1>8. ASSUME NEW s \in SubscribeStates, ExchangeRefuses(s)
      PROVE  TrustFounded'
  BY <1>1, <1>8 DEF ExchangeRefuses, TrustFounded, Believable, oeVars, omsVars
<1>9. ASSUME NEW x \in Orders, OmsForgets(x)
      PROVE  TrustFounded'
  <2>1. /\ working' = working \ {x} /\ stale' = stale \ {x}
        /\ early' = early \ {x}
        /\ UNCHANGED << acks, live, feed, open, snapshot, asking, askedEarly >>
    BY <1>9 DEF OmsForgets, wsVars, oeVars
  <2> QED
    BY <1>1, <2>1 DEF TrustFounded, Believable
<1>10. CASE RestListsDexes
  BY <1>1, <1>10, TrustQuiet
     DEF RestListsDexes, TrustFounded, wsVars, oeVars, omsVars
<1> QED
  BY <1>2, <1>3, <1>4, <1>5, <1>6, <1>7, <1>8, <1>9, <1>10 DEF EnvironmentNext

LEMMA TrustStep ==
  ASSUME TypeOK, TrustFounded, [Next]_vars
  PROVE  TrustFounded'
<1>1. CASE UNCHANGED vars
  BY <1>1, TrustQuiet DEF vars, dcVars, wsVars, oeVars, omsVars, TrustFounded
<1> QED
  BY <1>1, DropCopyTrust, OrderEntryTrust, EnvironmentTrust DEF Next, Running

-----------------------------------------------------------------------------
(* The theorems                                                            *)

LEMMA InitInv == Init => Inv
<1> SUFFICES ASSUME Init
             PROVE  Inv
  OBVIOUS
<1>1. TypeOK
  BY InitType
<1>2. \A k \in Kinds : ~req[k].pending
  BY DEF Init, NewMailbox
<1>3. QueuedIffPending /\ AnswersNotPending
  BY <1>2 DEF Init, QueuedIffPending, AnswersNotPending, Kinds
<1>4. Outstanding = {} /\ CountMatches
  BY FS_EmptySet DEF Init, Outstanding, CountMatches, NewMailbox, Kinds
<1>5. SuspectsFollowed
  BY DEF Init, SuspectsFollowed, LateStates
<1>6. TrustFounded
  BY DEF Init, TrustFounded, EarlyStates, NoSnapshot, Believable
<1>7. AnnouncedFollows
  BY ToldTable DEF Init, AnnouncedFollows
<1> QED
  BY <1>1, <1>3, <1>4, <1>5, <1>6, <1>7 DEF Inv

LEMMA InvHolds == Spec => []Inv
<1>1. Inv /\ [Next]_vars => Inv'
  BY StepType, QueueStep, CountStep, AnnouncedStep, SuspectsStep, TrustStep
     DEF Inv
<1> QED
  BY <1>1, InitInv, PTL DEF Spec

(* A stale order is queued exactly while the request to look at the queue  *)
(* waits, and that request is on the wire exactly while answers are due or *)
(* once none ever will be, whatever downloads and periodic checks overlap. *)
THEOREM QueueAlwaysMatches == Spec => []QueueMatchesRequest
<1>1. Inv => QueueMatchesRequest
  BY DEF Inv, QueuedIffPending, CountMatches, QueueMatchesRequest
<1> QED
  BY <1>1, InvHolds, PTL

(* No log::fatal("Unexpected") of the stale order download is reached: an  *)
(* answer is only seen when nothing waits, so that the queue is empty, and *)
(* the counter is the number of requests outstanding.                      *)
THEOREM NeverUnexpected == Spec => []NoUnexpected
<1>1. Inv => ~UnexpectedDetails
  BY DEF Inv, UnexpectedDetails, HasResponse, AnswersNotPending,
         QueuedIffPending, Kinds
<1>2. Inv => ~UnexpectedOrderStatusAck
  BY OutstandingFinite DEF Inv, UnexpectedOrderStatusAck, CountMatches
<1>3. Inv => NoUnexpected
  BY <1>1, <1>2 DEF NoUnexpected
<1> QED
  BY <1>3, InvHolds, PTL

(* Subscribing before asking for the open orders leaves no gap in which a  *)
(* closing is missed.                                                      *)
THEOREM TrustedAlwaysOpen == Spec => []TrustedOrdersAreOpen
<1>1. Inv => TrustedOrdersAreOpen
  BY DEF Inv, TypeOK, TrustFounded, Believable, TrustedOrdersAreOpen
<1> QED
  BY <1>1, InvHolds, PTL

(* The READY that follows DOWNLOADING on a connection is announced with    *)
(* order updates active, and when every order that was not trusted has     *)
(* been confirmed, forgotten or asked about.                               *)
THEOREM ReadyAlwaysAsked == Spec => []ReadyMeansAsked
<1>1. ASSUME Inv, announced = << "READY", "DOWNLOADING", "READY" >>
      PROVE  live /\ suspects = {}
  <2>1. state = "DONE"
    <3>1. state \in States /\ announced = Told(state)
      BY <1>1 DEF Inv, AnnouncedFollows, TypeOK
    <3>2. state # "DONE" =>
            announced \in { << >>, << "READY", "DOWNLOADING" >> }
      BY <3>1, ToldTable
    <3>3. << "READY", "DOWNLOADING", "READY" >>
            \notin { << >>, << "READY", "DOWNLOADING" >> }
      OBVIOUS
    <3> QED
      BY <1>1, <3>2, <3>3
  <2> QED
    BY <1>1, <2>1
       DEF Inv, SuspectsFollowed, TrustFounded, LateStates, EarlyStates
<1>2. Inv => ReadyMeansAsked
  BY <1>1 DEF ReadyMeansAsked
<1> QED
  BY <1>2, InvHolds, PTL

-----------------------------------------------------------------------------
(* AccountDownload implements AccountSync.                                 *)

(* What the refinement needs beyond Inv                                    *)

(* The subscription under way is the one the download waits for. *)
OneSubscription ==
  subs \cup acks \subseteq {state} /\ subs \cap acks = {}

(* The exchange closes an order before it says so. *)
ClosedIsClosed ==
  \A o \in Orders :
    /\ << o, "closed" >> \in feed => o \notin open
    /\ asking[o] = "closed" => o \notin open

Tidy == OneSubscription /\ ClosedIsClosed

(* Where Enter may lead to. *)
LEMMA EnterTidy ==
  ASSUME NEW s \in States \ { "UNDEFINED" }, NEW told, Enter(s, told),
         subs = {}, acks' = {}
  PROVE  OneSubscription'
BY DEF Enter, OneSubscription

LEMMA NextStateNot ==
  ASSUME NEW s \in States, NEW details
  PROVE  NextState(s, details) \in States \ { "UNDEFINED" }
BY NextStateType

(* ClosedIsClosed depends on three variables. *)
LEMMA ClosedQuiet ==
  ASSUME ClosedIsClosed, feed' \subseteq feed \/ feed' = {}, open' = open,
         \A o \in Orders : asking'[o] = "closed" => asking[o] = "closed"
  PROVE  ClosedIsClosed'
BY DEF ClosedIsClosed

LEMMA DropCopyTidy ==
  ASSUME TypeOK, Tidy, DropCopyNext
  PROVE  Tidy'
<1>1. CASE DropCopyReady
  <2>1. subs = {} /\ acks = {}
    BY <1>1 DEF DropCopyReady, Tidy, OneSubscription, TypeOK, SubscribeStates
  <2>2. /\ Enter("SUBSCRIBE_NOTIFICATION", Announce(announced, "READY")) /\ acks' = acks
        /\ "SUBSCRIBE_NOTIFICATION" \in States \ { "UNDEFINED" }
        /\ UNCHANGED << feed, open, asking >>
    BY <1>1 DEF DropCopyReady, States, SubscribeStates, oeVars
  <2> QED
    BY <2>1, <2>2, EnterTidy, ClosedQuiet DEF Tidy
<1>2. CASE DropCopyDisconnected
  <2>1. ClosedIsClosed'
    BY <1>2, ClosedQuiet DEF DropCopyDisconnected, Tidy
  <2> QED
    BY <1>2, <2>1
       DEF DropCopyDisconnected, Tidy, OneSubscription
<1>3. ASSUME NEW s \in SubscribeStates, SubscriptionResponse(s)
      PROVE  Tidy'
  <2>1. subs = {} /\ acks' = {}
    BY <1>3 DEF SubscriptionResponse, Tidy, OneSubscription
  <2>2. /\ Enter(NextState(s, details_stale_orders), announced)
        /\ s \in States
        /\ UNCHANGED << feed, open, asking >>
    BY <1>3 DEF SubscriptionResponse, oeVars, States
  <2> QED
    BY <2>1, <2>2, NextStateNot, EnterTidy, ClosedQuiet DEF Tidy
<1>4. ASSUME NEW x \in Orders, NEW what \in { "open", "closed" },
             OrderUpdates(x, what)
      PROVE  Tidy'
  <2>1. /\ feed' \subseteq feed
        /\ UNCHANGED << state, subs, acks, open, asking >>
    BY <1>4 DEF OrderUpdates, dcVars, oeVars
  <2> QED
    BY <2>1, ClosedQuiet DEF Tidy, OneSubscription
<1>5. CASE DropCopyCheckStaleOrders
  BY <1>5, ClosedQuiet
     DEF DropCopyCheckStaleOrders, Tidy, OneSubscription,
         dcVars, wsVars, oeVars
<1>6. CASE DropCopyCheckRequestQueue
  <2>1. subs = {} /\ acks = {}
    BY <1>6 DEF DropCopyCheckRequestQueue, Tidy, OneSubscription, TypeOK,
                SubscribeStates, GetStates
  <2>2. /\ Enter(NextState(state, QueueOnResponse(state)), announced)
        /\ state \in States /\ acks' = acks
        /\ UNCHANGED << feed, open, asking >>
    BY <1>6 DEF DropCopyCheckRequestQueue, oeVars, TypeOK
  <2> QED
    BY <2>1, <2>2, NextStateNot, EnterTidy, ClosedQuiet DEF Tidy
<1> QED
  BY <1>1, <1>2, <1>3, <1>4, <1>5, <1>6 DEF DropCopyNext, DropCopyTimer

LEMMA OrderEntryTidy ==
  ASSUME TypeOK, Tidy, OrderEntryNext
  PROVE  Tidy'
<1>1. UNCHANGED << state, subs, acks, feed, open >>
  BY DEF OrderEntryNext, OrderEntryConnected, OrderEntryDisconnected,
         OrderEntryTimer, ChainIndexesNoDex, SendChain, SendOrderStatus,
         ChainAck, OrderStatusAck, dcVars, wsVars
<1>2. \A o \in Orders : asking'[o] = "closed" => asking[o] = "closed"
  <2>1. ASSUME NEW x \in Orders, NEW ok \in BOOLEAN, OrderStatusAck(x, ok)
        PROVE  \A o \in Orders : asking'[o] = "closed" => asking[o] = "closed"
    BY <2>1 DEF OrderStatusAck, TypeOK
  <2>2. CASE SendOrderStatus
    BY <2>2 DEF SendOrderStatus
  <2>3. \/ asking' = asking
        \/ SendOrderStatus
        \/ \E x \in Orders, ok \in BOOLEAN : OrderStatusAck(x, ok)
    BY DEF OrderEntryNext, OrderEntryConnected, OrderEntryDisconnected,
           OrderEntryTimer, ChainIndexesNoDex, SendChain, ChainAck, oeVars
  <2> QED
    BY <2>1, <2>2, <2>3
<1> QED
  BY <1>1, <1>2, ClosedQuiet DEF Tidy, OneSubscription

LEMMA EnvironmentTidy ==
  ASSUME TypeOK, Tidy, EnvironmentNext
  PROVE  Tidy'
<1>1. state' = state
  BY EnvironmentKeepsRequests DEF dcVars
<1>2. OneSubscription'
  <2>1. ASSUME NEW s \in SubscribeStates, ExchangeSubscribes(s) \/ ExchangeRefuses(s)
        PROVE  OneSubscription'
    BY <1>1, <2>1 DEF ExchangeSubscribes, ExchangeRefuses, Tidy, OneSubscription
  <2>2. \/ UNCHANGED << subs, acks >>
        \/ \E s \in SubscribeStates : ExchangeSubscribes(s) \/ ExchangeRefuses(s)
    BY DEF EnvironmentNext, ExchangeAnswersOpenOrders, ExchangeCloses,
           ExchangeUpdates, ExchangeAnswersOrderStatus, OmsSuspects, OmsForgets,
           RestListsDexes, wsVars
  <2> QED
    BY <1>1, <2>1, <2>2 DEF Tidy, OneSubscription
<1>3. ClosedIsClosed'
  <2>1. ASSUME NEW x \in Orders, ExchangeCloses(x)
        PROVE  ClosedIsClosed'
    BY <2>1 DEF ExchangeCloses, Tidy, ClosedIsClosed, oeVars
  <2>2. ASSUME NEW x \in Orders, ExchangeUpdates(x)
        PROVE  ClosedIsClosed'
    BY <2>2 DEF ExchangeUpdates, Tidy, ClosedIsClosed, oeVars
  <2>3. ASSUME NEW x \in Orders, ExchangeAnswersOrderStatus(x)
        PROVE  ClosedIsClosed'
    BY <2>3 DEF ExchangeAnswersOrderStatus, Tidy, ClosedIsClosed, wsVars, TypeOK
  <2>4. \/ UNCHANGED << feed, open, asking >>
        \/ \E x \in Orders : \/ ExchangeCloses(x) \/ ExchangeUpdates(x)
                             \/ ExchangeAnswersOrderStatus(x)
    BY DEF EnvironmentNext, ExchangeSubscribes, ExchangeRefuses,
           ExchangeAnswersOpenOrders, OmsSuspects, OmsForgets, RestListsDexes,
           wsVars, oeVars
  <2> QED
    BY <2>1, <2>2, <2>3, <2>4 DEF Tidy, ClosedIsClosed
<1> QED
  BY <1>1, <1>2, <1>3 DEF Tidy

LEMMA TidyHolds == Spec => []Tidy
<1>1. Init => Tidy
  BY DEF Init, Tidy, OneSubscription, ClosedIsClosed
<1>2. TypeOK /\ Tidy /\ [Next]_vars => Tidy'
  <2>1. CASE UNCHANGED vars
    BY <2>1 DEF vars, dcVars, wsVars, oeVars, Tidy, OneSubscription, ClosedIsClosed
  <2> QED
    BY <2>1, DropCopyTidy, OrderEntryTidy, EnvironmentTidy DEF Next, Running
<1> QED
  BY <1>1, <1>2, TypeCorrect, PTL DEF Spec

-----------------------------------------------------------------------------
(* The steps, seen as steps of AccountSync                                 *)

(* Only the last subscription leads to DONE. *)
LEMMA DoneFollows ==
  ASSUME NEW s \in States \ { "UNDEFINED", "DONE" }, NEW details
  PROVE  (NextState(s, details) = "DONE") <=> (s = "SUBSCRIBE_USER_EVENTS")
BY FollowingTable DEF NextState, Skips, States, SubscribeStates, GetStates

(* The tuples clients are told differ. *)
LEMMA ToldDiffer ==
  /\ << >> # << "READY", "DOWNLOADING" >>
  /\ << >> # << "READY", "DOWNLOADING", "READY" >>
  /\ << "READY", "DOWNLOADING" >> # << "READY", "DOWNLOADING", "READY" >>
OBVIOUS

(* The state of the download, seen as what clients have been told. *)
LEMMA StateTold ==
  ASSUME TypeOK, AnnouncedFollows
  PROVE  /\ announced = << >> <=> state = "UNDEFINED"
         /\ Sync!Downloading <=> state \notin { "UNDEFINED", "DONE" }
<1>1. /\ state \in States
      /\ announced = Told(state)
  BY DEF TypeOK, AnnouncedFollows
<1>2. CASE state = "UNDEFINED"
  BY <1>1, <1>2, ToldTable, ToldDiffer DEF Sync!Downloading
<1>3. CASE state = "DONE"
  BY <1>1, <1>3, ToldTable, ToldDiffer DEF Sync!Downloading
<1>4. CASE state \notin { "UNDEFINED", "DONE" }
  BY <1>1, <1>4, ToldTable, ToldDiffer DEF Sync!Downloading
<1> QED
  BY <1>2, <1>3, <1>4

(* What AccountSync sees of a step that changes none of its state. *)
LEMMA Unseen ==
  ASSUME UNCHANGED << announced, live, open, working, stale, asking, suspects >>
  PROVE  UNCHANGED Sync!vars
BY DEF Sync!vars, Outstanding

LEMMA DropCopyImplements ==
  ASSUME Inv, Tidy, DropCopyNext, AnnouncedFollows'
  PROVE  [Sync!Next]_Sync!vars
<1>1. CASE DropCopyReady
  <2>1. announced = << >>
    BY <1>1, ToldTable DEF DropCopyReady, Inv, AnnouncedFollows
  <2>2. announced' = << "READY", "DOWNLOADING" >>
    <3>1. /\ state' = "SUBSCRIBE_NOTIFICATION"
          /\ "SUBSCRIBE_NOTIFICATION" \in States \ { "UNDEFINED", "DONE" }
      BY <1>1 DEF DropCopyReady, Enter, States, SubscribeStates
    <3> QED
      BY <3>1, ToldTable DEF AnnouncedFollows
  <2>3. Outstanding' = Outstanding
    BY <1>1 DEF DropCopyReady, oeVars, Outstanding
  <2>4. Sync!Begin
    BY <1>1, <2>1, <2>2, <2>3 DEF DropCopyReady, omsVars, Sync!Begin
  <2> QED
    BY <2>4 DEF Sync!Next
<1>2. CASE DropCopyDisconnected
  <2>1. announced # << >>
    BY <1>2, StateTold DEF DropCopyDisconnected, Inv
  <2>2. Outstanding' = Outstanding
    BY <1>2 DEF DropCopyDisconnected, Outstanding
  <2>3. Sync!Lose
    BY <1>2, <2>1, <2>2 DEF DropCopyDisconnected, Sync!Lose
  <2> QED
    BY <2>3 DEF Sync!Next
<1>3. ASSUME NEW s \in SubscribeStates, SubscriptionResponse(s)
      PROVE  [Sync!Next]_Sync!vars
  <2> DEFINE n == NextState(s, details_stale_orders)
  <2>1. s \in States \ { "UNDEFINED", "DONE" } /\ state = s
    BY <1>3 DEF SubscriptionResponse, States, SubscribeStates
  <2>2. /\ Enter(n, announced)
        /\ UNCHANGED << live, oeVars, omsVars, open, suspects >>
    BY <1>3 DEF SubscriptionResponse
  <2>3. announced = << "READY", "DOWNLOADING" >>
    BY <2>1, ToldTable DEF Inv, AnnouncedFollows
  <2>4. CASE n = "DONE"
    <3>1. state = "SUBSCRIBE_USER_EVENTS"
      BY <2>1, <2>4, DoneFollows
    <3>2. live /\ suspects = {}
      BY <3>1 DEF Inv, TrustFounded, SuspectsFollowed, EarlyStates, LateStates
    <3>3. announced' = Append(announced, "READY")
      <4>1. announced' = << "READY", "DOWNLOADING", "READY" >>
        BY <2>2, <2>4, ToldTable DEF Enter, AnnouncedFollows
      <4> QED
        BY <2>3, <4>1
    <3>4. Sync!Announce
      BY <2>2, <2>3, <3>2, <3>3
         DEF oeVars, omsVars, Outstanding, Sync!Announce, Sync!Downloading
    <3> QED
      BY <3>4 DEF Sync!Next
  <2>5. CASE n # "DONE"
    <3>1. n \in States \ { "UNDEFINED", "DONE" } /\ state' = n
      BY <2>1, <2>2, <2>5, NextStateType DEF Enter
    <3>2. announced' = announced
      BY <2>3, <3>1, ToldTable DEF AnnouncedFollows
    <3> QED
      BY <2>2, <3>2, Unseen DEF oeVars, omsVars
  <2> QED
    BY <2>4, <2>5
<1>4. ASSUME NEW o \in Orders, NEW what \in { "open", "closed" },
             OrderUpdates(o, what)
      PROVE  [Sync!Next]_Sync!vars
  <2> DEFINE complete == IF what = "open" THEN {} ELSE {o}
  <2>1. what = "closed" => o \notin open
    BY <1>4 DEF OrderUpdates, Tidy, ClosedIsClosed
  <2>2. complete \in SUBSET {o} /\ complete \cap open = {}
    BY <2>1
  <2>3. working' = working \ complete /\ stale' = stale \ {o}
    BY <1>4 DEF OrderUpdates, Confirmed
  <2>4. suspects' = suspects \ {o} /\ UNCHANGED << announced, live, open, asking >>
    BY <1>4 DEF OrderUpdates, dcVars, oeVars
  <2>5. Sync!Update({o}, complete)
    BY <2>2, <2>3, <2>4 DEF Sync!Update, Sync!Confirm, Outstanding
  <2> QED
    BY <2>2, <2>5 DEF Sync!Next
<1>5. CASE DropCopyCheckStaleOrders
  BY <1>5, Unseen DEF DropCopyCheckStaleOrders, dcVars, wsVars, oeVars, omsVars
<1>6. CASE DropCopyCheckRequestQueue
  <2> DEFINE n == NextState(state, QueueOnResponse(state))
  <2>1. /\ state \in States \ { "UNDEFINED", "DONE" }
        /\ state # "SUBSCRIBE_USER_EVENTS"
    BY <1>6 DEF DropCopyCheckRequestQueue, States, GetStates
  <2>2. n # "DONE"
    BY <2>1, DoneFollows
  <2>3. /\ Enter(n, announced)
        /\ UNCHANGED << live, oeVars, omsVars, open, suspects >>
    BY <1>6 DEF DropCopyCheckRequestQueue
  <2>4. n \in States \ { "UNDEFINED", "DONE" } /\ state' = n
    BY <2>1, <2>2, <2>3, NextStateType DEF Enter
  <2>5. announced' = announced
    BY <2>1, <2>4, ToldTable DEF Inv, AnnouncedFollows
  <2> QED
    BY <2>3, <2>5, Unseen DEF oeVars, omsVars
<1> QED
  BY <1>1, <1>2, <1>3, <1>4, <1>5, <1>6 DEF DropCopyNext, DropCopyTimer

LEMMA OrderEntryImplements ==
  ASSUME Inv, Tidy, OrderEntryNext
  PROVE  [Sync!Next]_Sync!vars
<1>1. CASE \/ OrderEntryConnected \/ OrderEntryDisconnected
           \/ \E kind \in ChainKinds : ChainIndexesNoDex(kind)
  BY <1>1, Unseen
     DEF OrderEntryConnected, OrderEntryDisconnected, ChainIndexesNoDex, dcVars,
         wsVars, oeVars, omsVars
<1>2. ASSUME NEW kind \in ChainKinds, SendChain(kind)
      PROVE  [Sync!Next]_Sync!vars
  BY <1>2, Unseen DEF SendChain, dcVars, wsVars, omsVars
<1>3. CASE SendOrderStatus
  <2>1. FoundOrders \in SUBSET Orders
    BY DEF FoundOrders, Inv, TypeOK
  <2>2. Outstanding' = Outstanding \cup FoundOrders
    <3>1. asking' = [ o \in Orders |->
                        IF o \in FoundOrders THEN "sent" ELSE asking[o] ]
      BY <1>3 DEF SendOrderStatus
    <3>2. \A o \in Orders :
            asking'[o] # "no" <=> (asking[o] # "no" \/ o \in FoundOrders)
      BY <3>1
    <3> QED
      BY <2>1, <3>2 DEF Outstanding
  <2>3. suspects' \in { suspects, suspects \ FoundOrders }
    BY <1>3 DEF SendOrderStatus
  <2>4. UNCHANGED << announced, live, open, working, stale >>
    BY <1>3 DEF SendOrderStatus, dcVars, wsVars, omsVars
  <2>5. Sync!Ask(FoundOrders)
    BY <2>2, <2>3, <2>4 DEF Sync!Ask
  <2> QED
    BY <2>1, <2>5 DEF Sync!Next
<1>4. ASSUME NEW kind \in ChainKinds, NEW ok \in BOOLEAN, ChainAck(kind, ok)
      PROVE  [Sync!Next]_Sync!vars
  <2>1. UNCHANGED << announced, live, open, asking >>
    BY <1>4 DEF ChainAck, dcVars, wsVars
  <2>2. CASE kind = "open_orders" /\ ok
    <3>1. /\ Confirmed(snapshot.orders, TRUE, snapshot.early)
          /\ suspects' = suspects \ snapshot.orders
      BY <1>4, <2>2 DEF ChainAck
    <3>2. snapshot.orders \in SUBSET Orders /\ {} \in SUBSET Orders
      BY DEF Inv, TypeOK, Snapshots
    <3>3. Sync!Update(snapshot.orders, {})
      BY <2>1, <3>1 DEF Confirmed, Sync!Update, Sync!Confirm, Outstanding
    <3> QED
      BY <3>2, <3>3 DEF Sync!Next
  <2>3. CASE ~(kind = "open_orders" /\ ok)
    <3>1. UNCHANGED << omsVars, suspects >>
      BY <1>4, <2>3 DEF ChainAck
    <3> QED
      BY <2>1, <3>1, Unseen DEF omsVars
  <2> QED
    BY <2>2, <2>3
<1>5. ASSUME NEW o \in Orders, NEW ok \in BOOLEAN, OrderStatusAck(o, ok)
      PROVE  [Sync!Next]_Sync!vars
  <2>1. UNCHANGED << announced, live, open >>
    BY <1>5 DEF OrderStatusAck, dcVars, wsVars
  <2>2. o \in Outstanding /\ Outstanding' = Outstanding \ {o}
    BY <1>5 DEF OrderStatusAck, Outstanding, Inv, TypeOK
  <2>3. Sync!Answer(o)
    <3>1. CASE ok
      <4> DEFINE complete == IF asking[o] = "open" THEN {} ELSE {o}
      <4>1. /\ working' = working \ complete /\ stale' = stale \ {o}
            /\ suspects' = suspects \ {o}
        BY <1>5, <3>1 DEF OrderStatusAck, Confirmed
      <4>2. asking[o] \in { "open", "closed" }
        BY <1>5, <3>1 DEF OrderStatusAck, Inv, TypeOK
      <4>3. complete \in SUBSET {o} /\ complete \cap open = {}
        BY <4>2 DEF Tidy, ClosedIsClosed
      <4>4. Sync!Confirm({o}, complete)
        BY <2>1, <4>1, <4>3 DEF Sync!Confirm
      <4> QED
        BY <2>2, <4>3, <4>4 DEF Sync!Answer
    <3>2. CASE ~ok
      <4>1. UNCHANGED << omsVars, suspects >>
        BY <1>5, <3>2 DEF OrderStatusAck
      <4> QED
        BY <2>1, <2>2, <4>1 DEF omsVars, Sync!Answer
    <3> QED
      BY <3>1, <3>2
  <2> QED
    BY <2>3 DEF Sync!Next
<1> QED
  BY <1>1, <1>2, <1>3, <1>4, <1>5 DEF OrderEntryNext, OrderEntryTimer

LEMMA EnvironmentImplements ==
  ASSUME Inv, Tidy, EnvironmentNext
  PROVE  [Sync!Next]_Sync!vars
<1>1. ASSUME NEW s \in SubscribeStates, ExchangeSubscribes(s)
      PROVE  [Sync!Next]_Sync!vars
  <2>1. UNCHANGED << announced, open, working, stale, asking, suspects >>
    BY <1>1 DEF ExchangeSubscribes, dcVars, oeVars, omsVars
  <2>2. CASE live' = live
    BY <2>1, <2>2, Unseen
  <2>3. CASE live' # live
    <3>1. live' = TRUE
      BY <1>1, <2>3 DEF ExchangeSubscribes, Inv, TypeOK
    <3>2. state = "SUBSCRIBE_ORDER_UPDATES"
      BY <1>1, <2>3 DEF ExchangeSubscribes, Tidy, OneSubscription, Inv, TypeOK
    <3>3. Sync!Downloading
      BY <3>2, StateTold DEF Inv
    <3>4. Sync!Listen
      BY <2>1, <3>1, <3>3 DEF Sync!Listen, Outstanding
    <3> QED
      BY <3>4 DEF Sync!Next
  <2> QED
    BY <2>2, <2>3
<1>2. ASSUME NEW s \in SubscribeStates, ExchangeRefuses(s)
      PROVE  [Sync!Next]_Sync!vars
  BY <1>2, Unseen DEF ExchangeRefuses, dcVars, oeVars, omsVars
<1>3. CASE ExchangeAnswersOpenOrders
  BY <1>3, Unseen DEF ExchangeAnswersOpenOrders, dcVars, wsVars, omsVars
<1>4. ASSUME NEW o \in Orders, ExchangeCloses(o)
      PROVE  [Sync!Next]_Sync!vars
  <2>1. Sync!Closes(o)
    BY <1>4
       DEF ExchangeCloses, dcVars, oeVars, omsVars, Outstanding, Sync!Closes
  <2> QED
    BY <2>1 DEF Sync!Next
<1>5. ASSUME NEW o \in Orders, ExchangeUpdates(o)
      PROVE  [Sync!Next]_Sync!vars
  BY <1>5, Unseen DEF ExchangeUpdates, dcVars, oeVars, omsVars
<1>6. ASSUME NEW o \in Orders, ExchangeAnswersOrderStatus(o)
      PROVE  [Sync!Next]_Sync!vars
  <2>1. Outstanding' = Outstanding
    BY <1>6 DEF ExchangeAnswersOrderStatus, Outstanding, Inv, TypeOK
  <2>2. UNCHANGED << announced, live, open, working, stale, suspects >>
    BY <1>6 DEF ExchangeAnswersOrderStatus, dcVars, wsVars, omsVars
  <2> QED
    BY <2>1, <2>2 DEF Sync!vars
<1>7. ASSUME NEW o \in Orders, OmsSuspects(o)
      PROVE  [Sync!Next]_Sync!vars
  <2> DEFINE counted == state \in (EarlyStates \ {"UNDEFINED"})
                                    \cup {"GET_OPEN_ORDERS"}
  <2>1. counted => Sync!Downloading
    BY StateTold DEF EarlyStates, Inv
  <2>2. suspects' = IF counted THEN suspects \cup {o} ELSE suspects
    BY <1>7 DEF OmsSuspects
  <2>3. o \in working \ stale /\ stale' = stale \cup {o}
    BY <1>7 DEF OmsSuspects
  <2>4. UNCHANGED << announced, live, open, working, asking >>
    BY <1>7 DEF OmsSuspects, dcVars, wsVars, oeVars
  <2>5. Sync!Doubt(o)
    BY <2>1, <2>2, <2>3, <2>4 DEF Sync!Doubt, Outstanding
  <2> QED
    BY <2>5 DEF Sync!Next
<1>8. ASSUME NEW o \in Orders, OmsForgets(o)
      PROVE  [Sync!Next]_Sync!vars
  <2>1. Sync!Forget(o)
    BY <1>8 DEF OmsForgets, dcVars, wsVars, oeVars, Outstanding, Sync!Forget
  <2> QED
    BY <2>1 DEF Sync!Next
<1>9. CASE RestListsDexes
  BY <1>9, Unseen DEF RestListsDexes, dcVars, wsVars, oeVars, omsVars
<1> QED
  BY <1>1, <1>2, <1>3, <1>4, <1>5, <1>6, <1>7, <1>8, <1>9 DEF EnvironmentNext

(* The account does what AccountSync promises: the READY that follows      *)
(* DOWNLOADING is announced only while order updates are listened to and   *)
(* after every order in doubt has been confirmed or asked about, and no    *)
(* open order is reported complete.                                        *)
THEOREM Implements == Spec => ImplementsSync
<1>1. Init => Sync!Init
  BY DEF Init, Sync!Init, Outstanding
<1>2. Inv /\ Inv' /\ Tidy /\ [Next]_vars => [Sync!Next]_Sync!vars
  <2>1. CASE UNCHANGED vars
    BY <2>1, Unseen DEF vars, dcVars, wsVars, oeVars, omsVars
  <2> QED
    BY <2>1, DropCopyImplements, OrderEntryImplements, EnvironmentImplements
       DEF Next, Running, Inv
<1> QED
  BY <1>1, <1>2, InvHolds, TidyHolds, PTL DEF Spec, ImplementsSync, Sync!Spec

=============================================================================
