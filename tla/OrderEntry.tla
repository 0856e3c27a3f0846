----------------------------- MODULE OrderEntry -----------------------------
(***************************************************************************)
(* gateway::OrderEntry, the REST stream of an account, as the server of    *)
(* the downloads DropCopy asks for.  A download is a chain of requests,    *)
(* one per dex, each sent when the previous one has succeeded; the status  *)
(* of stale orders is one request per order, counted down.                 *)
(***************************************************************************)
EXTENDS AccountVars

-----------------------------------------------------------------------------
(* web::rest::Connected and Disconnected *)
OrderEntryConnected ==
  /\ oeStatus = "DISCONNECTED"
  /\ oeStatus' = "READY"
  /\ UNCHANGED << dcVars, wsVars, reqVars, shVars, chain, snapshot, asking,
                  askedEarly, download_stale_orders_counter, blocked, omsVars,
                  open, suspects, drops >>

OrderEntryDisconnected ==
  /\ oeStatus = "READY"
  /\ drops < MaxDrops
  /\ drops' = drops + 1
  /\ oeStatus' = "DISCONNECTED"
  /\ UNCHANGED << dcVars, wsVars, reqVars, shVars, chain, snapshot, asking,
                  askedEarly, download_stale_orders_counter, blocked, omsVars,
                  open, suspects >>

-----------------------------------------------------------------------------
(* Timer: check_request_queue                                              *)

(* The kinds in the order check_request_queue looks at them. *)
Before(kind) ==
  CASE kind = "spot_clearing_house_state" -> {}
    [] kind = "clearing_house_state" -> { "spot_clearing_house_state" }
    [] kind = "open_orders" ->
         { "spot_clearing_house_state", "clearing_house_state" }
    [] kind = "stale_orders" ->
         { "spot_clearing_house_state", "clearing_house_state", "open_orders" }
    [] kind = "trades" -> Kinds \ { "trades" }

(* The one request this Timer hands out: the mailboxes allow one on the    *)
(* wire, and the first that waits takes it.                                *)
HandsOut(kind) ==
  /\ oeStatus = "READY"
  /\ RequestReady(req)
  /\ req[kind].pending
  /\ \A k \in Before(kind) : ~req[k].pending

(* assert(index < std::size(shared_.dex)): the first request of a chain is *)
(* made without looking at the list, and the first element of an empty     *)
(* vector is at no address.  The program ends, with assertions or without. *)
IndexesNoDex(kind) == kind # "spot_clearing_house_state" /\ dexes = 0

ChainIndexesNoDex(kind) ==
  /\ kind \in ChainKinds
  /\ HandsOut(kind) /\ IndexesNoDex(kind)
  /\ ended' = TRUE
  /\ UNCHANGED << dcVars, wsVars, reqVars, dexes, oeVars, omsVars, open,
                  suspects, drops >>

SendChain(kind) ==
  /\ kind \in ChainKinds
  /\ HandsOut(kind) /\ ~IndexesNoDex(kind)
  /\ req'   = [ req EXCEPT ![kind] = HandedOut(@) ]
  /\ chain' = [ chain EXCEPT ![kind] = 1 ]
  /\ UNCHANGED << dcVars, wsVars, details_stale_orders, shVars, oeStatus,
                  snapshot, asking, askedEarly, download_stale_orders_counter,
                  blocked, omsVars, open, suspects, drops >>

(* MUTANT of QueueAfterSend: details_stale_orders is not cleared. *)
QueueAfterSendKept(details) == details

(* request_.details_stale_orders.clear() *)
QueueAfterSend(details) == {}

(* The listed orders the OMS still finds. *)
FoundOrders == details_stale_orders \cap known

(* One get_order_status for each.  If there is none, none will be answered *)
(* and the mailbox is not committed.                                       *)
SendOrderStatus ==
  /\ HandsOut("stale_orders")
  /\ asking' = [ o \in Orders |->
                   IF o \in FoundOrders THEN "sent" ELSE asking[o] ]
  /\ download_stale_orders_counter' =
       download_stale_orders_counter + Cardinality(FoundOrders)
  /\ blocked' = (blocked \/ FoundOrders = {})
  /\ req' = [ req EXCEPT !["stale_orders"] = HandedOut(@) ]
  /\ details_stale_orders' = QueueAfterSend(details_stale_orders)
  /\ suspects' = IF state = "GET_STALE_ORDERS"
                 THEN suspects \ FoundOrders ELSE suspects
  /\ UNCHANGED << dcVars, wsVars, shVars, oeStatus, chain, snapshot, askedEarly,
                  omsVars, open, drops >>

OrderEntryTimer ==
  \/ \E kind \in ChainKinds : SendChain(kind) \/ ChainIndexesNoDex(kind)
  \/ SendOrderStatus

-----------------------------------------------------------------------------
(* Responses                                                               *)

(* MUTANT of Finished: a failed request of the chain does not end it. *)
FinishedOnSuccessOnly(kind, ok) == ok /\ chain[kind] >= LastIndex(kind)

(* MUTANT of Finished: one step past the last dex. *)
FinishedPastLast(kind, ok) == ~ok \/ chain[kind] > LastIndex(kind)

(* The local "finished": an error ends the chain as the last dex does. *)
Finished(kind, ok) == ~ok \/ chain[kind] >= LastIndex(kind)

(* The callback of the outstanding request of a chain.  A successful       *)
(* openOrders answer is dispatched to the OMS as a snapshot of its dex.    *)
ChainAck(kind, ok) ==
  /\ chain[kind] # 0
  /\ kind = "open_orders" /\ ok => snapshot.taken
  /\ IF Finished(kind, ok)
     THEN /\ chain' = [ chain EXCEPT ![kind] = 0 ]
          /\ req'   = [ req EXCEPT ![kind] = Committed(@) ]
     ELSE /\ chain' = [ chain EXCEPT ![kind] =
                          IF ok THEN @ + 1 ELSE 0 ]
          /\ UNCHANGED req
  /\ IF kind = "open_orders"
     THEN snapshot' = NoSnapshot ELSE UNCHANGED snapshot
  /\ IF kind = "open_orders" /\ ok
     THEN /\ Confirmed(snapshot.orders, TRUE, snapshot.early)
          /\ suspects' = suspects \ snapshot.orders
     ELSE UNCHANGED << omsVars, suspects >>
  /\ UNCHANGED << dcVars, wsVars, details_stale_orders, shVars, oeStatus,
                  asking, askedEarly, download_stale_orders_counter, blocked,
                  open, drops >>

(* log::fatal("Unexpected") in get_order_status_ack *)
UnexpectedOrderStatusAck ==
  Outstanding # {} /\ download_stale_orders_counter = 0

(* The mailbox is committed by the answer that ends the count. *)
StaleCommitted(remaining) ==
  IF remaining = 0 THEN [ req EXCEPT !["stale_orders"] = Committed(@) ] ELSE req

(* The callback of one orderStatus request: every answer, good or bad,     *)
(* counts; a good one is dispatched to the OMS.                            *)
OrderStatusAck(o, ok) ==
  /\ asking[o] # "no"
  /\ ok => asking[o] # "sent"
  /\ ~UnexpectedOrderStatusAck
  /\ asking'     = [ asking EXCEPT ![o] = "no" ]
  /\ askedEarly' = askedEarly \ {o}
  /\ download_stale_orders_counter' = download_stale_orders_counter - 1
  /\ req' = StaleCommitted(download_stale_orders_counter')
  /\ IF ok THEN /\ Confirmed({o}, asking[o] = "open", o \in askedEarly)
                /\ suspects' = suspects \ {o}
           ELSE UNCHANGED << omsVars, suspects >>
  /\ UNCHANGED << dcVars, wsVars, details_stale_orders, shVars, oeStatus, chain,
                  snapshot, blocked, open, drops >>

OrderEntryNext ==
  \/ OrderEntryConnected
  \/ OrderEntryDisconnected
  \/ OrderEntryTimer
  \/ \E kind \in ChainKinds, ok \in BOOLEAN : ChainAck(kind, ok)
  \/ \E o \in Orders, ok \in BOOLEAN : OrderStatusAck(o, ok)

=============================================================================
