------------------------------ MODULE DropCopy ------------------------------
(***************************************************************************)
(* gateway::DropCopy, the private web socket of an account.  On every      *)
(* connection it runs a download: subscribe to a channel and wait for the  *)
(* response, or ask OrderEntry for a REST download and poll for the        *)
(* answer, one step after the other.  Clients are told that the stream is  *)
(* READY when the socket is up, before the download, and again at its end. *)
(***************************************************************************)
EXTENDS AccountVars

-----------------------------------------------------------------------------
(* The download: core::Download2 driven by DropCopy::download              *)

KindOf ==
  [ s \in GetStates |->
      CASE s = "GET_SPOT_CLEARING_HOUSE_STATE" -> "spot_clearing_house_state"
        [] s = "GET_CLEARING_HOUSE_STATE"      -> "clearing_house_state"
        [] s = "GET_OPEN_ORDERS"               -> "open_orders"
        [] s = "GET_STALE_ORDERS"              -> "stale_orders"
        [] s = "GET_USER_FILLS"                -> "trades" ]

(* MUTANT of Following: the open orders are downloaded before the feed of  *)
(* order updates is subscribed.                                            *)
FollowingSnapshotFirst(s) ==
  CASE s = "SUBSCRIBE_NOTIFICATION"        -> "SUBSCRIBE_USER_FUNDINGS"
    [] s = "SUBSCRIBE_USER_FUNDINGS"       -> "GET_SPOT_CLEARING_HOUSE_STATE"
    [] s = "GET_SPOT_CLEARING_HOUSE_STATE" -> "GET_CLEARING_HOUSE_STATE"
    [] s = "GET_CLEARING_HOUSE_STATE"      -> "GET_OPEN_ORDERS"
    [] s = "GET_OPEN_ORDERS"               -> "GET_STALE_ORDERS"
    [] s = "GET_STALE_ORDERS"              -> "SUBSCRIBE_ORDER_UPDATES"
    [] s = "SUBSCRIBE_ORDER_UPDATES"       -> "SUBSCRIBE_USER_FILLS"
    [] s = "SUBSCRIBE_USER_FILLS"          -> "GET_USER_FILLS"
    [] s = "GET_USER_FILLS"                -> "SUBSCRIBE_USER_EVENTS"
    [] OTHER                               -> "DONE"

(* MUTANT of Following: fills are taken to be enough of a feed. *)
FollowingWithoutUpdates(s) ==
  CASE s = "SUBSCRIBE_NOTIFICATION"        -> "SUBSCRIBE_USER_FUNDINGS"
    [] s = "SUBSCRIBE_USER_FUNDINGS"       -> "GET_SPOT_CLEARING_HOUSE_STATE"
    [] s = "GET_SPOT_CLEARING_HOUSE_STATE" -> "GET_CLEARING_HOUSE_STATE"
    [] s = "GET_CLEARING_HOUSE_STATE"      -> "GET_OPEN_ORDERS"
    [] s = "GET_OPEN_ORDERS"               -> "GET_STALE_ORDERS"
    [] s = "GET_STALE_ORDERS"              -> "SUBSCRIBE_USER_FILLS"
    [] s = "SUBSCRIBE_USER_FILLS"          -> "GET_USER_FILLS"
    [] s = "GET_USER_FILLS"                -> "SUBSCRIBE_USER_EVENTS"
    [] OTHER                               -> "DONE"

(* enum class State: the states in the order of their declaration *)
Following(s) ==
  CASE s = "SUBSCRIBE_NOTIFICATION"        -> "SUBSCRIBE_USER_FUNDINGS"
    [] s = "SUBSCRIBE_USER_FUNDINGS"       -> "GET_SPOT_CLEARING_HOUSE_STATE"
    [] s = "GET_SPOT_CLEARING_HOUSE_STATE" -> "GET_CLEARING_HOUSE_STATE"
    [] s = "GET_CLEARING_HOUSE_STATE"      -> "SUBSCRIBE_ORDER_UPDATES"
    [] s = "SUBSCRIBE_ORDER_UPDATES"       -> "GET_OPEN_ORDERS"
    [] s = "GET_OPEN_ORDERS"               -> "GET_STALE_ORDERS"
    [] s = "GET_STALE_ORDERS"              -> "SUBSCRIBE_USER_FILLS"
    [] s = "SUBSCRIBE_USER_FILLS"          -> "GET_USER_FILLS"
    [] s = "GET_USER_FILLS"                -> "SUBSCRIBE_USER_EVENTS"
    [] OTHER                               -> "DONE"

(* download() returned 0: there is nothing to wait for in this state. *)
Skips(s, details) ==
  \/ s = "GET_STALE_ORDERS" /\ details = {}
  \/ s = "GET_USER_FILLS" /\ ~TradesLookback

(* The state Download2 moves to after s.  Two states that may be skipped   *)
(* are never adjacent.                                                     *)
NextState(s, details) ==
  LET n == Following(s)
  IN  IF Skips(n, details) THEN Following(n) ELSE n

(* DropCopy::download(s): publish, after what has been told before, then   *)
(* subscribe or request.                                                   *)
Enter(s, told) ==
  /\ state'  = s
  /\ status' = IF s = "DONE" THEN "READY" ELSE "DOWNLOADING"
  /\ announced' = Announce(told, status')
  /\ subs'   = IF s \in SubscribeStates THEN subs \cup {s} ELSE subs
  /\ req'    = IF s \in GetStates
               THEN [ req EXCEPT ![KindOf[s]] = Requested(@) ]
               ELSE req

-----------------------------------------------------------------------------
(* web::socket::Ready: READY is published, then download_.begin *)
DropCopyReady ==
  /\ state = "UNDEFINED"
  /\ Enter("SUBSCRIBE_NOTIFICATION", Announce(announced, "READY"))
  /\ suspects' = stale
  /\ UNCHANGED << acks, live, feed, details_stale_orders, shVars, oeVars,
                  omsVars, open, drops >>

(* web::socket::Disconnected: everything on the connection is lost.  The   *)
(* OMS (external) no longer trusts any of the account's working orders.    *)
DropCopyDisconnected ==
  /\ state # "UNDEFINED"
  /\ drops < MaxDrops
  /\ drops'  = drops + 1
  /\ status' = "DISCONNECTED" /\ announced' = << >>
  /\ state'  = "UNDEFINED"
  /\ subs' = {} /\ acks' = {} /\ live' = FALSE /\ feed' = {}
  /\ stale'      = working
  /\ early'      = {}
  /\ snapshot'   = [ snapshot EXCEPT !.early = snapshot.taken ]
  /\ askedEarly' = { o \in Orders : asking[o] \in { "open", "closed" } }
  /\ suspects'   = {}
  /\ UNCHANGED << reqVars, shVars, oeStatus, chain, asking,
                  download_stale_orders_counter, blocked, known, working,
                  open >>

(* SubscriptionResponse: download_.check(state) *)
SubscriptionResponse(s) ==
  /\ s \in acks
  /\ s = state
  /\ acks' = acks \ {s}
  /\ Enter(NextState(s, details_stale_orders), announced)
  /\ UNCHANGED << live, feed, details_stale_orders, shVars, oeVars, omsVars,
                  open, suspects, drops >>

(* OrderUpdates: an incremental update is dispatched to the OMS.           *)
OrderUpdates(o, what) ==
  /\ << o, what >> \in feed
  /\ what = "closed" => << o, "open" >> \notin feed  \* order of the channel
  /\ feed' = feed \ { << o, what >> }
  /\ Confirmed({o}, what = "open", FALSE)
  /\ suspects' = suspects \ {o}
  /\ UNCHANGED << dcVars, subs, acks, live, reqVars, shVars, oeVars, open,
                  drops >>

-----------------------------------------------------------------------------
(* Timer                                                                   *)

(* check_stale_orders() adds every stale order that is not listed yet. *)
NewlyStale == stale \ details_stale_orders

(* MUTANT of PeriodicRequest: the request is made whether or not an order  *)
(* was added.                                                              *)
PeriodicRequestAlways(new) ==
  [ req EXCEPT !["stale_orders"] = Requested(@) ]

(* MUTANT of PeriodicRequest: the result of the check is not looked at. *)
PeriodicRequestNever(new) == req

(* The periodic check asks only when an order was added. *)
PeriodicRequest(new) ==
  IF new = {} THEN req
              ELSE [ req EXCEPT !["stale_orders"] = Requested(@) ]

(* Timer while READY, next_check_stale_orders_ has passed; the download is *)
(* DONE, so that check_request_queue has nothing to do.                    *)
DropCopyCheckStaleOrders ==
  /\ status = "READY"
  /\ details_stale_orders' = details_stale_orders \cup NewlyStale
  /\ req' = PeriodicRequest(NewlyStale)
  /\ UNCHANGED << dcVars, wsVars, shVars, oeVars, omsVars, open, suspects,
                  drops >>

(* MUTANT of QueueOnResponse: stale orders are collected after the         *)
(* download has been updated, so that the next state does not see them.    *)
QueueOnResponseLate(s) == details_stale_orders

(* check_stale_orders is called *before* updating the download. *)
QueueOnResponse(s) ==
  IF s = "GET_OPEN_ORDERS" THEN details_stale_orders \cup NewlyStale
                           ELSE details_stale_orders

(* log::fatal("Unexpected") in check_request_queue *)
UnexpectedDetails ==
  /\ state = "GET_STALE_ORDERS"
  /\ HasResponse(req["stale_orders"])
  /\ details_stale_orders # {}

(* Timer while downloading: check_request_queue polls the awaited answer. *)
DropCopyCheckRequestQueue ==
  /\ state \in GetStates
  /\ HasResponse(req[KindOf[state]])
  /\ ~UnexpectedDetails
  /\ details_stale_orders' = QueueOnResponse(state)
  /\ Enter(NextState(state, QueueOnResponse(state)), announced)
  /\ UNCHANGED << acks, live, feed, shVars, oeVars, omsVars, open, suspects,
                  drops >>

DropCopyTimer ==
  \/ DropCopyCheckStaleOrders
  \/ DropCopyCheckRequestQueue

DropCopyNext ==
  \/ DropCopyReady
  \/ DropCopyDisconnected
  \/ \E s \in SubscribeStates : SubscriptionResponse(s)
  \/ \E o \in Orders, what \in { "open", "closed" } : OrderUpdates(o, what)
  \/ DropCopyTimer

=============================================================================
