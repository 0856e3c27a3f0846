---------------------------- MODULE AccountVars -----------------------------
(***************************************************************************)
(* The state shared by the streams of one account: DropCopy (private web   *)
(* socket), OrderEntry (REST), the Request object between them, the order  *)
(* management system of the host (external) and the exchange (external).   *)
(***************************************************************************)
EXTENDS Naturals, FiniteSets, Sequences, LimitRequest

CONSTANTS
  Orders,           \* the orders of the account the OMS knows
  PlacesOf,         \* [Orders -> the places in shared_.dex of its dex]
  TradesLookback,   \* settings.download.trades_lookback.count() # 0
  MayForget,        \* may the OMS forget an order it has reported stale?
  MaxDex,           \* BOUND: the size shared_.dex may grow to
  MaxDrops          \* BOUND: lost connections, both streams together

ASSUME OrdersAssumption  == IsFiniteSet(Orders)
ASSUME DexAssumption     == PlacesOf \in [Orders -> SUBSET (Nat \ {0})] /\ MaxDex \in Nat
ASSUME SwitchAssumption  == TradesLookback \in BOOLEAN /\ MayForget \in BOOLEAN
ASSUME DropsAssumption   == MaxDrops \in Nat

VARIABLES
  \* DropCopy
  status,                 \* connection_status_ of DropCopy
  announced,              \* what clients were told of this connection
  state,                  \* download_.state()
  \* its web socket
  subs,                   \* subscribe messages the exchange has not read
  acks,                   \* subscription responses on their way back
  live,                   \* orderUpdates is active on this connection
  feed,                   \* order updates on their way to DropCopy
  \* struct Request
  req,                    \* the five mailboxes
  details_stale_orders,
  \* Shared
  dexes,                  \* std::size(shared_.dex)
  ended,                  \* the program has ended
  \* OrderEntry
  oeStatus,               \* connection_status_ of OrderEntry
  chain,                  \* dex index of the outstanding request, 0 = none
  snapshot,               \* exchange's answer to the outstanding openOrders
  asking,                 \* progress of the outstanding orderStatus requests
  askedEarly,             \* ... answered before orderUpdates was subscribed
  download_stale_orders_counter,
  blocked,                \* HISTORY: the OMS knew none of the orders listed
  \* exchange and OMS
  open,                   \* orders open at the exchange
  known,                  \* orders find_order finds
  working,                \* orders not completed according to the OMS
  stale,                  \* get_all_stale_orders: working, not confirmed
  early,                  \* confirmed by an answer older than the feed
  suspects,               \* HISTORY: stale since before the snapshot was used
  drops                   \* BOUND: lost connections so far

dcVars  == << status, announced, state >>
wsVars  == << subs, acks, live, feed >>
reqVars == << req, details_stale_orders >>
shVars  == << dexes, ended >>
oeVars  == << oeStatus, chain, snapshot, asking, askedEarly,
              download_stale_orders_counter, blocked >>
omsVars == << known, working, stale, early >>
vars    == << dcVars, wsVars, reqVars, shVars, oeVars, omsVars, open, suspects,
              drops >>

-----------------------------------------------------------------------------
(* StreamStatus: clients are told the status; said again, it is no news. *)
Announce(told, s) ==
  IF told # << >> /\ told[Len(told)] = s THEN told ELSE Append(told, s)

(* DropCopy::State, less UNDEFINED and DONE *)
SubscribeStates ==
  { "SUBSCRIBE_NOTIFICATION", "SUBSCRIBE_USER_FUNDINGS",
    "SUBSCRIBE_ORDER_UPDATES", "SUBSCRIBE_USER_FILLS",
    "SUBSCRIBE_USER_EVENTS" }

GetStates ==
  { "GET_SPOT_CLEARING_HOUSE_STATE", "GET_CLEARING_HOUSE_STATE",
    "GET_OPEN_ORDERS", "GET_STALE_ORDERS", "GET_USER_FILLS" }

States == SubscribeStates \cup GetStates \cup { "UNDEFINED", "DONE" }

(* The download has not passed SUBSCRIBE_ORDER_UPDATES yet. *)
EarlyStates ==
  { "UNDEFINED", "SUBSCRIBE_NOTIFICATION", "SUBSCRIBE_USER_FUNDINGS",
    "GET_SPOT_CLEARING_HOUSE_STATE", "GET_CLEARING_HOUSE_STATE",
    "SUBSCRIBE_ORDER_UPDATES" }

(* The kinds OrderEntry downloads dex by dex (spot has a single step). *)
ChainKinds == Kinds \ { "stale_orders" }

LastIndex(kind) == IF kind = "spot_clearing_house_state" THEN 1 ELSE dexes

Snapshots == [ taken : BOOLEAN, orders : SUBSET Orders, early : BOOLEAN ]

NoSnapshot == [ taken |-> FALSE, orders |-> {}, early |-> FALSE ]

(* The orders whose status request is outstanding. *)
Outstanding == { o \in Orders : asking[o] # "no" }

(* server::oms: what an order update for o does (external).  It confirms   *)
(* the order; completed orders stay completed.                             *)
Confirmed(os, isOpen, isEarly) ==
  /\ known'   = known
  /\ working' = IF isOpen THEN working ELSE working \ os
  /\ stale'   = stale \ os
  /\ early'   = IF isOpen /\ isEarly THEN early \cup (os \cap working)
                                   ELSE early \ os

=============================================================================
