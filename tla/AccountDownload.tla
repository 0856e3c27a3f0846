-------------------------- MODULE AccountDownload ---------------------------
(***************************************************************************)
(* The account of the gateway: DropCopy and OrderEntry, composed with the  *)
(* exchange and the OMS of the host.  The two streams share one thread; a  *)
(* step is one handler.                                                    *)
(***************************************************************************)
EXTENDS DropCopy, OrderEntry

-----------------------------------------------------------------------------
(* The exchange (external)                                                 *)

(* The exchange reads a subscription and confirms it. *)
ExchangeSubscribes(s) ==
  /\ s \in subs
  /\ subs' = subs \ {s}
  /\ acks' = acks \cup {s}
  /\ live' = (live \/ s = "SUBSCRIBE_ORDER_UPDATES")
  /\ UNCHANGED << dcVars, feed, reqVars, shVars, oeVars, omsVars, open,
                  suspects, drops >>

(* The exchange refuses a subscription.  DropCopy logs the message of the  *)
(* Error channel and does nothing about it.                                *)
ExchangeRefuses(s) ==
  /\ s \in subs
  /\ subs' = subs \ {s}
  /\ UNCHANGED << dcVars, acks, live, feed, reqVars, shVars, oeVars, omsVars,
                  open, suspects, drops >>

(* An order fills or is cancelled; an active feed is told. *)
ExchangeCloses(o) ==
  /\ o \in open
  /\ open' = open \ {o}
  /\ feed' = IF live THEN feed \cup { << o, "closed" >> } ELSE feed
  /\ UNCHANGED << dcVars, subs, acks, live, reqVars, shVars, oeVars, omsVars,
                  suspects, drops >>

(* The exchange reports on an order that stays open. *)
ExchangeUpdates(o) ==
  /\ o \in open /\ live
  /\ feed' = feed \cup { << o, "open" >> }
  /\ UNCHANGED << dcVars, subs, acks, live, reqVars, shVars, oeVars, omsVars,
                  open, suspects, drops >>

(* The exchange answers openOrders for the dex asked. *)
ExchangeAnswersOpenOrders ==
  /\ chain["open_orders"] # 0
  /\ ~snapshot.taken
  /\ snapshot' = [ taken  |-> TRUE,
                   orders |-> { o \in open : chain["open_orders"] \in PlacesOf[o] },
                   early  |-> state \in EarlyStates ]
  /\ UNCHANGED << dcVars, wsVars, reqVars, shVars, oeStatus, chain, asking,
                  askedEarly, download_stale_orders_counter, blocked, omsVars,
                  open, suspects, drops >>

(* The exchange answers orderStatus. *)
ExchangeAnswersOrderStatus(o) ==
  /\ asking[o] = "sent"
  /\ asking' = [ asking EXCEPT ![o] = IF o \in open THEN "open" ELSE "closed" ]
  /\ askedEarly' = IF state \in EarlyStates THEN askedEarly \cup {o}
                                            ELSE askedEarly \ {o}
  /\ UNCHANGED << dcVars, wsVars, reqVars, shVars, oeStatus, chain, snapshot,
                  download_stale_orders_counter, blocked, omsVars, open,
                  suspects, drops >>

(* The OMS loses trust in a working order, for instance because a request  *)
(* timed out.                                                              *)
OmsSuspects(o) ==
  /\ o \in working \ stale
  /\ stale' = stale \cup {o}
  /\ suspects' = IF state \in (EarlyStates \ {"UNDEFINED"}) \cup {"GET_OPEN_ORDERS"}
                 THEN suspects \cup {o} ELSE suspects
  /\ UNCHANGED << dcVars, wsVars, reqVars, shVars, oeVars, known, working, early,
                  open, drops >>

(* The OMS drops an order: find_order does not find it any more. *)
OmsForgets(o) ==
  /\ MayForget /\ o \in known
  /\ known' = known \ {o} /\ working' = working \ {o}
  /\ stale' = stale \ {o} /\ early' = early \ {o}
  /\ suspects' = suspects \ {o}
  /\ UNCHANGED << dcVars, wsVars, reqVars, shVars, oeVars, open, drops >>

-----------------------------------------------------------------------------
(* Rest: GetPerpDexsAck appends the dexes of the settings to shared_.dex,  *)
(* the first of them and every time the list is downloaded.                *)
RestListsDexes ==
  /\ dexes' \in (dexes + 1)..MaxDex
  /\ UNCHANGED << dcVars, wsVars, reqVars, ended, oeVars, omsVars, open,
                  suspects, drops >>

EnvironmentNext ==
  \/ \E s \in SubscribeStates : ExchangeSubscribes(s) \/ ExchangeRefuses(s)
  \/ ExchangeAnswersOpenOrders
  \/ RestListsDexes
  \/ \E o \in Orders : \/ ExchangeCloses(o)
                       \/ ExchangeUpdates(o)
                       \/ ExchangeAnswersOrderStatus(o)
                       \/ OmsSuspects(o)
                       \/ OmsForgets(o)

-----------------------------------------------------------------------------
(* Start-up: the OMS has restored orders nobody has confirmed yet; the     *)
(* dexes may have been listed before the streams of the account are made.  *)
Init ==
  /\ status = "DISCONNECTED" /\ announced = << >> /\ state = "UNDEFINED"
  /\ subs = {} /\ acks = {} /\ live = FALSE /\ feed = {}
  /\ req = [ k \in Kinds |-> NewMailbox ]
  /\ details_stale_orders = {}
  /\ dexes \in 0..MaxDex /\ ended = FALSE
  /\ oeStatus = "DISCONNECTED"
  /\ chain = [ k \in ChainKinds |-> 0 ]
  /\ snapshot = NoSnapshot
  /\ asking = [ o \in Orders |-> "no" ]
  /\ askedEarly = {}
  /\ download_stale_orders_counter = 0
  /\ blocked = FALSE
  /\ open \in SUBSET Orders
  /\ known = Orders /\ working = Orders /\ stale = Orders /\ early = {}
  /\ suspects = {}
  /\ drops = 0

(* A step of a program that has not ended. *)
Running(action) == ~ended /\ action

Next == Running(DropCopyNext \/ OrderEntryNext \/ EnvironmentNext)

Spec == Init /\ [][Next]_vars

(* The timers fire, connections come back (always_reconnect), requests are *)
(* answered or time out.  An order the gateway keeps asking about is       *)
(* answered in the end: errors do not last for ever.                       *)
Fairness ==
  /\ WF_vars(Running(DropCopyReady))
  /\ WF_vars(Running(DropCopyCheckStaleOrders))
  /\ WF_vars(Running(DropCopyCheckRequestQueue))
  /\ WF_vars(Running(OrderEntryConnected))
  /\ WF_vars(Running(OrderEntryTimer))
  /\ \A s \in SubscribeStates : /\ WF_vars(Running(ExchangeSubscribes(s)))
                                /\ WF_vars(Running(SubscriptionResponse(s)))
  /\ \A k \in ChainKinds :
       WF_vars(Running(\E ok \in BOOLEAN : ChainAck(k, ok)))
  /\ \A o \in Orders :
       /\ WF_vars(Running(\E ok \in BOOLEAN : OrderStatusAck(o, ok)))
       /\ SF_vars(Running(ExchangeAnswersOrderStatus(o)))
       /\ SF_vars(Running(OrderStatusAck(o, TRUE)))

LiveSpec == Spec /\ Fairness

-----------------------------------------------------------------------------
(* Properties                                                              *)

(* Types, and the ranges the handlers keep. *)
TypeOK ==
  /\ status \in { "DISCONNECTED", "DOWNLOADING", "READY" }
  /\ announced \in Seq({ "DOWNLOADING", "READY" })
  /\ state \in States
  /\ subs \subseteq SubscribeStates /\ acks \subseteq SubscribeStates
  /\ live \in BOOLEAN
  /\ feed \subseteq Orders \X { "open", "closed" }
  /\ req \in [ Kinds -> Mailbox ]
  /\ details_stale_orders \subseteq Orders
  /\ dexes \in 0..MaxDex /\ ended \in BOOLEAN /\ blocked \in BOOLEAN
  /\ oeStatus \in { "DISCONNECTED", "READY" }
  /\ chain \in [ ChainKinds -> Nat ] /\ \A k \in ChainKinds : chain[k] <= LastIndex(k)
  /\ snapshot \in Snapshots
  /\ asking \in [ Orders -> { "no", "sent", "open", "closed" } ]
  /\ askedEarly \subseteq Orders
  /\ download_stale_orders_counter \in Nat
  /\ open \subseteq Orders
  /\ known \subseteq Orders /\ working \subseteq known
  /\ stale \subseteq working /\ early \subseteq working
  /\ suspects \subseteq Orders
  /\ drops \in 0..MaxDrops

(* Neither log::fatal("Unexpected") is reached: the answer DropCopy waits  *)
(* for in GET_STALE_ORDERS never finds orders still queued, and no status  *)
(* answer arrives that OrderEntry has not counted, however downloads of    *)
(* successive connections and periodic checks overlap.                     *)
NoUnexpected == ~UnexpectedDetails /\ ~UnexpectedOrderStatusAck

(* A stale order is queued exactly while the request to look at the queue  *)
(* waits: queued without a request, it is never asked about, as the        *)
(* periodic check asks only for orders it adds.  The mailbox is on the     *)
(* wire exactly while a status is outstanding, or for ever once the OMS    *)
(* knew none of the orders queued: no answer is then left that commits it. *)
QueueMatchesRequest ==
  /\ (details_stale_orders # {}) <=> req["stale_orders"].pending
  /\ req["stale_orders"].inflight <=> (Outstanding # {} \/ blocked)

(* An order the OMS believes open, trusts, and did not confirm from an     *)
(* answer older than the feed, is open at the exchange or its closing is   *)
(* on its way: no closing falls between the snapshot and the feed.         *)
TrustedOrdersAreOpen ==
  \A o \in working \ (stale \cup early) :
    o \in open \/ << o, "closed" >> \in feed

(* On every connection the account is announced READY twice: when the      *)
(* socket is up, which promises nothing, and after DOWNLOADING.  By then   *)
(* order updates are active, and every order that was not trusted when the *)
(* open orders were used has been confirmed, is not known to the OMS any   *)
(* more, or its status has been asked for.                                 *)
ReadyMeansAsked ==
  announced = << "READY", "DOWNLOADING", "READY" >> => live /\ suspects = {}

(* The download waits for a response to a subscription that was refused.   *)
Refused == state \in SubscribeStates \ (subs \cup acks)

(* What nothing but a new connection, or nothing at all, gets out of.      *)
Stuck == Refused \/ blocked \/ ended

(* A download that has begun ends, READY or by losing the connection,      *)
(* although every REST answer may fail.  Three things it waits for for     *)
(* ever: a subscription that is refused, a mailbox that is blocked because *)
(* no queued order was found, and a program that has ended.                *)
DownloadCompletes ==
  (state # "UNDEFINED") ~> (state \in { "UNDEFINED", "DONE" } \/ Stuck)

(* A stale order does not stay stale, although every answer may fail and   *)
(* the failure is only logged, unless the download waits for ever.         *)
EventuallyConfirmed ==
  \A o \in Orders : (o \in stale) ~> (o \notin stale \/ Stuck)

(* Download and order updates, over five mailboxes and two connections,    *)
(* are one of the ways to keep the promise of AccountSync.                 *)
Sync == INSTANCE AccountSync WITH
  listening <- live, asked <- Outstanding, unasked <- suspects

ImplementsSync == Sync!Spec

=============================================================================
