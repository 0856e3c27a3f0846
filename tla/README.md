# A verification project for roq-hyperliquid

`roq-hyperliquid` is a gateway between trading clients of the roq framework and
the Hyperliquid exchange.  It downloads reference data over REST, subscribes to
market data over public web sockets, keeps the orders of an account in step with
the exchange over a private web socket and REST, and sends signed order actions.

This directory holds TLA+ modules that model the parts of the gateway whose
correctness depends on the order of events, TLC configurations that check them on
small instances, and proofs, checked by TLAPS, that hold for every instance.
Paths below are relative to `src/roq/hyperliquid/`.  `PROJECT.json` says, for every
definition that models code, which lines it stands for.

Contents: [1 The system](#1-the-system), [2 The modules](#2-the-modules),
[3 What is outside the repository](#3-what-is-outside-the-repository),
[4 The runs](#4-the-runs), [5 Fairness](#5-fairness), [6 The proofs](#6-the-proofs),
[7 Findings](#7-findings), [8 Behaviour worth knowing](#8-behaviour-worth-knowing),
[9 What is not modelled](#9-what-is-not-modelled), [10 The plan](#10-the-plan).

## 1 The system

The gateway is one process with one event loop.  A handler runs to its end before
the next begins, so what interleaves are *events*: timers, connections that come up
and go down, messages of several web sockets, answers to REST requests, and requests
of clients.  The hard part is that one job is spread over several handlers, often of
two objects that talk through shared fields, while connections come and go between
any two of them.

    clients --- Controller ---+--- Rest            reference data (REST)
       (OMS)        |         +--- MarketData*     public web sockets, one per slice
                    |         +--- DropCopy        private web socket of an account
                  Shared      |      | Request     (mailboxes)
             dex, symbols,    +--- OrderEntry      REST of an account
             Throttle, ...    +--- WebSocket       order actions over a web socket
                                     | Account: Crypto (nonce)

| component | state | operations | what makes it hard | correct if |
|---|---|---|---|---|
| `gateway/drop_copy` | connection status, download state (12 values) | connect, lose the connection, subscription responses, order updates, two timers | the download waits for answers that OrderEntry gets on another connection; it restarts while the requests of the last one are still under way | the READY after DOWNLOADING means that every order is accounted for; no closing is missed; no unexpected answer (`log::fatal`) |
| `gateway/order_entry` (downloads) | connection status, chain of requests over the dex, a counter of status requests | timer looks at the mailboxes, answers and errors | several requests under way, answers in any order, failures that are only logged | every accepted request is committed exactly when all its parts have been answered |
| `gateway/request` | five mailboxes, the list of stale orders | request, hand out, commit, has_response | list and mailbox are updated by different handlers | an order is queued exactly if a request waits |
| `gateway/order_entry`, `gateway/web_socket` (order actions), `protocol/json/*ack_parser` | nothing but callbacks, resp. the id in the message | create, cancel, their answers and errors; the connection | answers come after order updates, after later requests, after the OMS has forgotten the order, or never | an answer reaches the order and the request it is about; no refusal is lost |
| `tools/encoder`, `tools/crypto`, `gateway/account` | the last nonce | sign | bursts within a millisecond, two streams that share the nonce, a clock that is stepped, restarts | nonces increase; what is signed is what is sent |
| `gateway/rest` | connection, download state, requests | connect, lose the connection, three answers, errors and retries | requests are repeated while earlier ones are under way; a download continues on another connection | READY means all symbols; each dex of the list is asked |
| `gateway/controller` | the streams | SymbolsUpdate, Subscribe, routing of actions | symbols arrive from the download and from clients, in any order, and create streams | each symbol is in one slice; the order streams have what they need |
| `gateway/market_data` | connection | connect, lose the connection, subscribe a slice or its new part | new symbols arrive while a connection is down, being made, or up | each symbol is subscribed once on its connection |
| `gateway/market_data` (trades) | a buffer shared by all streams | a message with trades | groups within a message, leftovers of another | a trade *first* goes out under its own coin and time (8) |
| `gateway/market_data` (books) | buffers shared by all streams; what clients were told last | `l2Book`, `bbo` | streams come and go, a snapshot is the only repair, one-sided messages publish nothing | clients have the exchange's book when nothing is on its way |
| `tools/tick_size_steps`, `tools/conversions`, `tools/encoder` (orders), numbers of symbols in `gateway/rest` | none but the list of dex | number a symbol, publish its steps, round a price and a size, write a number | tables and rounding that must agree, powers of ten, two roundings in a row, a list of dex that grows | a symbol keeps a number of its own; a price that is sent is allowed and near the one asked for |
| `tools/throttle` | suspend_until_, last Retry-After | HTTP header, HTTP end | one object for all connections | the longest wait is honoured, none is shortened |
| `gateway/shared`, `gateway/account` | lists, buffers, nonce | | written by one stream, read by another | as above |
| `protocol/json/map`, `utils` | none | tables from one enumeration to another | a value that is not in the table | not modelled (9) |
| `gateway/config`, `settings`, `api`, `flags`, applications, bridges, generated messages | none that changes | start-up | none | not modelled |

`PROJECT.json` lists 39 *hazards*: places in this code where a particular order
of events could do harm and a unit test would hardly go, with the properties that
would find it, or the reason why there is none.

## 2 The modules

Modules that only declare constants and variables, and helpers for them, are named
`...Vars`.  A module for a class `EXTENDS` the variables, has one action for each
handler, and leaves what it does not touch `UNCHANGED` as whole tuples.  The top module
of each system adds the environment, `Init`, `Next`, `Spec` and the properties.

    LimitRequest <- AccountVars <- DropCopy, OrderEntry <- AccountDownload
    ReferenceVars <- MarketData <- Controller <- Rest <- ReferenceData
    ActionVars <- ActionRequests <- RestActions <- WebSocket <- OrderActions
    TickSizeSteps <- Conversions <- OrderPrices
    TradeSummaries <- MarketFeed
    Signer      Throttle      Induction (for proofs)

    AccountDownload ==> AccountSync      OrderActions ==> OrderLifecycle

`A <- B` says that B extends A, `A ==> B` that A implements the abstract specification B: A
has an `INSTANCE B WITH ...` and a property `Implements...`.  `MC<System>` defines small sets for a `.cfg`; `<System>_proofs` holds the theorems, those of a
refinement with those of the detailed module.  `Induction` holds what the proofs need of the natural
numbers (6).  An
operator whose comment begins with MUTANT is a plausible bug: the definition it
belongs to, replaced by it, must break a property.

### AccountDownload: DropCopy, OrderEntry and the OMS

*State.*  `status` and `state` are `connection_status_` and `download_.state()` of DropCopy;
`req` are the mailboxes of `gateway/request.hpp`, each `pending` (asked for, not handed out),
`inflight` (handed out, not committed) and `responded`; `details_stale_orders` is `Request::Details`; `chain[k]` is the dex
index of the request of kind k under way (0: none); `asking[o]` is the progress of the
`orderStatus` request for order o; `download_stale_orders_counter` is the field of that name.
`announced` is the sequence of states that clients were told of the present connection; `dexes` the size of
`shared_.dex`, which is 0 before the first list and may grow with each other; `ended` says that an index into the
empty list has ended the program.  The
OMS (external) is four sets: the orders it still knows (`known`: `find_order` finds them), those it believes `working`, those of them that are
`stale` (what `get_all_stale_orders` returns), and those confirmed by an answer that is `early`,
older than the order updates.  `open` is the truth, at the exchange.  `blocked` is a history variable: the
OMS knew none of the orders that were listed, and the mailbox is not committed any more.

*Actions.*  `DropCopyReady` (which announces READY, then begins the download, which announces DOWNLOADING), `DropCopyDisconnected`, `SubscriptionResponse`, `OrderUpdates`, and the two halves of
the timer, `DropCopyCheckStaleOrders` and `DropCopyCheckRequestQueue`; `OrderEntryConnected`, `OrderEntryDisconnected`,
`SendChain` and `SendOrderStatus` (the timer, which hands out the first mailbox that is
pending, in the order of the code), `ChainIndexesNoDex` (the same with an empty list of dex), `ChainAck` and `OrderStatusAck` with an answer that may be an
error.  An `Enter(s)` makes the whole transition: it skips the states the code skips,
subscribes or fills the mailbox.

*Environment.*  The exchange confirms subscriptions or refuses them (on the Error channel, which
DropCopy logs), closes orders (and tells an active
feed), answers `openOrders` and `orderStatus` at an instant between request and response: an
answer may be old when it arrives.  The OMS may suspect an order at any time, and may forget it.
`RestListsDexes` lets the list of dex grow.

### AccountSync: what the account promises

The five mailboxes, two connections, the chains and counters of `AccountDownload` are there so
that a client may believe three things, and `AccountSync` says no more than these.  A connection is
announced READY, DOWNLOADING and READY: the first READY promises nothing, as the code says it when the socket is
up (`Begin`), and the last is announced only while order updates are listened to and after every order in doubt has
been confirmed or asked about, unless the OMS has dropped it (`Announce`); the loss of the connection puts all orders in doubt
(`Lose`); an order is reported complete only if it is (`Confirm`).  `announced` is the same in both; the mapping takes
`listening` from the feed that is active, `asked` from the status requests
that are outstanding, and `unasked` from `suspects`, the orders a download must still look at.

### ReferenceData: Rest, Controller, MarketData

*State.*  `connected`, `connection_status`, `state`, `retrying` are Rest and its `core::Download`; `requests` are
the REST requests that have not been answered, each with the download state it was
made in and the index of the dex, `lost` once their connection is gone; `dex`,
`all_symbols`, `symbols` are the lists in Shared; `market_data[i]` has for stream i whether it is
ready and what it has sent on its present connection; `order_streams` says that
the Controller has made OrderEntry, DropCopy and WebSocket.

*Actions.*  `RestConnected`, `RestDisconnected`, `RestRetries`, `GetSpotMetaAck`, `GetPerpDexsAck`, `GetMetaAck` (which
calls the Controller's `SymbolsUpdate`, which creates streams and lets the existing ones
subscribe, all in one step), `RestError`, `RestSkipped` (an answer in another state of the
download), `ControllerSubscribe` (a client), `MarketDataReady`, `MarketDataDisconnected`.

### OrderActions: OrderEntry or WebSocket, parsers, OMS, exchange

*State.*  `requests` are the requests without an answer; a request has its type, its
order, its version, the packed request id, how it names the order, what the exchange
made of it (`verdict`) and whether its connection still is (`wire`).  `responses` are the
`server::oms::Response` dispatched, `silent` the answered requests that had none.  `versions`,
`kept` and `external` (the external id, once an order update has brought it) are what the OMS knows of an order.
`book` is the exchange, and `placed` the orders as it has placed them: the n-th has the external id n.  A
cancel carries a *name*, a client id or an external id, chosen when it is sent (`CancelName`), and the exchange looks up what
has that name when it executes it (`Named`): which order that is depends on what was placed and closed in between.  `standing` is a history
variable, the cancels whose order was open when they were sent and has been since.

*Actions.*  `CreateOrder`, `CancelOrder`, `StreamReady`, `StreamDisconnected`; over REST (`ws_api = FALSE`, chosen in `Init`) `CreateOrderAck`,
`CancelOrderAck` and `ProcessError`; over the web socket `ActionError`, `ActionOrder`, `ActionCancel` and `ActionSuccess`.
`ModifyOrder` and `CancelAllOrders` throw before anything changes, and are no actions.  The
request id is a number: 8 bits of type, 8 of user, 48 of order in the code,
`UserRange` and `OrderRange` here.

### OrderLifecycle: what the sending of order actions promises

The same for both transports: a request waits (`waiting`) until it is refused, accepted or failed,
once; it may be `lost` with its connection.  `Refuse` tells clients the order and type that were
refused, and an order whose create was refused does not open (`Opens`).  `Accept`, the answer that
tells clients nothing, is allowed only if the create has been executed, or the order is closed or
was refused.  Request ids, parsers, callbacks, and orders the OMS has forgotten do not occur in it.

### OrderPrices: Rest, TickSizeSteps, Conversions, Encoder

*State.*  `listing` is the exchange's list of dex, `dex` is `shared_.dex`, `ref_data` what has been published of each
symbol, `message` the order that was sent with what it was made from.  A number is `m * 10^e`; a tie of
`std::round`, which in doubles may fall to either side, is a choice.

*Actions.*  `GetPerpDexsAck` numbers the dex (or ends the program, if a number has changed), `GetMetaAck`
publishes a dex's symbols, `CreateOrder` names the symbol by its number, rounds price and quantity and writes
them; the exchange lists another dex in between.

### MarketFeed: MarketData and the buffers of Shared

*State.*  For each stream whether it is `ready` and the messages on the `wire`; the buffers `bids` and
`asks` of Shared; `books` and `tops`, the last that clients were told of each coin; `market`, the truth at the exchange.

*Actions.*  `Ready` (subscribes the slice; the exchange answers each subscription with the present book),
`Disconnected`, `Subscribe` (a new symbol), `L2Book` and `BBO`; and from `TradeSummaries`, which it extends, a message of the trades
channel: the loop over the trades is a recursive function, `Loop`, whose values are the local variables of the
handler after each round.  Trades and books touch different buffers, so a run has one or the other (`talk`).

### Signer, Throttle

`Signer`: one action signs.  It packs the time stamp (`tools/encoder.cpp:100-130`), advances
the nonce and writes the request (`tools/crypto.cpp:54-98`).  The clock ticks, may be stepped
back, and the gateway may restart, which forgets the nonce.

`Throttle`: one action for the `Retry-After` header, two for the end of an answer (403, 429; all
others change nothing).  `Offset` is what the realtime clock is ahead of the system clock.

## 3 What is outside the repository

`roq-core` and `roq-server` are libraries; they are modelled from how this code uses them,
and such definitions are marked external.  What is assumed of them:

* `core::limit::Request`: `request` makes a mailbox pending and forgets the last response;
  `check_pending` hands it out; `commit` ends the hand-out, and is a response unless
  another request is pending by then.
* `Request::ready` (`gateway/request.cpp:19`) is false while any mailbox is handed out, so OrderEntry
  has one download on the wire.
* `core::Download` (reference data) compares an answer with the present state only.  The
  library may also compare a sequence number; the model is weaker, so what
  holds in it holds with the number, too.  Equal requests that are under way at the
  same time are one element of `requests`.
* `core::Symbols` cuts the symbols into slices of `max_subscriptions_per_stream`, in order of arrival.
* The OMS marks all working orders stale when DropCopy is disconnected; an order
  update confirms the order it is about; an order that is complete stays so.
* `web::rest::Client` calls every callback exactly once, with an answer or an error (time out,
  lost connection); `web::socket::Client` refuses to send while it is not connected.
* The exchange lists the dex in a fixed order, executes order actions in any order,
  sends no answer without a status and no type the parsers do not know, and answers
  `orderStatus` for an id it does not know with an error.
* A dex that is listed stays listed, and the one without a name is the first.
* A subscriber of `l2Book` gets the present book and then each change, in order; a `bbo` message leaves out
  a side that is empty.
* The order statuses by which the exchange tells a closing are among those of the table in
  `protocol/json/map.cpp:64-101`.
* The symbols of a dex, its universe, do not change: the exchange may list dex between two downloads, but a symbol that is
  listed within one, or taken off, would be another number for the exchange than the code's, and is not in `OrderPrices`.
* `decimal_digits` gives back the decimals that Rest made a precision of (`tools/encoder.cpp:146`): taken for the identity on
  0 to 5 decimals, in doubles, too.
* A restart takes longer than the nonces of a burst run ahead of the clock, and the
  clock is never stepped back to before the last start (guards of `Restart` and `StepBack`).

## 4 The runs

| run | instance | shows |
|---|---|---|
| `account_safety` | 2 orders on 2 dex, a list of dex that is empty at first or not and grows, 2 lost connections, failing answers, refused subscriptions, an OMS that may forget | `NoUnexpected`: neither `log::fatal` of the stale order download is met. `QueueMatchesRequest`: a stale order is queued exactly while a request waits; queued without one it would never be asked about. `TrustedOrdersAreOpen`: no closing falls between snapshot and feed. `ReadyMeansAsked`: the READY after DOWNLOADING comes with order updates active and nothing left to ask about. `ImplementsSync`: every step is one of `AccountSync` |
| `account_live` | 1 order, up to 2 dex, 2 lost connections, an OMS that may forget, fairness | `DownloadCompletes`: a download ends, except in the three cases `Stuck` lists. `EventuallyConfirmed`: a stale order does not stay so, with the same exceptions |
| `reference_safety` | 3 symbols on 2 selected dex of 3, one symbol discarded, 2 symbols a stream, 2 lost connections | `SubscribedExactlyOnce`, `EverySymbolHasOneStream`, `ReadyMeansComplete`, and in `TypeOK` the assertion of `rest.cpp:418` that an index is in the list |
| `reference_live` | 2 symbols, 1 a stream, 1 lost connection, fairness | `ReferenceDataCompletes`, `SeenSymbolsSubscribed` |
| `actions` | both transports; 2 orders of 2 users, 2 requests each, 1 lost web socket, HTTP errors of requests that are executed all the same, an OMS that may forget | `ResponseMatchesRequest`, `RefusalsReported`, `RefusedNeverOpen`, `CancelsMeetTheirOrder`: no cancel passes by an order that is open all the time, `NoUnexpected` (`web_socket.cpp:505`), in `TypeOK` that what a request id decodes to is the OMS's; `ImplementsLifecycle` |
| `signer_clock` | 5 requests in 6 ms, clock may be stepped back, restarts | `NoncesIncrease`, `NonceNearClock`, `SignedIffFresh`: exactly the requests stamped above every earlier nonce are signed as they are sent |
| `throttle` | 3 header values, one in the past, 8 instants | `LongestWaitHonoured`, `NeverShortened` |
| `prices` | 3 dex listed in any order, all `sz_decimals`, 19 mantissas around each change of tick, figures and decimals, from 10^-9 to 10^8 | `AssetIdsUnique`, `AssetIdsStable`; `PricesAllowed`, `PricesNearRequested`; `PublishedStepsKept`: the six tables and the two roundings agree; `NothingThrown` |
| `market_feed` | 2 coins with a stream each, one bid, two asks; every message of up to 4 trades of 2 coins and 2 times, after every other | `QuietBookIsCurrent`, `QuietTopIsCurrent`, `FirstUnderOwnHeading`, `OnlyThisMessage` |
| `signer_signature`, `reference_dex`, `prices_dex` | | three disagreements, see 7 |

*Why the bounds are enough.*  Two orders on two dex give a snapshot that has one order and
not the other, a chain of more than one request, and a status counter above one; two
lost connections let a download overlap with the remains of the last one and with
those of the one before.  Three symbols and slices of two give a slice that is full
and one that grows, and a discarded symbol that is the only other of its dex; with
two dropped connections the dex list is longer than the exchange's, and a stream is
made while another is down.  Two requests an order let a cancel race its create; the two
users differ in a field that the request id must keep apart from the order.  Five
requests and six milliseconds let the nonce run ahead, the clock catch up, a restart,
and a burst begin again.  Four trades of two coins and times are all patterns of equal and
different neighbours.  Two streams fill one buffer, and with two asks a book can change, and its best
ask with it, without becoming empty.  The mantissas have up to seven digits, so each of the roundings has something to do and may carry into the
next power of ten.  All invariants and action properties have a proof, and hold for all sizes anyway.

Bounds are constants named `Max...` and appear in guards only: `MaxDrops` (for `actions` one for each
transport: over REST a lost connection is an error like others), `MaxVersion`, `MaxClock`, `MaxRequests`, `MaxTrades`,
`MaxWire`; further bounds are that an `OrderPrices` run ends with its first order (an order changes nothing the next one
could see), `MaxDigits` of a mantissa (8 in the runs), and `talk`.  Deadlock is not looked for where a bound makes the system stop, as
the configurations say, and is in the others.  No symmetry is used: the orders
and symbols are told apart by their dex.

## 5 Fairness

`account_live` and `reference_live` assume

* weak fairness of timers (the host calls them for ever) and of connecting: the web
  sockets are configured with `always_reconnect = true` (`gateway/drop_copy.cpp:51`,
  `gateway/market_data.cpp:61`), the REST clients with `KEEP_ALIVE` and a ping
  (`gateway/order_entry.cpp:58`), from which we take that the library connects again;
* that a request is answered or fails: `request_timeout` of the REST clients; which of the two
  is not said, so a chain of downloads may always fail;
* that the exchange reads subscriptions and confirms or refuses them;
* *strong* fairness of answering `orderStatus` and of that answer's success, for each order: an
  order that is asked about again and again is answered at last.  Without it an
  order may stay stale for ever, since a failure is only logged;
* for reference data, `ErrorsEnd`: from some time on requests do not fail unless their connection does.
  That failed requests are repeated (`RestRetries`) is what the library's `Download::retry` is for,
  and an assumption.

The account is not promised to get on in every case.  `Stuck` names the three in which it does not, and both properties of `account_live`
say that there is no other: a subscription that the exchange refuses is waited for for ever (`gateway/drop_copy.cpp:291`, `Refused`); if `find_order`
fails for every order listed, no request is sent, no answer comes, and the mailbox is never committed (`gateway/order_entry.cpp:893`, `blocked`; the run has
`MayForget = TRUE`, so it happens); and the program may have ended (`ended`).

Neither run assumes that connections stay up, beyond the bound on how often they are
lost; nothing is assumed of clients, or of orders.

## 6 The proofs

Each proof module has type correctness, an invariant that is inductive, one step for
each action, and the theorems as corollaries.  The only assumptions are the named
`ASSUME`s of the modules: finite sets of orders and symbols, positive sizes, and what
section 3 says of the library's and the exchange's behaviour, which is in the
environment's actions.

| module | theorem | |
|---|---|---|
| `AccountDownload_proofs` | `TypeCorrect`, `QueueAlwaysMatches`, `NeverUnexpected`, `TrustedAlwaysOpen`, `ReadyAlwaysAsked` | all invariants of `account_safety`, for any orders, any list of dex, empty or not, as it grows, and any number of lost connections |
| | `Implements` | each step of `AccountDownload` is a step of `AccountSync`, or none |
| `ReferenceData_proofs` | `TypeCorrect`, `SubscribedAlwaysOnce`, `ReadyAlwaysComplete`, `EverySymbolAlwaysHasOneStream` | for any symbols, dex, slice size |
| `OrderActions_proofs` | `PackingInverse`, `TypeCorrect`, `ResponsesAlwaysMatch`, `RefusalsAlwaysReported`, `CancelsAlwaysMeet`, `NeverUnexpected`, `RefusedNeverOpens` | for any orders, any widths of the request id, both transports |
| | `Implements` | each step of either transport is a step of `OrderLifecycle`, or none |
| `OrderPrices_proofs` | `AssetIdsAlwaysUnique`, `AssetIdsAlwaysStable` | for any universes with fewer symbols than `OFFSET_DEX`, and any order of listings |
| | `NothingEverThrown`, `PricesAlwaysAllowed`, `PricesAlwaysNear`, `StepsAlwaysKept` | for any orders of decimal numbers with mantissas and exponents of any size, of symbols with any decimals from 0 to 5 |
| `MarketFeed_proofs` | `QuietBookAlwaysCurrent`, `QuietTopAlwaysCurrent` | for any coins, streams and prices, and any number of messages on their way |
| | `FirstAlwaysUnderOwnHeading`, `AlwaysOnlyThisMessage` | for messages of any number of trades, whatever is left in the buffer |
| `Signer_proofs` | `TypeCorrect`, `NoncesIncreaseAlways`, `NonceAlwaysNear`, `SignedExactlyIfFresh` | for any number of requests, steps of the clock, restarts |
| `Throttle_proofs` | `LongestWaitAlwaysHonoured`, `SuspensionNeverShortened` | for any backoff, header, and distance of the clocks |

The strengthenings, and why they are needed:

* *AccountDownload.*  `QueuedIffPending`, the first half of `QueueMatchesRequest`, is inductive, and with `AnswersNotPending` (a mailbox that has a
  response has no request waiting) it is how the answer DropCopy waits for finds an empty
  queue.  `CountMatches`, which has the second half, says that the counter is the number of status requests under way and
  that the mailbox is handed out exactly while there are any, or has been blocked, so the last answer, and no other, commits.
  `AnnouncedFollows` says what clients have been told in each state of the download: nothing, READY and DOWNLOADING, or both and READY again.
  `SuspectsFollowed`
  follows an order that was stale when the open orders were used: it is stale until it is
  confirmed, queued in `GET_STALE_ORDERS`, and gone after.  `TrustFounded` follows every piece of information a
  confirmation may come from (order updates, the snapshot, a status answer) and says
  of each that what it reports as open is open, or its closing is on its way to
  DropCopy, unless it is early.
* *AccountSync.*  The refinement needs `TrustFounded` and `SuspectsFollowed` from above, for completions that are true and orders that
  are not forgotten, `AnnouncedFollows` for what may be announced, and in addition that the subscription under way is the one the download waits for (`OneSubscription`), and that
  an order is closed before the exchange says so (`ClosedIsClosed`).
* *ReferenceData.*  `StaticInv` says that the dex added are the exchange's, and with it that every
  index asked for exists.  `CompleteInv` follows the chain: when the
  request for a dex is under way, what was promised of all dex before it is known
  (`ChainCovers`), though requests are repeated from the first dex while it is; such a
  request exists only in `META` or after (`MetaInTime`), and on a connection that is gone
  requests can only fail (`LostWhenDown`).  `OnePlace`, for the streams, says that a symbol has one
  place in the list; the slices cut the places into intervals that do not overlap.
* *OrderActions.*  `ActionInv` carries with each request that its id is the encoding of its own
  type and order; with `PackingInverse`, decoding gives them back.  `CreateInv` says that an order has one
  create (`OneCreate`), that it is "new" until that one is executed (`PendingNew`, `Untouched`), and
  that a create the exchange has refused is not under way any more (`RefusedOnce`).  `MeetInv` follows the names of cancels: what the OMS takes for an
  external id is the place of that very order (`ExternalKnown`), so a cancel names its own order and no other, however many are placed
  while it is under way (`NamesResolve`); an order that has been open since a cancel was sent is open still (`StandingOpen`), so the exchange
  cannot have dealt with that cancel (`Met`).
* *OrderLifecycle.*  `Numbered` says that a request is told from others by its order and version, so the one
  answered is the one that leaves `waiting`; `Executed` what the exchange's verdict says of the book; `Forgotten`
  that over the web socket, where an order the OMS has forgotten gets no response, it forgets only
  orders that are closed or refused, which is when silence is allowed.
* *Numbers of symbols.*  The dex in the list have the number of their place in the exchange's (`DexInv`), or the next
  download ends the program, and each published symbol belongs to one of them (`DataInv`); the ranges of two multiples of
  `OFFSET_DEX` do not meet.
* *Prices.*  `MessageInv` says that what was sent was made by the two roundings, with the decimals of its
  symbol; the rest is arithmetic, from the equations of the powers of ten.  A rounding gives a multiple of its
  unit (`RoundedMultiple`) that is half a unit away at most (`RoundedMeans`), and carries into the next power of ten
  at most, and then to that power exactly (`RoundedMagnitude`).  So five figures are still five after a carry (`FiguresRounded`) and after the
  second rounding, whatever its unit (`FiguresKept`); if both move the price, the unit of the first is a tenth of the second's, so they
  do not add up to a whole one (`RoundedTwiceNear`).  A tick is five figures at least, and the decimals at least (`TickAtMeans`).
  Zeros that are taken from the end change none of it (`ReducedMultiple`, `ReducedMagnitude`, `ReducedWorth`).
* *Books.*  `WireIsCurrent`: of the messages about a coin that are on the wire the latest has its present book, and if
  there is none clients have been told it already; `OwnCoins` says that a wire has messages only of the stream's own symbols.
  The shared buffers need no invariant, as a handler fills them before it publishes.
* *Trades.*  `LoopInv`, shown for each round of the loop by induction over the rounds: each summary that has been published
  is the trades of the message up to some place, under the heading of the last of them; places increase; and all trades since the last
  place have one heading, that of the local variables.  So the first summary with a trade is that of its own group.
* *Signer.*  `LastRemembered`: the last nonce sent is the one in memory, or it is from before the
  gateway was started, and the clock is not.  `BurstInv` bounds how far it is ahead of a stamp by the requests
  since.
* *Throttle.*  `Remembered`: the last header value, if it is still in the future, is covered.  This is why
  a repeated value need not be looked at.

*Induction.*  The library's theorems on induction take an operator as a parameter, which the provers cannot
choose.  `Induction` states what is needed with sets and functions instead, and proves it from a smallest
element (`WFMin`): a set that has 0, and with each number the next, has all (`SetInduction`, `BoundedInduction`); and
a function that is described by its first value and its steps exists (`Recursion`, `Iteration`) and is the only one (`SameStates`).  From these
come the equations of `Ten` and of `Loop`, which are recursive functions.

Only model-checked: the four liveness properties, as fairness is beyond the prover.  The prices are decimal
numbers in the proofs, as in the runs: how doubles come near to them is not modelled, beyond that a tie may fall to either side.

## 7 Findings

* **The signature does not cover the nonce that is sent** (`signer_signature`, `tools/encoder.cpp:111`).
  `pack_helper` appends the time stamp where its comment says "nonce"; `Crypto` then
  chooses the nonce, which is one more than the last if the time stamp is not above
  it.  The second request of a millisecond carries a nonce that was not signed, and an
  exchange that verifies the signature recovers another address.  `index.rst:286` describes such
  an error as one whose cause is not clear.  `SignedIffFresh` says exactly which requests are
  concerned.
* **Order streams without a dex** (`reference_dex`, `gateway/controller.cpp:143`).  A client that subscribes before reference
  data is downloaded makes the Controller create the order streams, and their first
  download indexes the empty list of dex, against the assertion at
  `gateway/order_entry.cpp:303` and `index.rst:280`.
* **Perps of another dex are rounded as spot** (`prices_dex`, `tools/encoder.cpp:147`).  A symbol is taken for spot if its number
  is 10000 or more; the perps of every dex but the first have numbers from 110000.  Their
  prices keep 8 - szDecimals decimals where `tools/tick_size_steps.cpp:146,170` and `tools/conversions.cpp:35`
  say that perps have 6 - szDecimals.  Who keeps to the published steps is not concerned (`PublishedStepsKept`).

## 8 Behaviour worth knowing

The models keep these as the code has them; nothing in the repository says otherwise.

* The open orders are asked for after order updates have been subscribed.  But a request
  made for an earlier connection may still be under way when a connection is lost and
  made again: its answer is older than the new subscription, a closing in between is
  seen by neither, and the OMS takes the order for confirmed.  Such orders are `early`,
  exempt from `TrustedOrdersAreOpen`.  If they are open, the download of the new connection
  confirms them; if they closed in between, they are not asked about before the OMS
  suspects them again.
* Clients are told that the account is READY on every connection as soon as its socket is up, before the download begins
  (`gateway/drop_copy.cpp:186`): order updates are not subscribed then, and no order that is in doubt has been looked at.  DOWNLOADING
  follows within the same handler, and only the READY after it (`gateway/drop_copy.cpp:274`) has the meaning that
  `ReadyMeansAsked` and `AccountSync` give it.
* If the OMS has forgotten every order of a stale order request, no request is sent and
  no commit happens (`gateway/order_entry.cpp:893`).  `Request::ready` is then false for good, so none of the five kinds of downloads is handed
  out any more, over new connections, too: no download of the account ends, and no stale order is asked about, until the gateway is restarted.
* A request that failed with an HTTP error is reported as rejected, though it may be
  executed.  `RefusedNeverOpen` exempts such reports.
* A second download of the dex adds every dex again (`gateway/rest.cpp:395`), and every chain of
  downloads asks each of them twice.
* New listings are noticed when the REST connection is made again, and not before.
* A message with trades of several coins or times sends the earlier groups again with
  the later ones, under the later heading (`gateway/market_data.cpp:362`); `FirstUnderOwnHeading` speaks of
  the first time a trade is sent.
* The order streams are created by the first `SymbolsUpdate`, which comes also if all symbols of the first dex are
  discarded; comments say that they wait for symbols (`gateway/controller.cpp:102,236,247`).  Nothing goes wrong without symbols.
* A refused subscription stops the download of an account until the connection is lost.
* Above 100000 the published tick is 10, though integer prices are allowed there, and sent as they are.
* The tables for spot have the base step 0.0001 for every szDecimals; they are never used, as only
  perps are published.
* A MARKET order has a price that is not a number, which passes all roundings and is sent as text
  (`tools/encoder.cpp:155`, "XXX FIXME").  A time in force that is not mapped is sent as an empty text.
* A positive price below half of the smallest step is sent as 0.
* An empty book is not published, nor is a `bbo` with one side: clients keep the last one.
* An order status that is not in the table becomes UNDEFINED (`protocol/json/map.cpp:93`): if it ended the order, the OMS
  does not learn that it ended.
* `suspend_until_` is never reset, so only the first 429 of a process begins a suspension by itself
  (`tools/throttle.cpp:110`).

## 9 What is not modelled

* Asset contexts, funds, positions and fills: handlers that only translate or log a message and
  keep no state.  Quantities in books: the code copies them with their price.
* The tables of `protocol/json/map` and `utils`: static, most entries with a `static_assert` beside them.
  A property of them would be the table once more.
* Order types other than LIMIT, prices that are negative or not numbers, the tables of steps for spot (never used).
* Ping, latency, metrics, logging; the rate limiter, which delays a request, as a timer
  that is not called does.
* Messages the parsers do not understand (they end the process), the msgpack encoding,
  the hash and the signature algorithm.
* Configuration, generated messages, the bridges and packaging: start-up code.
* Memory, threads (there is one), and the libraries.

## 10 The plan

Done, in this order: `AccountDownload` first, as it has the most handlers that depend on
each other and a wrong answer is an order the OMS misjudges; then `Signer`, `ReferenceData`,
`OrderActions`, `Throttle`, `TradeSummaries`; proofs of each but the last; then the abstract specifications `AccountSync` and
`OrderLifecycle` with their refinements, `OrderPrices`, `MarketFeed`, and the proofs of `EverySymbolHasOneStream`, `SignedIffFresh`
and `NonceNearClock`.

Then recursive functions in place of folds and powers, `Induction`, and with it the proofs of `MarketFeed`, of the trade
summaries and of the prices: every property of the runs that is not liveness is a theorem.

To do:

1. What the OMS makes of requests that are lost with the web socket, once the interface of
   `roq-server` says it.
2. The rate limiter of `Shared`, as a bound on how many actions leave in a window.
