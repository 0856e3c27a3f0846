------------------------------ MODULE MarketFeed -----------------------------
(***************************************************************************)
(* gateway::MarketData: what becomes of the messages of a public web       *)
(* socket.  Streams come and go, each subscribes its coins anew, and all   *)
(* fill the same buffers of Shared.                                        *)
(***************************************************************************)
EXTENDS TradeSummaries

CONSTANTS
  StreamOf,        \* [Coins -> streams], by the slices of core::Symbols
  Bids, Asks,      \* prices; quantities are left out
  MaxWire          \* BOUND: messages on their way when a market changes

ASSUME FeedAssumption ==
  /\ DOMAIN StreamOf = Coins /\ IsFiniteSet(Coins)
  /\ \A b \in Bids, a \in Asks : b < a

VARIABLES
  talk,            \* BOUND: a run has trades, or the other channels
  symbols,         \* the coins in shared_.symbols
  ready,           \* the streams that are READY
  wire,            \* [streams -> messages on their way]
  market,          \* [Coins -> books], at the exchange
  bids, asks,      \* shared_.bids, shared_.asks
  books,           \* [Coins -> the last MarketByPriceUpdate]
  tops             \* [Coins -> the last TopOfBook]

outVars == << bids, asks, books, tops >>
vars    == << tradeVars, talk, symbols, ready, wire, market, outVars >>

Streams == Range(StreamOf)
Books   == [ bids : SUBSET Bids, asks : SUBSET Asks ]
Empty   == [ bids |-> {}, asks |-> {} ]
None    == << >>

-----------------------------------------------------------------------------
(* The exchange (external).  A subscriber gets the present book, and then  *)
(* each change.  A bbo has the sides that are not empty.                   *)
Best(side, best) == IF side = {} THEN << >> ELSE << best >>

Sides(book) == Best(book.bids, Max(book.bids)) \o Best(book.asks, Min(book.asks))

BookNews(c, book) ==
  [ channel |-> "l2Book", coin |-> c, levels |-> << book.bids, book.asks >> ]

TopNews(c, book) == [ channel |-> "bbo", coin |-> c, bbo |-> Sides(book) ]

MarketChanges(c, book) ==
  LET s == StreamOf[c]
  IN  /\ market[c] # book
      /\ market' = [ market EXCEPT ![c] = book ]
      /\ IF s \in ready /\ c \in symbols
         THEN /\ Len(wire[s]) < MaxWire
              /\ wire' = [ wire EXCEPT ![s] = @ \o << BookNews(c, book), TopNews(c, book) >> ]
         ELSE UNCHANGED wire
      /\ UNCHANGED << tradeVars, symbols, ready, outVars >>

-----------------------------------------------------------------------------
(* subscribe("bbo"), then subscribe("l2Book"), for each of the coins: what *)
(* the exchange answers.                                                   *)
Subscribed(coins) ==
  LET cs == SetToSeq(coins)
  IN  [ k \in 1..Len(cs) |-> TopNews(cs[k], market[cs[k]]) ] \o
      [ k \in 1..Len(cs) |-> BookNews(cs[k], market[cs[k]]) ]

(* web::socket::Ready: everything in the slice is subscribed. *)
Ready(s) ==
  /\ s \notin ready
  /\ ready' = ready \cup {s}
  /\ wire' = [ wire EXCEPT ![s] = Subscribed({ c \in symbols : StreamOf[c] = s }) ]
  /\ UNCHANGED << tradeVars, symbols, market, outVars >>

(* web::socket::Disconnected: what clients have been told stays. *)
Disconnected(s) ==
  /\ s \in ready
  /\ ready' = ready \ {s}
  /\ wire' = [ wire EXCEPT ![s] = << >> ]
  /\ UNCHANGED << tradeVars, symbols, market, outVars >>

(* subscribe(start_from), when the Controller has new symbols. *)
Subscribe(c) ==
  LET s == StreamOf[c]
  IN  /\ c \notin symbols
      /\ symbols' = symbols \cup {c}
      /\ wire' = IF s \in ready THEN [ wire EXCEPT ![s] = @ \o Subscribed({c}) ] ELSE wire
      /\ UNCHANGED << tradeVars, ready, market, outVars >>

-----------------------------------------------------------------------------
(* Text: the next message of a stream.                                     *)
Message(s, channel) == wire[s] # << >> /\ wire[s][1].channel = channel

Received(s) ==
  /\ wire' = [ wire EXCEPT ![s] = Tail(@) ]
  /\ UNCHANGED << tradeVars, symbols, ready, market >>

(* !(std::empty(shared_.bids) && std::empty(shared_.asks)) *)
Published(bs, as) == ~(bs = {} /\ as = {})

(* MUTANT of Filled: the buffer is not cleared. *)
FilledOn(buffer, level) == buffer \cup level

(* clear(), and emplace_back() for each item *)
Filled(buffer, level) == level

(* A snapshot of a coin's book. *)
L2Book(s) ==
  /\ Message(s, "l2Book")
  /\ bids' = Filled(bids, wire[s][1].levels[1])
  /\ asks' = Filled(asks, wire[s][1].levels[2])
  /\ books' = IF Published(bids', asks')
              THEN [ books EXCEPT ![wire[s][1].coin] = [ bids |-> bids', asks |-> asks' ] ]
              ELSE books
  /\ UNCHANGED tops
  /\ Received(s)

(* MUTANT of TopOfBook: the sides are mixed up. *)
TopOfBookSwapped(bbo) == [ bid |-> bbo[2], ask |-> bbo[1] ]

TopOfBook(bbo) == [ bid |-> bbo[1], ask |-> bbo[2] ]

(* std::size(bbo.data.bbo) == 2, or only a warning *)
BBO(s) ==
  /\ Message(s, "bbo")
  /\ tops' = IF Len(wire[s][1].bbo) = 2
             THEN [ tops EXCEPT ![wire[s][1].coin] = TopOfBook(wire[s][1].bbo) ]
             ELSE tops
  /\ UNCHANGED << bids, asks, books >>
  /\ Received(s)

-----------------------------------------------------------------------------
Init ==
  /\ talk \in { "trades", "books" }
  /\ trades = << >> /\ data = << >> /\ published = << >>
  /\ symbols = {} /\ ready = {} /\ wire = [ s \in Streams |-> << >> ]
  /\ market = [ c \in Coins |-> Empty ]
  /\ bids = {} /\ asks = {}
  /\ books = [ c \in Coins |-> Empty ] /\ tops = [ c \in Coins |-> None ]

(* Messages with trades follow each other on any stream.                   *)
TradesNext ==
  /\ talk = "trades"
  /\ \E first \in { 0, MaxTrades } : \E items \in Messages(first) : Trades(items)
  /\ UNCHANGED << talk, symbols, ready, wire, market, outVars >>

Next ==
  \/ TradesNext
  \/ /\ talk = "books" /\ UNCHANGED talk
     /\ \/ \E c \in Coins, book \in Books : MarketChanges(c, book)
        \/ \E c \in Coins : Subscribe(c)
        \/ \E s \in Streams : Ready(s) \/ Disconnected(s) \/ L2Book(s) \/ BBO(s)

Spec == Init /\ [][Next]_vars

-----------------------------------------------------------------------------
(* Properties                                                              *)

(* Nothing about the coin is on its way, and nothing is missing. *)
Quiet(c) ==
  /\ c \in symbols /\ StreamOf[c] \in ready
  /\ \A k \in DOMAIN wire[StreamOf[c]] : wire[StreamOf[c]][k].coin # c

(* When all messages about a coin have been handled the book that clients  *)
(* have is the exchange's, whatever other streams have put in the buffers  *)
(* and however often connections were lost.  The book that has become      *)
(* empty is the one that is not told.                                      *)
QuietBookIsCurrent ==
  talk = "books" =>
    \A c \in Coins : Quiet(c) => market[c] \in { books[c], Empty }

(* So is the top of the book, unless a side is empty. *)
QuietTopIsCurrent ==
  talk = "books" =>
    \A c \in Coins :
      Quiet(c) /\ market[c].bids # {} /\ market[c].asks # {} =>
        tops[c] = [ bid |-> Max(market[c].bids), ask |-> Min(market[c].asks) ]

=============================================================================
