--------------------------- MODULE TradeSummaries ----------------------------
(***************************************************************************)
(* gateway::MarketData, the handler of the trades channel.  A message has  *)
(* trades of several coins and times; neighbours that agree on both make   *)
(* one TradeSummary.  The buffer belongs to Shared and is used by every    *)
(* stream.                                                                 *)
(***************************************************************************)
EXTENDS Naturals, Sequences, SequencesExt

CONSTANTS
  Coins, Times,
  MaxTrades        \* BOUND: trades in a message

ASSUME CoinsAssumption == Coins \subseteq STRING \ {""}
ASSUME TimesAssumption == Times \subseteq Nat \ {0} /\ MaxTrades \in Nat

VARIABLES
  trades,          \* shared_.trades
  data,            \* the last message; the trades of a message have a number
  published        \* the TradeSummary made of it, in their order

tradeVars == << trades, data, published >>

-----------------------------------------------------------------------------
(* MUTANT of SameGroup: trades of two coins at the same time are together. *)
SameGroupByTime(item, loop) == item.time = loop.time

(* !(item.time != time || item.coin != coin) *)
SameGroup(item, loop) == item.time = loop.time /\ item.coin = loop.coin

(* dispatch: nothing for an empty buffer; the buffer is left as it is. *)
Dispatch(loop) ==
  IF loop.trades = << >> THEN loop.published
  ELSE Append(loop.published,
              [ coin |-> loop.coin, time |-> loop.time, trades |-> loop.trades ])

(* The body of the loop over the trades of a message. *)
Item(loop, item) ==
  [ coin      |-> item.coin,
    time      |-> item.time,
    trades    |-> Append(loop.trades, item),
    published |-> IF SameGroup(item, loop) THEN loop.published ELSE Dispatch(loop) ]

(* MUTANT of Cleared: the buffer is not cleared before the loop. *)
ClearedNot(buffer) == buffer

(* shared_.trades.clear() *)
Cleared(buffer) == << >>

(* The local variables of operator()(Trades) before the loop, after each   *)
(* of its rounds, and the message handled.                                 *)
Begin(buffer) ==
  [ coin |-> "", time |-> 0, trades |-> Cleared(buffer), published |-> << >> ]

Loop(items, buffer) ==
  LET loop[k \in 0..Len(items)] ==
        IF k = 0 THEN Begin(buffer) ELSE Item(loop[k - 1], items[k])
  IN  loop

Trades(items) ==
  LET end == Loop(items, trades)[Len(items)]
  IN  /\ trades'    = end.trades
      /\ published' = Dispatch(end)
      /\ data'      = items

(* Messages follow each other on any stream; the exchange numbers trades.  *)
Numbered(heads, first) ==
  [ k \in DOMAIN heads |->
      [ coin |-> heads[k].coin, time |-> heads[k].time, tid |-> first + k ] ]

Messages(first) ==
  { Numbered(heads, first) : heads \in SeqOf([ coin : Coins, time : Times ], MaxTrades) }

-----------------------------------------------------------------------------
(* Properties                                                              *)

(* The summaries that contain a trade. *)
Summaries(item) == { k \in DOMAIN published : item \in ToSet(published[k].trades) }

(* Each trade of a message is first published under its own coin and time, *)
(* however the trades of coins and times alternate.  (It is published      *)
(* again by the summaries that follow, since the buffer is not cleared in  *)
(* between.)                                                               *)
FirstUnderOwnHeading ==
  \A item \in ToSet(data) :
    \E k \in Summaries(item) :
      /\ published[k].coin = item.coin /\ published[k].time = item.time
      /\ \A l \in Summaries(item) : k <= l

(* Nothing is published that is not in the message, in particular no trade *)
(* that an earlier message, of this or another stream, has left behind;    *)
(* and the trades of a summary are in the order of the message.            *)
OnlyThisMessage ==
  \A k \in DOMAIN published :
    LET some == published[k].trades
    IN  /\ ToSet(some) \subseteq ToSet(data)
        /\ \A i, j \in DOMAIN some : i < j => some[i].tid < some[j].tid

=============================================================================
