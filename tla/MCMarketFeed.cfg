\* Books of two streams that are lost and made again, with a best ask that
\* changes; and every message of up to four trades of two coins at two times,
\* after every other.
SPECIFICATION Spec
CONSTANTS
  Coins = {"a", "b"}
  Times = {1, 2}
  MaxTrades = 4
  StreamOf <- TwoStreams
  Bids = {1}
  Asks = {2, 3}
  MaxWire = 1
INVARIANTS
  QuietBookIsCurrent
  QuietTopIsCurrent
  FirstUnderOwnHeading
  OnlyThisMessage
