\* One order, up to two dexes, two lost connections: progress, for an OMS that may forget the order.
SPECIFICATION LiveSpec
CONSTANTS
  o1 = o1
  o2 = o2
  Orders <- OneOrder
  MaxDex = 2
  PlacesOf <- OnePlace
  TradesLookback = FALSE
  MayForget = TRUE
  MaxDrops = 2
PROPERTIES
  DownloadCompletes
  EventuallyConfirmed
\* The bounded environment runs out of orders to close and connections to lose.
CHECK_DEADLOCK FALSE
