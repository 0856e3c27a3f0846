\* Two orders on up to two dexes, two lost connections, the OMS may forget orders.
SPECIFICATION Spec
CONSTANTS
  o1 = o1
  o2 = o2
  Orders <- TwoOrders
  MaxDex = 2
  PlacesOf <- TwoPlaces
  TradesLookback = TRUE
  MayForget = TRUE
  MaxDrops = 2
INVARIANTS
  TypeOK
  NoUnexpected
  QueueMatchesRequest
  TrustedOrdersAreOpen
  ReadyMeansAsked
PROPERTIES
  ImplementsSync
\* The bounded environment runs out of orders to close and connections to lose.
CHECK_DEADLOCK FALSE
