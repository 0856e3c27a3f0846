\* Two orders, one cancel each, over the web socket and over REST; over the
\* web socket the connection may be lost once, over REST that is an error.
SPECIFICATION Spec
CONSTANTS
  Orders <- TwoOrders
  UserRange = 2
  OrderRange = 4
  MayForget = TRUE
  MaxVersion = 2
  MaxDrops <- OneOfWebSocket
INVARIANTS
  TypeOK
  ResponseMatchesRequest
  RefusalsReported
  RefusedNeverOpen
  CancelsMeetTheirOrder
  NoUnexpected
PROPERTIES
  ImplementsLifecycle
\* The bounded number of requests comes to an end.
CHECK_DEADLOCK FALSE
