\* Prices of up to seven digits from 10^-9 to 10^8; the list of dex grows.
SPECIFICATION Spec
CONSTANTS
  Universe <- ThreeUniverses
  Selected = {"", "xyz", "abc"}
  Orders <- ManyOrders
  MaxDigits = 8
INVARIANTS
  AssetIdsUnique
  PricesAllowed
  PricesNearRequested
  PublishedStepsKept
  NothingThrown
PROPERTIES
  AssetIdsStable
\* The program ends by a fatal error when a dex is listed before others.
CHECK_DEADLOCK FALSE
