\* Prices of perps of all dex.
SPECIFICATION Spec
CONSTANTS
  Universe <- ThreeUniverses
  Selected = {"", "xyz", "abc"}
  Orders <- ManyOrders
  MaxDigits = 8
INVARIANTS
  DecimalsAllowed
CHECK_DEADLOCK FALSE
