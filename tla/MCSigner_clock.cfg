\* Bursts, a clock that is stepped back, and restarts.
SPECIFICATION Spec
CONSTANTS
  RecvWindow = 30
  MaxClock = 6
  MaxRequests = 5
INVARIANTS
  TypeOK
  NoncesIncrease
  NonceNearClock
  SignedIffFresh
\* The bounded clock and history come to an end.
CHECK_DEADLOCK FALSE
