\* Is the request signed as it is sent?
SPECIFICATION Spec
CONSTANTS
  RecvWindow = 30
  MaxClock = 3
  MaxRequests = 3
INVARIANTS
  SignatureCoversRequest
\* The bounded clock and history come to an end.
CHECK_DEADLOCK FALSE
