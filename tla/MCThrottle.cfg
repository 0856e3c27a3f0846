\* Two values of Retry-After in the future, one in the past.
SPECIFICATION Spec
CONSTANTS
  Enabled = TRUE
  DefaultBackoff = 2
  BlockedBackoff = 4
  Offset = 2
  RetryAfters = {1, 7, 10}
  MaxClock = 8
INVARIANTS
  LongestWaitHonoured
PROPERTIES
  NeverShortened
