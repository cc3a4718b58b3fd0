\* Two attempts in one window of which one is allowed.
SPECIFICATION LimiterSpec
CONSTANTS
  Attempts = {q1, q2}
  Limit = 1
  Window = 2
  MaxTime = 4
CHECK_DEADLOCK FALSE
INVARIANTS
  AtMostLimit
