\* A tick is 10 s: EX 60, an interval of 30 s, stale after 120 s, writes that
\* take up to 20 s.
SPECIFICATION HeartbeatSpec
CONSTANTS
  TTL = 6
  Interval = 3
  StaleAfter = 12
  MaxDelay = 2
  NoKey = NoKey
INVARIANTS
  HeartbeatIsTrue
CHECK_DEADLOCK FALSE
