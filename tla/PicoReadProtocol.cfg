SPECIFICATION FairSpec
CONSTANTS
  Preemptive = FALSE
  MaxSegments = 4
INVARIANTS TypeOK NoLostWakeup CountMatches DrainHasCharacters
PROPERTY EverySegmentRead
\* the reader waits for ever when the peer has nothing more to send
CHECK_DEADLOCK FALSE
