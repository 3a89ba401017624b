SPECIFICATION FairSpec
CONSTANTS
  Preemptive = TRUE
  MaxSegments = 2
PROPERTY EverySegmentRead
\* the reader waits for ever when the peer has nothing more to send
CHECK_DEADLOCK FALSE
