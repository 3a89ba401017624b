SPECIFICATION Spec
CONSTANTS
  Preemptive = FALSE
  MaxSegments = 2
INVARIANT NoEmptyRead
\* the reader waits for ever when the peer has nothing more to send
CHECK_DEADLOCK FALSE
