SPECIFICATION Spec
CONSTANTS
  Conns = {c1, c2}
  Backlog = 2
  PipeCapacity = 2
  MayReset = TRUE
  Sends = FALSE
  NoConn = noconn
INVARIANT AcceptNeverRaises
SYMMETRY ConnSymmetry
\* the server waits for ever when no peer connects
CHECK_DEADLOCK FALSE
