SPECIFICATION Spec
CONSTANTS
  Conns = {c1, c2}
  Backlog = 2
  PipeCapacity = 2
  MayReset = FALSE
  Sends = TRUE
  NoConn = noconn
INVARIANT WritableIsReported
SYMMETRY ConnSymmetry
\* the server waits for ever when no peer connects
CHECK_DEADLOCK FALSE
