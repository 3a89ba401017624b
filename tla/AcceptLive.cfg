SPECIFICATION AcceptSpec
CONSTANTS
  Conns = {c1, c2, c3}
  Backlog = 2
  PipeCapacity = 3
  MayReset = FALSE
  Sends = FALSE
  NoConn = noconn
INVARIANT TokenPerConnection
PROPERTIES EveryConnectionAccepted 
\* the server waits for ever when no peer connects
CHECK_DEADLOCK FALSE
