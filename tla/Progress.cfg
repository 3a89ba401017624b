SPECIFICATION Spec
CONSTANTS
  Parts = {"ppp", "loop", "load", "nat", "nd", "dad", "dns", "ping",
           "handler", "wait", "aodv", "heap", "queue", "tree"}
  Loops = 2
  Samples = 2
  MinScore = 4
  MaxScore = 8
  MaxTotal = 16
  Keys <- SomeKeys
  NatPorts = {1}
  Period = 1
  TcpLimit = 2
  MaxEnables = 1
  Pings = 1
  PingCount = 3
  Interval = 1
  Timeout = 2
  MaxStarts = 3
  Initial = 1
  MaxChars = 4
  TimerDelays = {0, 1, 2}
  TimersAdded = 4
  ClockEnd = 2
  FrameLengths = {1, 2, 3}
  QueueLimit = 6
  QueueWidth = 256
  TreeKeys = 6
INVARIANTS TablesAgree OneHandler ContainersKeepAll
PROPERTIES NegotiationsEnd EveryTurnComes NobodyWaitsForEver 
           FiresInOrder
\* a component comes to its bounds, or has nothing left to do
CHECK_DEADLOCK FALSE
