SPECIFICATION ProgramSpec
CONSTANTS
  Parts = {"accept", "mgmt", "lists", "fronts", "lwip", "file", "boxes"}
  Conns = {c1, c2, c3}
  Backlog = 2
  PipeCapacity = 4
  MayReset = TRUE
  Sends = TRUE
  NoConn = noconn
  Clients = {telnet, web}
  Chunks = {"k1", "k2", "k3"}
  NoChunk = "null"
  ListNames = {"n1", "n2", "n3"}
  ListForms = {"socket", "device"}
  FrontClients = {"c1", "c2"}
  Options = {"web", "telnet"}
  Stacks = {"lwipv6", "picotcp"}
  LwipThreads = {"telnet"}
  MaxSockets = 4
  Length = 5
  Newlines = {2, 4}
  Sizes <- SomeSizes
  RBufSize = 3
  WBufSize = 3
  Slice = 2
  Written = 3
  SocketNames = {"s", "t"}
  Ptrs = {"p1", "p2"}
  MaxTokens = 2
SYMMETRY Symmetry
INVARIANTS PendingCounted QuietChannel HistoryInOrder ListsAreSafe
           SocketsAreFound OnlyAuthenticated  
           
PROPERTIES ImplementsList
\* a component comes to its bounds, or has nothing left to do
CHECK_DEADLOCK FALSE
