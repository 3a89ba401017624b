SPECIFICATION Spec
CONSTANTS
  Parts = {"tcp", "tcpBack", "sockets", "fragments4", "fragments6", "arp",
           "routes", "routes6", "igmp", "mld", "dhcp", "dhcpFull", "tftp",
           "mdnsQuiet", "mdnsLossy", "slaacHotplug", "slaac", "nd", "dns",
           "dad", "ppp", "aodv", "aodvNear", "aodvOwn"}
  Ports = {1}
  Addrs = {"any", "ip1"}
  Remotes = {"r1", "r2"}
  Numbers = {1, 2}
  MaxQueue = 1
  Locals4 = {"a1", "a2"}
  Gateways = {"g1"}
  Hosts4 = {"h2", "far"}
  NetOf4 <- Networks4
  Metrics = {1, 5}
  MaxId = 1
  Locals6 = {"ll1", "a1", "b2"}
  Others = {"r", "n"}
  Routers = {"r"}
  DevOf6 <- Devices6
  NetOf6 <- Networks6
  Announced = {"p"}
  Routed = {"x"}
  Lifetimes = {1, 3}
  TwoHours = 2
  Forever = 4
  Seconds = 3
  Neighbours = {"a", "b"}
  Macs = {1, 2}
  NextHops <- SomeHops
  Pending = 2
  Rate = 1
  MaxSolicit = 1
  Slots = 2
  AodvPeers = {"n", "f"}
  Adjacent = {"n"}
  Me = "me"
  FarSeq <- SomeFar
  NearSeq <- SomeNear
  OwnSeq <- SomeOwn
  MaxHops = 1
  Threshold = 1
  Diameter = 4
  SearchRetries = 0
  Listeners = 2
  Sources = {"s1", "s2"}
  Requests = {"r1", "r2"}
  Ids = {1, 2, 3}
  Servers = {1}
  DnsRetrans = 2
  MaxAlias = 1
  CanFail = FALSE
  PppPeers <- SomePeers
  MaxTerminate = 1
  MaxConfigure = 2
  WritesForth <- Forth
  WritesBack <- Back
  SegmentRetries = 1
  SynRetries = 0
  Datagrams <- SomeDatagrams
  FragTimers = 2
  Listeners6 = 2
  Sources6 = {"s1", "s2"}
  MaxStale = 2
  DhcpClients = {"c1", "c2"}
  DhcpHosts <- TwoDevices
  PoolEnd = 2
  FullClients = {"c1", "c2", "c3"}
  FullHosts <- SharedDevice
  FullEnd = 1
  DhcpTroubled = {"c1"}
  DhcpRetries = 1
  Files <- SomeFiles
  BlockNumbers = 8
  TftpRetries = 2
  QuietLink <- SomeQuiet
  LossyLink <- SomeLossy
  MaxName = 3
  AutoAddresses = {1, 2}
  ProbeNb = 2
  AnnounceNb = 1
  MaxConflicts = 2
  MaxFailures = 3
  DadHosts = {"h1", "h2"}
  LinkLocals = {"ll1", "ll2"}
  UserAdded = {"g"}
  SuffixOf <- SomeSuffixes
  DadRetrans = 1
INVARIANTS StreamInOrder TransfersAreWhole  
            FramesFindTheirWay FiltersAgree 
           
PROPERTIES ReportsCarryChange
\* a component comes to its bounds, or has nothing left to do
CHECK_DEADLOCK FALSE
