-------------------------- MODULE Protocols_proofs --------------------------
(***************************************************************************)
(* The theorems about MCProtocols: what is kept by every component of      *)
(* Network_proofs, Services_proofs and DhcpLease_proofs is kept in the     *)
(* composition, for every value of the constants.                          *)
(***************************************************************************)
EXTENDS MCProtocols

\* A step of the composition is one of its component, or leaves it alone.
LEMMA StepOfDns ==
  ASSUME [Next]_vars
  PROVE  Dns!Next \/ UNCHANGED Dns!vars
<1>1. CASE Next /\ part = "dns"
  BY <1>1 DEF Next
<1>2. CASE Next /\ part # "dns"
  BY <1>2 DEF Next, dnsVars, Dns!vars
<1>3. CASE UNCHANGED vars
  BY <1>3 DEF vars, dnsVars, Dns!vars
<1> QED
  BY <1>1, <1>2, <1>3

LEMMA StepOfPpp ==
  ASSUME [Next]_vars
  PROVE  Ppp!Next \/ UNCHANGED ppp
<1>1. CASE Next /\ part = "ppp"
  BY <1>1 DEF Next
<1>2. CASE Next /\ part # "ppp"
  BY <1>2 DEF Next, pppVars
<1>3. CASE UNCHANGED vars
  BY <1>3 DEF vars, pppVars
<1> QED
  BY <1>1, <1>2, <1>3

LEMMA StepOfGroups ==
  ASSUME [Next]_vars
  PROVE  Groups4!Next \/ UNCHANGED Groups4!vars
<1>1. CASE Next /\ part = "igmp"
  BY <1>1 DEF Next
<1>2. CASE Next /\ part # "igmp"
  BY <1>2 DEF Next, groupVars, Groups4!vars
<1>3. CASE UNCHANGED vars
  BY <1>3 DEF vars, groupVars, Groups4!vars
<1> QED
  BY <1>1, <1>2, <1>3

\* However answers, repeated answers and timers of numbers that were used again
\* come, and whether a server can be reached or not, the callback of a request is
\* called once at most (pico_dns_client.c).
THEOREM NobodyIsCalledTwice ==
  ASSUME Named
  PROVE  Spec => []Dns!CalledOnce
<1>1. Init => DnsInv
  BY DnsInitially DEF Init
<1>2. DnsInv /\ [Next]_vars => DnsInv'
  BY StepOfDns, DnsKeeps
<1>3. DnsInv => Dns!CalledOnce
  BY DEF DnsInv
<1> QED
  BY <1>1, <1>2, <1>3, PTL DEF Spec

\* If a socket can be had, more numbers can be drawn than there are requests and
\* a query may be sent twice: a request that was accepted and not answered is
\* asked under exactly one number, and there is always a server to ask.
THEOREM RequestsAreAsked ==
  ASSUME Named, Enough
  PROVE  Spec => []CalledOnce
<1>1. Init => AskedInv
  BY AskedInitially DEF Init
<1>2. AskedInv /\ [Next]_vars => AskedInv'
  BY StepOfDns, DnsStep
<1>3. AskedInv => CalledOnce
  BY DnsMeans DEF CalledOnce
<1> QED
  BY <1>1, <1>2, <1>3, PTL DEF Spec

\* Whatever a peer offers and however often requests are repeated: addresses are
\* negotiated over an open and authenticated link only, and LCP negotiates or is
\* open exactly when the modem is connected (pico_dev_ppp.c).
THEOREM LinksAreAuthenticated ==
  ASSUME Counts
  PROVE  Spec => []LinkIsAuthenticated
<1>1. Init => LinkInv(ppp)
  BY LinkInitially DEF Init
<1>2. LinkInv(ppp) /\ [Next]_vars => LinkInv(ppp)'
  BY StepOfPpp, LinkStep
<1>3. LinkInv(ppp) => LinkIsAuthenticated
  BY LinkMeans DEF LinkIsAuthenticated
<1> QED
  BY <1>1, <1>2, <1>3, PTL DEF Spec

\* Whatever sockets join, leave and change their sources: the group is on the link
\* as long as one of them listens, and the filter of the link lets through only
\* what one of them listens to (pico_socket_multicast.c).
THEOREM FiltersAreSound ==
  ASSUME Listeners \in Nat
  PROVE  Spec => []FiltersAgree
<1>1. Init => GroupInv
  BY GroupInitially DEF Init
<1>2. GroupInv /\ [Next]_vars => GroupInv'
  BY StepOfGroups, GroupStep
<1>3. GroupInv => FiltersAgree
  BY GroupMeans DEF FiltersAgree
<1> QED
  BY <1>1, <1>2, <1>3, PTL DEF Spec

LEMMA StepOfSockets ==
  ASSUME [Next]_vars
  PROVE  Sockets!Next \/ UNCHANGED Sockets!vars
<1>1. CASE Next /\ part = "sockets"
  BY <1>1 DEF Next
<1>2. CASE Next /\ part # "sockets"
  BY <1>2 DEF Next, socketVars, Sockets!vars
<1>3. CASE UNCHANGED vars
  BY <1>3 DEF vars, socketVars, Sockets!vars
<1> QED
  BY <1>1, <1>2, <1>3

LEMMA StepOfRoutes ==
  ASSUME [Next]_vars
  PROVE  Routes!Next \/ UNCHANGED Routes!vars
<1>1. CASE Next /\ part = "routes"
  BY <1>1 DEF Next
<1>2. CASE Next /\ part # "routes"
  BY <1>2 DEF Next, routeVars, Routes!vars
<1>3. CASE UNCHANGED vars
  BY <1>3 DEF vars, routeVars, Routes!vars
<1> QED
  BY <1>1, <1>2, <1>3

LEMMA StepOfRoutes6 ==
  ASSUME [Next]_vars
  PROVE  Routes6!Next \/ UNCHANGED Routes6!vars
<1>1. CASE Next /\ part = "routes6"
  BY <1>1 DEF Next
<1>2. CASE Next /\ part # "routes6"
  BY <1>2 DEF Next, route6Vars, Routes6!vars
<1>3. CASE UNCHANGED vars
  BY <1>3 DEF vars, route6Vars, Routes6!vars
<1> QED
  BY <1>1, <1>2, <1>3

LEMMA StepOfArp ==
  ASSUME [Next]_vars
  PROVE  Neighbour4!Next \/ UNCHANGED Neighbour4!vars
<1>1. CASE Next /\ part = "arp"
  BY <1>1 DEF Next
<1>2. CASE Next /\ part # "arp"
  BY <1>2 DEF Next, arpVars, Neighbour4!vars
<1>3. CASE UNCHANGED vars
  BY <1>3 DEF vars, arpVars, Neighbour4!vars
<1> QED
  BY <1>1, <1>2, <1>3

LEMMA StepOfNd ==
  ASSUME [Next]_vars
  PROVE  Neighbour6!Next \/ UNCHANGED Neighbour6!vars
<1>1. CASE Next /\ part = "nd"
  BY <1>1 DEF Next
<1>2. CASE Next /\ part # "nd"
  BY <1>2 DEF Next, ndVars, Neighbour6!vars
<1>3. CASE UNCHANGED vars
  BY <1>3 DEF vars, ndVars, Neighbour6!vars
<1> QED
  BY <1>1, <1>2, <1>3

\* Of a search for routes: who is near is a host, the bounds are numbers.
Searched == /\ Meshed /\ Diameter \in Int
            /\ {FarSeq, NearSeq, OwnSeq} \subseteq [Mesh -> Nat]

\* The sequence numbers that come up do not matter to what is kept.
LEMMA StepOfAodv ==
  ASSUME [Next]_vars, Searched, AodvInv
  PROVE  AodvInv'
<1>1. CASE Next /\ part = "aodv"
  <2>1. Aodv!NextUpTo(FarSeq)
    BY <1>1 DEF Next, Aodv!Next
  <2> QED
    BY <2>1, AodvStep DEF Searched
<1>2. CASE Next /\ part = "aodvNear"
  <2>1. Aodv!NextUpTo(NearSeq)
    BY <1>2 DEF Next
  <2> QED
    BY <2>1, AodvStep DEF Searched
<1>3. CASE Next /\ part = "aodvOwn"
  <2>1. Aodv!NextUpTo(OwnSeq)
    BY <1>3 DEF Next
  <2> QED
    BY <2>1, AodvStep DEF Searched
<1>4. CASE Next /\ part \notin {"aodv", "aodvNear", "aodvOwn"}
  <2>1. UNCHANGED Aodv!vars
    BY <1>4 DEF Next, aodvVars, Aodv!vars
  <2> QED
    BY <2>1, AodvStep DEF Searched
<1>5. CASE UNCHANGED vars
  <2>1. UNCHANGED Aodv!vars
    BY <1>5 DEF vars, aodvVars, Aodv!vars
  <2> QED
    BY <2>1, AodvStep DEF Searched
<1> QED
  BY <1>1, <1>2, <1>3, <1>4, <1>5

\* However sockets are opened, cloned for a connection, shut down, closed and
\* collected, and links and addresses come and go: no table of a port has a socket
\* that was deleted, a backlog counts the children of its listener and a socket is
\* freed once (pico_socket.c); no route leads through a link that was freed
\* (pico_ipv4.c, pico_ipv6.c), and no address outlives its lifetime.
THEOREM NothingIsLeftDangling ==
  ASSUME Numbered, Metered, Announcing
  PROVE  Spec => []NothingDangles
<1> DEFINE Kept == SocketInv /\ RoutesInv /\ AddressesInv
<1>1. Init => Kept
  BY SocketInitially, RoutesInitially, AddressesInitially DEF Init
<1>2. Kept /\ [Next]_vars => Kept'
  BY StepOfSockets, StepOfRoutes, StepOfRoutes6, SocketStep, RoutesStep, AddressesStep
<1>3. Kept => NothingDangles
  BY SocketSafe, RoutesMean, AddressesMean DEF NothingDangles
<1> QED
  BY <1>1, <1>2, <1>3, PTL DEF Spec

\* Whatever routes, addresses, neighbours and answers come and go: a neighbour of a
\* link is reached through it, a global address through a global one; a frame that
\* comes round is not forwarded again (pico_ipv4.c, pico_ipv6.c); no frame waits for
\* an address that is known (pico_arp.c) or that nobody asks for, and a neighbour is
\* reachable only where it said it is (pico_ipv6_nd.c); a search leaves one route at
\* most, and passes a request on once (pico_aodv.c).
THEOREM EveryFrameFindsItsWay ==
  ASSUME Metered, Networked, Announcing, Routed4, Neighbourly, Searched
  PROVE  Spec => []FramesFindTheirWay
<1> DEFINE Kept == WayInv /\ AddressesInv /\ ArpInv /\ NdInv /\ AodvInv
<1>1. Init => Kept
  BY WayInitially, AddressesInitially, ArpInitially, NdInitially, AodvInitially DEF Init
<1>2. Kept /\ [Next]_vars => Kept'
  BY StepOfRoutes, StepOfRoutes6, StepOfArp, StepOfNd, StepOfAodv,
     WayStep, AddressesStep, ArpStep, NdStep
<1>3. Kept => FramesFindTheirWay
  BY WayMeans, NeighboursMean, AddressesMean, AodvMeans
  DEF FramesFindTheirWay, ArpInv, NdInv
<1> QED
  BY <1>1, <1>2, <1>3, PTL DEF Spec

LEMMA StepOfGroups6 ==
  ASSUME [Next]_vars
  PROVE  Groups6!Next \/ UNCHANGED Groups6!vars
<1>1. CASE Next /\ part = "mld"
  BY <1>1 DEF Next
<1>2. CASE Next /\ part # "mld"
  BY <1>2 DEF Next, group6Vars, Groups6!vars
<1>3. CASE UNCHANGED vars
  BY <1>3 DEF vars, group6Vars, Groups6!vars
<1> QED
  BY <1>1, <1>2, <1>3

LEMMA StepOfTftp ==
  ASSUME [Next]_vars
  PROVE  Tftp!Next \/ UNCHANGED Tftp!vars
<1>1. CASE Next /\ part = "tftp"
  BY <1>1 DEF Next
<1>2. CASE Next /\ part # "tftp"
  BY <1>2 DEF Next, tftpVars, Tftp!vars
<1>3. CASE UNCHANGED vars
  BY <1>3 DEF vars, tftpVars, Tftp!vars
<1> QED
  BY <1>1, <1>2, <1>3

LEMMA StepOfDad ==
  ASSUME [Next]_vars
  PROVE  Dad!Next \/ UNCHANGED Dad!vars
<1>1. CASE Next /\ part = "dad"
  BY <1>1 DEF Next
<1>2. CASE Next /\ part # "dad"
  BY <1>2 DEF Next, dadVars, Dad!vars
<1>3. CASE UNCHANGED vars
  BY <1>3 DEF vars, dadVars, Dad!vars
<1> QED
  BY <1>1, <1>2, <1>3

\* Of the components that come in two kinds the one is chosen by the part.
LEMMA StepOfFragments ==
  ASSUME [Next]_vars
  PROVE  \E net \in {"ipv4", "ipv6"} : Fragments(net)!Next \/ UNCHANGED frag
<1>1. CASE Next /\ part = "fragments4"
  BY <1>1 DEF Next
<1>2. CASE Next /\ part = "fragments6"
  BY <1>2 DEF Next
<1>3. CASE Next /\ part \notin {"fragments4", "fragments6"}
  BY <1>3 DEF Next, fragmentVars
<1>4. CASE UNCHANGED vars
  BY <1>4 DEF vars, fragmentVars
<1> QED
  BY <1>1, <1>2, <1>3, <1>4

LEMMA StepOfSlaac ==
  ASSUME [Next]_vars
  PROVE  /\ part = "slaac" => Slaac(FALSE)!Next \/ UNCHANGED Slaac(FALSE)!vars
         /\ part # "slaac" => Slaac(TRUE)!Next \/ UNCHANGED Slaac(TRUE)!vars
         /\ UNCHANGED part
<1>1. CASE Next /\ part = "slaac"
  BY <1>1 DEF Next
<1>2. CASE Next /\ part = "slaacHotplug"
  BY <1>2 DEF Next
<1>3. CASE Next /\ part \notin {"slaac", "slaacHotplug"}
  BY <1>3 DEF Next, slaacVars, Slaac!vars
<1>4. CASE UNCHANGED vars
  BY <1>4 DEF vars, slaacVars, Slaac!vars
<1> QED
  BY <1>1, <1>2, <1>3, <1>4

LEMMA StepOfDhcp ==
  ASSUME [Next]_vars
  PROVE  /\ part # "dhcpFull" => Dhcp!Next \/ UNCHANGED Dhcp!vars
         /\ part = "dhcpFull" => DhcpFull!Next \/ UNCHANGED DhcpFull!vars
         /\ UNCHANGED part
<1>1. CASE Next /\ part = "dhcp"
  BY <1>1 DEF Next
<1>2. CASE Next /\ part = "dhcpFull"
  BY <1>2 DEF Next
<1>3. CASE Next /\ part \notin {"dhcp", "dhcpFull"}
  BY <1>3 DEF Next, dhcpVars, Dhcp!vars, DhcpFull!vars
<1>4. CASE UNCHANGED vars
  BY <1>4 DEF vars, dhcpVars, Dhcp!vars, DhcpFull!vars
<1> QED
  BY <1>1, <1>2, <1>3, <1>4

LEMMA StepOfMdns ==
  ASSUME [Next]_vars
  PROVE  /\ part # "mdnsLossy" => Mdns(QuietLink)!Next \/ UNCHANGED Mdns(QuietLink)!vars
         /\ part = "mdnsLossy" => Mdns(LossyLink)!Next \/ UNCHANGED Mdns(LossyLink)!vars
         /\ UNCHANGED part
<1>1. CASE Next /\ part = "mdnsQuiet"
  BY <1>1 DEF Next
<1>2. CASE Next /\ part = "mdnsLossy"
  BY <1>2 DEF Next
<1>3. CASE Next /\ part \notin {"mdnsQuiet", "mdnsLossy"}
  BY <1>3 DEF Next, mdnsVars, Mdns!vars
<1>4. CASE UNCHANGED vars
  BY <1>4 DEF vars, mdnsVars, Mdns!vars
<1> QED
  BY <1>1, <1>2, <1>3, <1>4

LEMMA StepOfTcp ==
  ASSUME [Next]_vars
  PROVE  /\ part = "tcpBack" => Tcp(WritesBack)!Next \/ UNCHANGED Tcp(WritesBack)!vars
         /\ part # "tcpBack" => Tcp(WritesForth)!Next \/ UNCHANGED Tcp(WritesForth)!vars
         /\ UNCHANGED part
<1>1. CASE Next /\ part = "tcp"
  BY <1>1 DEF Next
<1>2. CASE Next /\ part = "tcpBack"
  BY <1>2 DEF Next
<1>3. CASE Next /\ part \notin {"tcp", "tcpBack"}
  BY <1>3 DEF Next, tcpVars, Tcp!vars
<1>4. CASE UNCHANGED vars
  BY <1>4 DEF vars, tcpVars, Tcp!vars
<1> QED
  BY <1>1, <1>2, <1>3, <1>4

\* What is kept of the components that come in two kinds.
StreamInv == /\ part = "tcpBack" => TcpInv(WritesBack)
             /\ part # "tcpBack" => TcpInv(WritesForth)
ClaimInv == /\ part = "slaac" => SlaacInv(FALSE)
            /\ part # "slaac" => SlaacInv(TRUE)
LeaseInv == /\ part # "dhcpFull" => Dhcp!IInv
            /\ part = "dhcpFull" => DhcpFull!IInv

\* The ends of a connection write so many segments, and the bounds of the retries
\* are numbers.
Written == Counting(WritesForth) /\ Counting(WritesBack)

LEMMA StreamInitially ==
  ASSUME Written, Init
  PROVE  StreamInv
BY TcpInitially DEF Init, StreamInv, Written

LEMMA StreamStep ==
  ASSUME Written, [Next]_vars, StreamInv
  PROVE  StreamInv'
<1>1. CASE part = "tcpBack"
  <2>1. /\ TcpInv(WritesBack) /\ part' = part
        /\ Tcp(WritesBack)!Next \/ UNCHANGED Tcp(WritesBack)!vars
    BY <1>1, StepOfTcp DEF StreamInv
  <2>2. TcpInv(WritesBack)'
    BY <2>1, TcpStep DEF Written
  <2> QED
    BY <1>1, <2>1, <2>2 DEF StreamInv
<1>2. CASE part # "tcpBack"
  <2>1. /\ TcpInv(WritesForth) /\ part' = part
        /\ Tcp(WritesForth)!Next \/ UNCHANGED Tcp(WritesForth)!vars
    BY <1>2, StepOfTcp DEF StreamInv
  <2>2. TcpInv(WritesForth)'
    BY <2>1, TcpStep DEF Written
  <2> QED
    BY <1>2, <2>1, <2>2 DEF StreamInv
<1> QED
  BY <1>1, <1>2

LEMMA ClaimInitially ==
  ASSUME Init
  PROVE  ClaimInv
BY SlaacInitially DEF Init, ClaimInv

LEMMA ClaimStep ==
  ASSUME ProbeNb \in Nat, [Next]_vars, ClaimInv
  PROVE  ClaimInv'
<1>1. CASE part = "slaac"
  <2>1. SlaacInv(FALSE) /\ (Slaac(FALSE)!Next \/ UNCHANGED Slaac(FALSE)!vars) /\ part' = part
    BY <1>1, StepOfSlaac DEF ClaimInv
  <2>2. SlaacInv(FALSE)'
    BY <2>1, SlaacStep
  <2> QED
    BY <1>1, <2>1, <2>2 DEF ClaimInv
<1>2. CASE part # "slaac"
  <2>1. SlaacInv(TRUE) /\ (Slaac(TRUE)!Next \/ UNCHANGED Slaac(TRUE)!vars) /\ part' = part
    BY <1>2, StepOfSlaac DEF ClaimInv
  <2>2. SlaacInv(TRUE)'
    BY <2>1, SlaacStep
  <2> QED
    BY <1>2, <2>1, <2>2 DEF ClaimInv
<1> QED
  BY <1>1, <1>2

LEMMA LeaseInitially ==
  ASSUME Init
  PROVE  LeaseInv
BY Dhcp!InitHolds, DhcpFull!InitHolds DEF Init, LeaseInv

LEMMA LeaseStep ==
  ASSUME [Next]_vars, LeaseInv
  PROVE  LeaseInv'
<1>1. CASE part # "dhcpFull"
  <2>1. Dhcp!IInv /\ (Dhcp!Next \/ UNCHANGED Dhcp!vars) /\ part' = part
    BY <1>1, StepOfDhcp DEF LeaseInv
  <2>2. Dhcp!IInv'
    BY <2>1, Dhcp!InvariantStep
  <2> QED
    BY <1>1, <2>1, <2>2 DEF LeaseInv
<1>2. CASE part = "dhcpFull"
  <2>1. DhcpFull!IInv /\ (DhcpFull!Next \/ UNCHANGED DhcpFull!vars) /\ part' = part
    BY <1>2, StepOfDhcp DEF LeaseInv
  <2>2. DhcpFull!IInv'
    BY <2>1, DhcpFull!InvariantStep
  <2> QED
    BY <1>2, <2>1, <2>2 DEF LeaseInv
<1> QED
  BY <1>1, <1>2

\* Whatever groups are joined and left, whatever queries and reports come and however
\* timers run: a change of the filter that one record can carry is carried
\* (pico_igmp.c, pico_mld.c).
THEOREM EveryChangeIsReported ==
  ASSUME Listeners \in Nat
  PROVE  Spec => ReportsCarryChange
<1> DEFINE Kept == IgmpInv /\ MldInv
<1>1. Init => Kept
  BY HostInitially, MldInitially DEF Init
<1>2. Kept /\ [Next]_vars => Kept'
  BY StepOfGroups, StepOfGroups6, HostStep, MldStep
<1>3. Kept /\ [Next]_vars => /\ [Groups4!ChangeIsCarried]_(Groups4!vars)
                             /\ [Groups6!ChangeIsCarried]_(Groups6!vars)
  BY StepOfGroups, StepOfGroups6, HostReports, MldReports
<1> QED
  BY <1>1, <1>2, <1>3, PTL
  DEF Spec, ReportsCarryChange, Groups4!ReportCarriesChange, Groups6!RecordCarriesChange

\* Whatever datagrams are lost, repeated and late: the receiver of a file has its blocks
\* once each and in order, and all of them when the transmitter ends without an error
\* (pico_tftp.c); the transport is given whole datagrams (pico_fragments.c).
THEOREM NothingIsMissing ==
  ASSUME Identified, FilesFit
  PROVE  Spec => []TransfersAreWhole
<1> DEFINE Kept == FragInv /\ TftpInv
<1>1. Init => Kept
  BY FragInitially, TftpInitially DEF Init
<1>2. Kept /\ [Next]_vars => Kept'
  BY StepOfFragments, StepOfTftp, FragStep, TftpStep
<1>3. Kept => TransfersAreWhole
  BY FragMeans, TftpMeans DEF TransfersAreWhole
<1> QED
  BY <1>1, <1>2, <1>3, PTL DEF Spec

\* Nothing is lost on the link where uniqueness of names is asked, and its hosts
\* claim records of one type.
QuietInv(t) == part # "mdnsLossy" => MdnsUnique(QuietLink, t)

LEMMA QuietStep ==
  ASSUME NEW t, IsQuiet(QuietLink, t), [Next]_vars, QuietInv(t)
  PROVE  QuietInv(t)'
<1> SUFFICES ASSUME part # "mdnsLossy" PROVE MdnsUnique(QuietLink, t)'
  BY StepOfMdns DEF QuietInv
<1>1. MdnsUnique(QuietLink, t) /\ (Mdns(QuietLink)!Next \/ UNCHANGED Mdns(QuietLink)!vars)
  BY StepOfMdns DEF QuietInv
<1> QED
  BY <1>1, UniqueStep

\* However clients come and go, messages cross and links fail: no two hosts use one
\* address or one name at a time (pico_dhcp_server.c, pico_ipv6_nd.c, pico_mdns.c),
\* and an address of IPv4 is claimed only after its probes (pico_slaacv4.c).
THEOREM NoAddressIsUsedTwice ==
  ASSUME Detecting, ProbeNb \in Nat, NEW t, IsQuiet(QuietLink, t)
  PROVE  Spec => []AddressesAreUnique
<1> DEFINE Kept == LeaseInv /\ DadInv /\ ClaimInv /\ QuietInv(t)
<1>1. Init => Kept
  BY LeaseInitially, DadInitially, ClaimInitially, UniqueInitially DEF Init, QuietInv
<1>2. Kept /\ [Next]_vars => Kept'
  BY StepOfDad, LeaseStep, DadStep, ClaimStep, QuietStep
<1>3. Kept => AddressesAreUnique
  <2> SUFFICES ASSUME Kept PROVE AddressesAreUnique
    OBVIOUS
  <2>1. part = "dhcp" => Dhcp!LeasesAreDistinct /\ Dhcp!LinkIsLease
    BY Dhcp!LeasesMean DEF LeaseInv
  <2>2. part = "dhcpFull" => DhcpFull!LeasesAreDistinct /\ DhcpFull!LinkIsLease
    BY DhcpFull!LeasesMean DEF LeaseInv
  <2>3. Dad!LinkLocalIsUnique
    BY DadMeans
  <2>4. part = "mdnsQuiet" => Mdns(QuietLink)!UniqueOnLink
    BY UniqueMeans DEF QuietInv
  <2>5. part = "slaac" => Slaac(FALSE)!ClaimedWasProbed /\ Slaac(FALSE)!ClaimedIsLinked
    BY SlaacMeans DEF ClaimInv
  <2>6. part = "slaacHotplug" => Slaac(TRUE)!ClaimedWasProbed /\ Slaac(TRUE)!ClaimedIsLinked
    BY SlaacMeans DEF ClaimInv
  <2> QED
    BY <2>1, <2>2, <2>3, <2>4, <2>5, <2>6 DEF AddressesAreUnique
<1> QED
  BY <1>1, <1>2, <1>3, PTL DEF Spec

\* However segments are lost, repeated and reordered, whatever both ends write and
\* however they close: an application reads what the other one wrote, in order,
\* nothing missing and nothing twice, and is told of the end only when it has, or can
\* still read, all of it (pico_tcp.c).
THEOREM TheStreamIsWhole ==
  ASSUME Written
  PROVE  Spec => []StreamInOrder
<1>1. Init => StreamInv
  BY StreamInitially
<1>2. StreamInv /\ [Next]_vars => StreamInv'
  BY StreamStep
<1>3. StreamInv => StreamInOrder
  <2>1. StreamInv /\ part = "tcp" =>
          Tcp(WritesForth)!StreamInOrder /\ Tcp(WritesForth)!EndIsTheEnd
    BY TcpMeans DEF StreamInv, Written
  <2>2. StreamInv /\ part = "tcpBack" =>
          Tcp(WritesBack)!StreamInOrder /\ Tcp(WritesBack)!EndIsTheEnd
    BY TcpMeans DEF StreamInv, Written
  <2> QED
    BY <2>1, <2>2 DEF StreamInOrder
<1> QED
  BY <1>1, <1>2, <1>3, PTL DEF Spec

\* What is counted of DHCP: its retries, and the addresses of the pool.
CountedInv == /\ part # "dhcpFull" => Dhcp!BInv
              /\ part = "dhcpFull" => DhcpFull!BInv
\* Every host of a link claims some records, whether messages are lost or not.
NamesInv == /\ part # "mdnsLossy" => MdnsShape(QuietLink)
            /\ part = "mdnsLossy" => MdnsShape(LossyLink)

LEMMA CountedInitially ==
  ASSUME Dhcp!Countable, DhcpFull!Countable, Init
  PROVE  CountedInv
BY Dhcp!CountedInitially, DhcpFull!CountedInitially DEF Init, CountedInv

LEMMA CountedStep ==
  ASSUME Dhcp!Countable, DhcpFull!Countable, [Next]_vars, CountedInv
  PROVE  CountedInv'
<1>1. CASE part # "dhcpFull"
  <2>1. Dhcp!BInv /\ (Dhcp!Next \/ UNCHANGED Dhcp!vars) /\ part' = part
    BY <1>1, StepOfDhcp DEF CountedInv
  <2>2. Dhcp!BInv'
    BY <2>1, Dhcp!CountedStep
  <2> QED
    BY <1>1, <2>1, <2>2 DEF CountedInv
<1>2. CASE part = "dhcpFull"
  <2>1. DhcpFull!BInv /\ (DhcpFull!Next \/ UNCHANGED DhcpFull!vars) /\ part' = part
    BY <1>2, StepOfDhcp DEF CountedInv
  <2>2. DhcpFull!BInv'
    BY <2>1, DhcpFull!CountedStep
  <2> QED
    BY <1>2, <2>1, <2>2 DEF CountedInv
<1> QED
  BY <1>1, <1>2

LEMMA CountedInvMeans ==
  ASSUME Dhcp!Countable, DhcpFull!Countable, CountedInv
  PROVE  /\ part # "dhcpFull" => Dhcp!TypeOK /\ Dhcp!AlwaysATimer
         /\ part = "dhcpFull" => DhcpFull!TypeOK /\ DhcpFull!AlwaysATimer
<1>1. Dhcp!BInv => Dhcp!IInv
  BY DEF Dhcp!BInv
<1>2. DhcpFull!BInv => DhcpFull!IInv
  BY DEF DhcpFull!BInv
<1>3. part # "dhcpFull" => Dhcp!TypeOK /\ Dhcp!AlwaysATimer
  BY <1>1, Dhcp!CountedMeans, Dhcp!TimersMean DEF CountedInv
<1>4. part = "dhcpFull" => DhcpFull!TypeOK /\ DhcpFull!AlwaysATimer
  BY <1>2, DhcpFull!CountedMeans, DhcpFull!TimersMean DEF CountedInv
<1> QED
  BY <1>3, <1>4

LEMMA NamesInitially ==
  ASSUME Init
  PROVE  NamesInv
BY MdnsInitially DEF Init, NamesInv

LEMMA NamesStep ==
  ASSUME IsLink(QuietLink), IsLink(LossyLink), [Next]_vars, NamesInv
  PROVE  NamesInv'
<1>1. CASE part # "mdnsLossy"
  <2>1. MdnsShape(QuietLink) /\ part' = part
        /\ (Mdns(QuietLink)!Next \/ UNCHANGED Mdns(QuietLink)!vars)
    BY <1>1, StepOfMdns DEF NamesInv
  <2>2. MdnsShape(QuietLink)'
    BY <2>1, MdnsStep
  <2> QED
    BY <1>1, <2>1, <2>2 DEF NamesInv
<1>2. CASE part = "mdnsLossy"
  <2>1. MdnsShape(LossyLink) /\ part' = part
        /\ (Mdns(LossyLink)!Next \/ UNCHANGED Mdns(LossyLink)!vars)
    BY <1>2, StepOfMdns DEF NamesInv
  <2>2. MdnsShape(LossyLink)'
    BY <2>1, MdnsStep
  <2> QED
    BY <1>2, <2>1, <2>2 DEF NamesInv
<1> QED
  BY <1>1, <1>2

\* What is assumed of the protocols that wait: how often they retry and how many there
\* are can be counted, files and datagrams are such as can be sent.
Waiting == /\ Written /\ Identified /\ FilesFit /\ Counts /\ Searched
           /\ Dhcp!Countable /\ DhcpFull!Countable
           /\ IsLink(QuietLink) /\ IsLink(LossyLink)
           /\ ProbeNb \in Nat /\ Listeners \in Nat

\* What is kept of them.
WaitInv == /\ StreamInv /\ CountedInv /\ TftpInv /\ NamesInv /\ PppInv
           /\ FragInv /\ ClaimInv /\ MldInv /\ IgmpInv /\ AodvInv

LEMMA WaitStep ==
  ASSUME Waiting, [Next]_vars, WaitInv
  PROVE  WaitInv'
<1>1. StreamInv' /\ CountedInv' /\ NamesInv' /\ ClaimInv'
  BY StreamStep, CountedStep, NamesStep, ClaimStep DEF WaitInv, Waiting
<1>2. TftpInv' /\ FragInv'
  BY StepOfTftp, StepOfFragments, TftpStep, FragStep DEF WaitInv, Waiting
<1>3. PppInv' /\ AodvInv'
  BY StepOfPpp, StepOfAodv, PppStep DEF WaitInv, Waiting
<1>4. MldInv' /\ IgmpInv'
  BY StepOfGroups, StepOfGroups6, HostStep, MldStep DEF WaitInv, Waiting
<1> QED
  BY <1>1, <1>2, <1>3, <1>4 DEF WaitInv

LEMMA WaitMeans ==
  ASSUME Waiting, WaitInv
  PROVE  WaitersAreTimed
<1>1. /\ part = "tcp" => Tcp(WritesForth)!TypeOK /\ Tcp(WritesForth)!FinIsTimed
      /\ part = "tcpBack" => Tcp(WritesBack)!TypeOK /\ Tcp(WritesBack)!FinIsTimed
  BY TcpMeans DEF WaitInv, Waiting, StreamInv, Written
<1>2. /\ part = "dhcp" => Dhcp!TypeOK /\ Dhcp!AlwaysATimer
      /\ part = "dhcpFull" => DhcpFull!TypeOK /\ DhcpFull!AlwaysATimer
  BY CountedInvMeans DEF WaitInv, Waiting
<1>3. /\ part = "mdnsQuiet" => Mdns(QuietLink)!TypeOK /\ Mdns(QuietLink)!ProbingHasCookie
      /\ part = "mdnsLossy" => Mdns(LossyLink)!TypeOK /\ Mdns(LossyLink)!ProbingHasCookie
  BY MdnsMeans DEF WaitInv, NamesInv
<1>4. Tftp!TypeOK /\ Ppp!TypeOK /\ Ppp!NegotiationIsTimed
  BY TftpMeans, PppMeans DEF WaitInv, Waiting
<1>5. Fragments("ipv4")!InProgressIsTimed /\ Fragments("ipv6")!InProgressIsTimed
  BY FragMeans DEF WaitInv
<1>6. /\ part = "slaac" => Slaac(FALSE)!TimerOfState
      /\ part = "slaacHotplug" => Slaac(TRUE)!TimerOfState
  BY SlaacMeans DEF WaitInv, ClaimInv
<1>7. /\ Groups6!RunningIsPending /\ Groups6!TimerHasAlarm
      /\ Groups4!TimerMeansPending /\ Aodv!SearchIsTimed
  BY MldTimers, HostMeans, AodvMeans DEF WaitInv, Waiting
<1> QED
  BY <1>1, <1>2, <1>3, <1>4, <1>5, <1>6, <1>7 DEF WaitersAreTimed

\* Whatever is lost and however often it is repeated: who waits for a message has a
\* timer that moves it on, and retries are counted - a FIN (pico_tcp.c), a client of
\* DHCP, a block of a file, a record that is probed for, a negotiation of PPP, a
\* datagram that is not complete, an address that is claimed, a report of a group
\* and a search for a route.
THEOREM NobodyWaitsUntimed ==
  ASSUME Waiting
  PROVE  Spec => []WaitersAreTimed
<1>1. Init => WaitInv
  <2> SUFFICES ASSUME Init PROVE WaitInv
    OBVIOUS
  <2>1. StreamInv /\ CountedInv /\ NamesInv /\ ClaimInv
    BY StreamInitially, CountedInitially, NamesInitially, ClaimInitially DEF Waiting
  <2>2. TftpInv /\ FragInv
    BY TftpInitially, FragInitially DEF Init, Waiting
  <2>3. PppInv /\ AodvInv /\ MldInv /\ IgmpInv
    BY PppInitially, AodvInitially, MldInitially, HostInitially DEF Init, Waiting
  <2> QED
    BY <2>1, <2>2, <2>3 DEF WaitInv
<1>2. WaitInv /\ [Next]_vars => WaitInv'
  BY WaitStep
<1>3. WaitInv => WaitersAreTimed
  BY WaitMeans
<1> QED
  BY <1>1, <1>2, <1>3, PTL DEF Spec
=============================================================================
