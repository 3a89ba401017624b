---------------------------- MODULE MCProtocols -----------------------------
(***************************************************************************)
(* The protocols of picoTCP whose properties are invariants or forbid      *)
(* steps. No two of them run together: each behaviour is one of the        *)
(* component that part names, the others stand still. What they share, the *)
(* timers and the queues, each models as far as it needs it. Most          *)
(* protocols are declared in Network_proofs and Services_proofs, the       *)
(* lemmas about them with them.                                            *)
(***************************************************************************)
EXTENDS Network_proofs, Services_proofs

CONSTANTS Parts,                            \* the components of this run
          WritesForth, WritesBack,          \* of TcpConnection
          DhcpClients, DhcpHosts, PoolEnd,  \* of DhcpLease
          FullClients, FullHosts, FullEnd,  \* of DhcpLease, the pool full
          DhcpTroubled, DhcpRetries,        \* of both
          QuietLink, LossyLink              \* of Mdns

VARIABLES part,   \* the component that runs
  cookie, server

\* Two datagrams of one sender and one of another that has the same id.
SomeDatagrams == "a" :> [id |-> 1, source |-> "x", last |-> 3] @@
                 "b" :> [id |-> 2, source |-> "x", last |-> 2] @@
                 "c" :> [id |-> 1, source |-> "y", last |-> 3]
\* The segments that the two ends of a connection write, one way and the other.
Forth == "A" :> 2 @@ "B" :> 0
Back == "A" :> 0 @@ "B" :> 1
\* The devices of the DHCP clients; where the pool is full two share a device.
TwoDevices == "c1" :> "h1" @@ "c2" :> "h2"
SharedDevice == "c1" :> "h1" @@ "c2" :> "h2" @@ "c3" :> "h1"
\* Files of one block and more, the last of them not full or as good as full.
SomeFiles == {<<"short">>, <<"full", "near">>, <<"full", "full", "short">>}
\* A link of mDNS that loses nothing, where three hosts claim a name, and one that
\* loses messages, where two claim it and ask for it.
SomeQuiet == [hosts |-> {1, 2, 3}, claims |-> [h \in {1, 2, 3} |-> {"A"}],
              queries |-> {}, probes |-> 2, announces |-> 2, reliable |-> TRUE]
SomeLossy == [hosts |-> {1, 2}, claims |-> [h \in {1, 2} |-> {"A"}],
              queries |-> {"A"}, probes |-> 1, announces |-> 1, reliable |-> FALSE]
\* The last bytes of the addresses of IPv6, which groups are made of.
SomeSuffixes == "ll1" :> 1 @@ "ll2" :> 2 @@ "g" :> 3
\* The network of every address: the host's own on two networks, its gateway
\* on the first, a neighbour on the second, and one far away.
Networks4 == [a \in {"a1", "g1", "a2", "h2", "far"} |->
                CASE a \in {"a1", "g1"} -> "n1" [] a = "far" -> "n3" [] OTHER -> "n2"]
\* The same for IPv6: two addresses on one device, of which one can be announced by
\* the router r, and one on another device.
Devices6 == "ll1" :> "d1" @@ "a1" :> "d1" @@ "b2" :> "d2"
Networks6 == "ll1" :> "fe80" @@ "r" :> "fe80" @@ "a1" :> "p" @@ "n" :> "p" @@
             "b2" :> "q"
\* The neighbour that has, or leads to, each destination.
SomeHops == "a" :> "a" @@ "b" :> "b" @@ "far" :> "a"
\* The sequence numbers that come up in a search: those of a host far away, those
\* of a neighbour, or those of a neighbour and of the host itself.
SomeFar == "n" :> 0 @@ "f" :> 2 @@ "me" :> 0
SomeNear == "n" :> 2 @@ "f" :> 0 @@ "me" :> 0
SomeOwn == "n" :> 1 @@ "f" :> 0 @@ "me" :> 1
\* What the peers of a PPP link ask for: no login or PAP, or CHAP.
SomePeers == {{"none", "pap"}, {"chap"}}

Dhcp == INSTANCE DhcpLease_proofs WITH Clients <- DhcpClients,
  HostOf <- DhcpHosts, Troubled <- DhcpTroubled, Retries <- DhcpRetries
DhcpFull == INSTANCE DhcpLease_proofs WITH Clients <- FullClients,
  HostOf <- FullHosts, Troubled <- DhcpTroubled, PoolEnd <- FullEnd,
  Retries <- DhcpRetries

dhcpVars == <<cookie, server>>
vars == <<part, tcpVars, socketVars, fragmentVars, arpVars, routeVars,
                route6Vars, groupVars, group6Vars, dhcpVars, tftpVars,
                mdnsVars, slaacVars, ndVars, dnsVars, dadVars, pppVars,
                aodvVars>>

\* Components that are not chosen start in one state only.
Init == /\ part \in Parts
        /\ IF part = "tcpBack" THEN Tcp(WritesBack)!Init ELSE Tcp(WritesForth)!Init
        /\ Sockets!Init
        /\ IF part = "fragments6" THEN Fragments("ipv6")!Init ELSE Fragments("ipv4")!Init
        /\ Neighbour4!Init
        /\ Routes!Init
        /\ Routes6!Init
        /\ Groups4!Init
        /\ Groups6!Init
        /\ IF part = "dhcpFull" THEN DhcpFull!Init ELSE Dhcp!Init
        /\ Tftp!Init
        /\ IF part = "mdnsLossy" THEN Mdns(LossyLink)!Init ELSE Mdns(QuietLink)!Init
        /\ IF part = "slaac" THEN Slaac(FALSE)!Init ELSE Slaac(TRUE)!Init
        /\ Neighbour6!Init
        /\ Dns!Init
        /\ Dad!Init
        /\ Ppp!Init
        /\ Aodv!Init
        /\ part # "ppp" => "pap" \in ppp.offers
        /\ part # "tftp" => tftpFile = CHOOSE f \in Files : TRUE
        /\ part # "dad" => \A h \in DadHosts :
                             linkUp[h] /\ address6[h][CHOOSE a \in LinkLocals : TRUE] = Dad!Tentative

Next == /\ UNCHANGED part
        /\ CASE part = "tcp" -> Tcp(WritesForth)!Next
             [] part = "tcpBack" -> Tcp(WritesBack)!Next
             [] OTHER -> UNCHANGED tcpVars
        /\ IF part = "sockets" THEN Sockets!Next ELSE UNCHANGED socketVars
        /\ CASE part = "fragments4" -> Fragments("ipv4")!Next
             [] part = "fragments6" -> Fragments("ipv6")!Next
             [] OTHER -> UNCHANGED fragmentVars
        /\ IF part = "arp" THEN Neighbour4!Next ELSE UNCHANGED arpVars
        /\ IF part = "routes" THEN Routes!Next ELSE UNCHANGED routeVars
        /\ IF part = "routes6" THEN Routes6!Next ELSE UNCHANGED route6Vars
        /\ IF part = "igmp" THEN Groups4!Next ELSE UNCHANGED groupVars
        /\ IF part = "mld" THEN Groups6!Next ELSE UNCHANGED group6Vars
        /\ CASE part = "dhcp" -> Dhcp!Next
             [] part = "dhcpFull" -> DhcpFull!Next
             [] OTHER -> UNCHANGED dhcpVars
        /\ IF part = "tftp" THEN Tftp!Next ELSE UNCHANGED tftpVars
        /\ CASE part = "mdnsQuiet" -> Mdns(QuietLink)!Next
             [] part = "mdnsLossy" -> Mdns(LossyLink)!Next
             [] OTHER -> UNCHANGED mdnsVars
        /\ CASE part = "slaacHotplug" -> Slaac(TRUE)!Next
             [] part = "slaac" -> Slaac(FALSE)!Next
             [] OTHER -> UNCHANGED slaacVars
        /\ IF part = "nd" THEN Neighbour6!Next ELSE UNCHANGED ndVars
        /\ IF part = "dns" THEN Dns!Next ELSE UNCHANGED dnsVars
        /\ IF part = "dad" THEN Dad!Next ELSE UNCHANGED dadVars
        /\ IF part = "ppp" THEN Ppp!Next ELSE UNCHANGED pppVars
        /\ CASE part = "aodv" -> Aodv!Next
             [] part = "aodvNear" -> Aodv!NextUpTo(NearSeq)
             [] part = "aodvOwn" -> Aodv!NextUpTo(OwnSeq)
             [] OTHER -> UNCHANGED aodvVars

Spec == Init /\ [][Next]_vars

-----------------------------------------------------------------------------
\* An application reads what the other one wrote, in order, nothing missing
\* and nothing twice, and is told of the end only when it has read, or can
\* still read, all of it (pico_tcp.c).
StreamInOrder ==
  /\ part = "tcp" => Tcp(WritesForth)!StreamInOrder /\ Tcp(WritesForth)!EndIsTheEnd
  /\ part = "tcpBack" => Tcp(WritesBack)!StreamInOrder /\ Tcp(WritesBack)!EndIsTheEnd

\* The receiver of a file is given its blocks once each and in order, and
\* has them all when the transmitter ends without an error (pico_tftp.c).
\* The transport is given one datagram, its fragments in order, as soon as
\* they are all there (pico_fragments.c).
TransfersAreWhole ==
  /\ part = "tftp" => /\ Tftp!FileInOrder
                      /\ Tftp!DoneMeansDelivered
                      /\ Tftp!OneBlockInFlight
  /\ part = "fragments4" => /\ Fragments("ipv4")!WholeDatagram
                            /\ Fragments("ipv4")!CompleteIsDelivered
  /\ part = "fragments6" => /\ Fragments("ipv6")!WholeDatagram
                            /\ Fragments("ipv6")!CompleteIsDelivered

\* Two hosts never use one address or one name at a time: two clients a
\* lease of the server (pico_dhcp_server.c), two hosts a link-local address
\* of IPv6 (pico_ipv6_nd.c) or, when nothing is lost, a name (pico_mdns.c).
\* Who claims an address of IPv4 has probed for it as often as it has to,
\* and has it on the link (pico_slaacv4.c).
AddressesAreUnique ==
  /\ part = "dhcp" => Dhcp!LeasesAreDistinct /\ Dhcp!LinkIsLease
  /\ part = "dhcpFull" => DhcpFull!LeasesAreDistinct /\ DhcpFull!LinkIsLease
  /\ part = "dad" => Dad!LinkLocalIsUnique
  /\ part = "mdnsQuiet" => Mdns(QuietLink)!UniqueOnLink
  /\ part = "slaac" => Slaac(FALSE)!ClaimedWasProbed /\ Slaac(FALSE)!ClaimedIsLinked
  /\ part = "slaacHotplug" => /\ Slaac(TRUE)!ClaimedWasProbed
                              /\ Slaac(TRUE)!ClaimedIsLinked

\* Who waits for a message has a timer that will move it on, and its retries
\* stay within their number: a FIN, a DHCP client in every state, a block of
\* a file, a record that is probed for, a negotiation of PPP, a datagram
\* that is not complete, an address that is claimed, a report of MLD or
\* IGMP, a search for a route.
WaitersAreTimed ==
  /\ part = "tcp" => Tcp(WritesForth)!TypeOK /\ Tcp(WritesForth)!FinIsTimed
  /\ part = "tcpBack" => Tcp(WritesBack)!TypeOK /\ Tcp(WritesBack)!FinIsTimed
  /\ part = "dhcp" => Dhcp!TypeOK /\ Dhcp!AlwaysATimer
  /\ part = "dhcpFull" => DhcpFull!TypeOK /\ DhcpFull!AlwaysATimer
  /\ part = "tftp" => Tftp!TypeOK
  /\ part = "mdnsQuiet" => Mdns(QuietLink)!TypeOK /\ Mdns(QuietLink)!ProbingHasCookie
  /\ part = "mdnsLossy" => Mdns(LossyLink)!TypeOK /\ Mdns(LossyLink)!ProbingHasCookie
  /\ part = "ppp" => Ppp!TypeOK /\ Ppp!NegotiationIsTimed
  /\ part = "fragments4" => Fragments("ipv4")!InProgressIsTimed
  /\ part = "fragments6" => Fragments("ipv6")!InProgressIsTimed
  /\ part = "slaac" => Slaac(FALSE)!TimerOfState
  /\ part = "slaacHotplug" => Slaac(TRUE)!TimerOfState
  /\ part = "mld" => Groups6!RunningIsPending /\ Groups6!TimerHasAlarm
  /\ part = "igmp" => Groups4!TimerMeansPending
  /\ part \in {"aodv", "aodvNear", "aodvOwn"} => Aodv!SearchIsTimed

\* No table of a port has a socket that was deleted, the backlog of a
\* listener counts its children that are neither accepted nor deleted, and a
\* socket is freed by one timer at most (pico_socket.c); no route and no
\* default leads through a link that was freed (pico_ipv4.c, pico_ipv6.c),
\* and no address outlives the lifetime a router has announced.
NothingDangles ==
  /\ part = "sockets" => /\ Sockets!TypeOK
                         /\ Sockets!PendingAreChildren
                         /\ Sockets!NothingDangles
  /\ part = "routes" => Routes!NoStaleLink
  /\ part = "routes6" => Routes6!NoStaleLink /\ Routes6!ExpiredIsGone

\* The neighbours of every link are reached through a link of their network,
\* whatever other routes come and go, and a frame that comes round again is
\* not forwarded again (pico_ipv4.c); a global address is reached through a
\* global one, and a link-local one never by a route (pico_ipv6.c). No frame
\* is left waiting for an address that is known (pico_arp.c), or for one
\* that is not asked for, and a neighbour counts as reachable only at the
\* address it gave last (pico_ipv6_nd.c). A search leaves one route at most,
\* and a request that comes from several neighbours is passed on once
\* (pico_aodv.c).
FramesFindTheirWay ==
  /\ part = "routes" => Routes!NeighboursAreReached /\ Routes!ForwardedOnce
  /\ part = "routes6" => /\ Routes6!NeighboursAreReached
                         /\ Routes6!GlobalThroughGlobal
                         /\ Routes6!ScopeIsKept
  /\ part = "arp" => Neighbour4!WaitingIsUnresolved
  /\ part = "nd" => Neighbour6!WaitingIsAskedFor /\ Neighbour6!ReachableAsSaid
  /\ part \in {"aodv", "aodvNear", "aodvOwn"} => Aodv!OneRoute /\ Aodv!ForwardedOnce

\* A group is on the link as long as a socket listens to it, and the link
\* lets no source through that no socket listens to
\* (pico_socket_multicast.c).
FiltersAgree ==
  part = "igmp" => Groups4!ReferencesAreListeners /\ Groups4!NoUnwantedSource

\* A change of the filter that one record can carry is carried: a router
\* that knew the old filter lets through, after the report, what passes the
\* new one (pico_igmp.c, pico_mld.c).
ReportsCarryChange == Groups4!ReportCarriesChange /\ Groups6!RecordCarriesChange

\* Addresses are negotiated only over an open and authenticated link, and
\* LCP negotiates or is open exactly when the modem is connected
\* (pico_dev_ppp.c).
LinkIsAuthenticated == part = "ppp" => Ppp!LinkIsAuthenticated /\ Ppp!ModemFollowsLcp

\* No callback of a DNS request is called twice, however late or mixed up
\* answers and timers are; a request that was accepted and not answered is
\* still asked under one number, of a server there is (pico_dns_client.c).
CalledOnce ==
  part = "dns" => Dns!TypeOK /\ Dns!CalledOnce /\ Dns!StillAsked /\ Dns!AlwaysAServer
=============================================================================
