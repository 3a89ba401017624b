----------------------------- MODULE Ipv4Routes -----------------------------
(***************************************************************************)
(* Links and routes of IPv4, and the way of a frame in, out and through    *)
(* (pico_ipv4.c).  Addresses are names with a network; a route leads to a  *)
(* network, to the multicast range or anywhere.  Checksums, options, the   *)
(* filter, NAT and the groups of a link have no place here.                *)
(***************************************************************************)
EXTENDS Naturals, FiniteSets

CONSTANTS Locals,     \* addresses a link can have, each on a device of its own
          Gateways,   \* addresses of neighbours that forward
          Hosts,      \* addresses of other hosts
          NetOf,      \* the network of every address
          Metrics,    \* metrics of the routes a user adds
          MaxId       \* numbers of the frames that come in

VARIABLES links,    \* Tree_dev_link: the local addresses that have a link
          routes,   \* Routes
          bcastLink, mcastLink,  \* default_bcast_route.link, mcast_default_link
          wire,     \* the link by which the last frame left
          last,     \* pre_forward_checks: the last frame that was forwarded
          forwards  \* how often the frame in last was forwarded in a row

vars == <<links, routes, bcastLink, mcastLink, wire, last, forwards>>

None == "none"
Broadcast == "255.255.255.255"
Group == "224.0.0.9"
Anywhere == "any"
McastNet == "mcast"
Route(dest, gateway, metric, link) ==
  [dest |-> dest, gateway |-> gateway, metric |-> metric, link |-> link]
NoFrame == [src |-> None, dst |-> None, id |-> 0]

Init == /\ links = {} /\ routes = {}
        /\ bcastLink = None /\ mcastLink = None
        /\ wire = None /\ last = NoFrame /\ forwards = 0

Prefix(dest) == IF dest = Anywhere THEN 0 ELSE IF dest = McastNet THEN 1 ELSE 2
NetworkOf(a) == IF a = Group THEN McastNet ELSE NetOf[a]
Matches(table, a) == {r \in table : r.dest \in {Anywhere, NetworkOf(a)}}

\* ipv4_route_compare, walked from its end: the longer mask first, and of two
\* routes to one network the one with the greater metric.
\* (mutant: the shorter mask first)
Before_Short(r, s) == \/ Prefix(r.dest) < Prefix(s.dest)
                      \/ Prefix(r.dest) = Prefix(s.dest) /\ r.metric > s.metric
Before(r, s) == \/ Prefix(r.dest) > Prefix(s.dest)
                \/ Prefix(r.dest) = Prefix(s.dest) /\ r.metric > s.metric
BcastRoute == Route(Broadcast, None, 1000, bcastLink)
\* route_find, in a table that has a match.
RouteFind(table, a) ==
  IF a = Broadcast THEN BcastRoute
  ELSE CHOOSE r \in Matches(table, a) : \A s \in Matches(table, a) \ {r} : Before(r, s)
Reached(table, a) == a = Broadcast \/ Matches(table, a) # {}

Taken(table, dest, metric) == \E r \in table : r.dest = dest /\ r.metric = metric
\* pico_ipv4_route_add: what the table is after it, also when it refuses.  Through
\* a gateway the route has the link of the neighbour's route, not the one given.
Added(table, dest, gateway, metric, link) ==
  IF Taken(table, dest, metric) THEN table
  ELSE IF gateway = None THEN table \cup {Route(dest, None, metric, link)}
  ELSE IF ~Reached(table, gateway) \/ RouteFind(table, gateway).gateway # None THEN table
  ELSE table \cup {Route(dest, gateway, metric, RouteFind(table, gateway).link)}

\* The user routes what is not the network of a link: those are left to the links.
Networks == ({NetOf[a] : a \in Hosts} \ {NetOf[l] : l \in Locals}) \cup {Anywhere}
RouteAdd(dest, gateway, metric, link) ==
  /\ gateway = None => link \in links
  /\ routes' = Added(routes, dest, gateway, metric, link)
  /\ UNCHANGED <<links, bcastLink, mcastLink, wire, last, forwards>>
RouteDel(r) == /\ r.dest \in Networks
               /\ routes' = routes \ {r}
               /\ UNCHANGED <<links, bcastLink, mcastLink, wire, last, forwards>>

\* pico_ipv4_link_add: a network that is routed already is left as it is, and
\* nobody is told.
LinkAdd(l) ==
  /\ l \notin links /\ links' = links \cup {l}
  /\ mcastLink' = IF mcastLink = None THEN l ELSE mcastLink
  /\ bcastLink' = IF bcastLink = None THEN l ELSE bcastLink
  /\ LET table == IF mcastLink = None THEN Added(routes, McastNet, None, 1, l) ELSE routes
     IN routes' = Added(table, NetOf[l], None, 1, l)
  /\ UNCHANGED <<wire, last, forwards>>

\* pico_ipv4_cleanup_routes
\* (mutant: the routes through a gateway stay)
Without_Gateways(table, l) == {r \in table : r.link # l \/ r.gateway # None}
Without(table, l) == {r \in table : r.link # l}
\* pico_ipv4_link_del: another link does not take over broadcast and multicast.
LinkDel(l) ==
  /\ l \in links /\ links' = links \ {l}
  /\ mcastLink' = IF mcastLink = l THEN None ELSE mcastLink
  /\ bcastLink' = IF bcastLink = l THEN None ELSE bcastLink
  /\ routes' = Without(IF mcastLink = l THEN {r \in routes : r.dest # McastNet \/ r.metric # 1}
                       ELSE routes, l)
  /\ UNCHANGED <<wire, last, forwards>>

Out(r) == wire' = r.link
\* pico_ipv4_frame_push: to a local address
\* the frame comes back in.  A broadcast without a link reads the address of none;
\* the model does not go on there.
Push(dst) ==
  /\ dst = Broadcast => bcastLink # None
  /\ IF Reached(routes, dst) /\ dst \notin links
     THEN Out(RouteFind(routes, dst)) ELSE UNCHANGED wire
  /\ UNCHANGED <<links, routes, bcastLink, mcastLink, last, forwards>>

\* pico_ipv4_rebound: an answer goes to where the frame came from; a large one in
\* pieces, which all take the same way.
Rebound(src) == Push(src)

\* pico_ipv4_process_in: what is for us, for everybody or for a group goes up.
ForUs(dst) == dst \in links \cup {Broadcast, Group}
\* pico_ipv4_forward and its checks.
\* (mutant: a frame is not compared with the one before)
Repeated_Never(f) == FALSE
Repeated(f) == f = last
Forwardable(f, ttl) == ttl > 1 /\ f.src \notin links /\ ~Repeated(f)
Forward(f, ttl) ==
  IF ~Reached(routes, f.dst) \/ ~Forwardable(f, ttl)
  THEN UNCHANGED <<wire, last, forwards>>
  ELSE /\ Out(RouteFind(routes, f.dst)) /\ last' = f
       /\ forwards' = IF f = last THEN forwards + 1 ELSE 1
Receive(f, ttl) ==
  /\ IF ForUs(f.dst) THEN UNCHANGED <<wire, last, forwards>> ELSE Forward(f, ttl)
  /\ UNCHANGED <<links, routes, bcastLink, mcastLink>>

Frames == [src : Hosts, dst : Hosts \cup Locals, id : 1 .. MaxId]
Next == \/ \E l \in Locals : LinkAdd(l) \/ LinkDel(l)
        \/ \E d \in Networks, m \in Metrics :
              \/ \E l \in Locals : RouteAdd(d, None, m, l)
              \/ \E g \in Gateways : RouteAdd(d, g, m, None)
        \/ \E r \in routes : RouteDel(r)
        \/ \E a \in Hosts \cup Locals \cup {Broadcast, Group} : Push(a)
        \/ \E a \in Hosts : Rebound(a)
        \/ \E f \in Frames, ttl \in {1, 2} : Receive(f, ttl)

Spec == Init /\ [][Next]_vars

-----------------------------------------------------------------------------
(* Properties.                                                             *)

\* What is remembered of a link goes with it: no route and no default leads
\* through memory that was freed (pico_ipv4.c:1312-1317).
NoStaleLink == /\ \A r \in routes : r.link \in links
               /\ {bcastLink, mcastLink} \subseteq links \cup {None}

\* The neighbours of every link are reached through a link of their network and
\* without a gateway, whatever other routes come and go (pico_ipv4.c:564, 1244).
NeighboursAreReached ==
  \A l \in links, a \in Hosts \cup Gateways : NetOf[a] = NetOf[l] =>
    /\ Reached(routes, a)
    /\ \E r \in Matches(routes, a) : /\ r.dest = NetOf[l] /\ r.gateway = None
                                     /\ NetOf[r.link] = NetOf[l]
    /\ RouteFind(routes, a).dest = NetOf[l]

\* A frame that comes round again is not forwarded again (pico_ipv4.c:1490).
ForwardedOnce == forwards <= 1

\* Of two routes to a network the one with the lower metric is taken.
\* (The code breaks it: see the README.)
LowestMetricIsTaken == \A a \in Hosts : Reached(routes, a) =>
  \A r \in Matches(routes, a) :
     r.dest = RouteFind(routes, a).dest => RouteFind(routes, a).metric <= r.metric
=============================================================================
