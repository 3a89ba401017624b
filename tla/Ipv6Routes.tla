----------------------------- MODULE Ipv6Routes -----------------------------
(***************************************************************************)
(* Links, lifetimes and routes of IPv6 and the announcements of routers    *)
(* (pico_ipv6.c, radv_process of pico_ipv6_nd.c, pico_device.c), and where *)
(* a frame goes.  Sending and forwarding change nothing but the frame:     *)
(* they are operators on it.  The detection of duplicates is in Ipv6Dad,   *)
(* the cache of neighbours in Ipv6Nd; checksums, options and the groups of *)
(* a link have no place here.                                              *)
(***************************************************************************)
EXTENDS Naturals, Sequences, FiniteSets

CONSTANTS Locals,     \* addresses a link can have
          Others,     \* addresses of neighbours, routers and far hosts
          Routers,    \* those that announce prefixes, from link-local addresses
          DevOf,      \* the device of every local address
          NetOf,      \* the prefix of every address; LinkLocal is one
          Announced,  \* the prefixes routers announce
          Routed,     \* what else the user routes: prefixes or Anywhere
          Lifetimes,  \* valid lifetimes of an announcement, in seconds
          TwoHours,   \* TWO_HOURS
          Forever,    \* 0xFFFFFFFE: a later time means no end
          MaxTime     \* bound of the clock

VARIABLES links,      \* IPV6Links, the local addresses that have a link
          tentative,  \* those whose address is not confirmed yet
          expire,     \* expire_time of every link, 0 for never
          now,        \* the seconds passed
          routes,     \* IPV6Routes
          mcastLink   \* mcast_default_link_ipv6

vars == <<links, tentative, expire, now, routes, mcastLink>>

None == "none"
LinkLocal == "fe80"
Group == "ff02::5"
McastNet == "mcast"
Anywhere == "any"
Route(dest, gateway, metric, link) ==
  [dest |-> dest, gateway |-> gateway, metric |-> metric, link |-> link]
Devices == {DevOf[l] : l \in Locals}
NetworkOf(a) == IF a = Group THEN McastNet ELSE NetOf[a]
\* pico_ipv6_is_global, of an address or of the destination of a route.
GlobalNet(net) == net \notin {LinkLocal, McastNet, Anywhere}
IsGlobal(a) == GlobalNet(NetworkOf(a))
\* pico_ipv6_link_get finds no tentative address.
Ours == links \ tentative

Init == /\ links = {} /\ tentative = {} /\ routes = {} /\ mcastLink = None
        /\ expire = [l \in Locals |-> 0] /\ now = 1

-----------------------------------------------------------------------------
(* The tables.  What several handlers change is a record of them.          *)

State == [links |-> links, tentative |-> tentative, expire |-> expire,
          routes |-> routes, mcast |-> mcastLink]
Becomes(s) == /\ links' = s.links /\ tentative' = s.tentative /\ expire' = s.expire
              /\ routes' = s.routes /\ mcastLink' = s.mcast

Prefix(dest) == IF dest = Anywhere THEN 0 ELSE IF dest = McastNet THEN 1 ELSE 2
\* ipv6_route_compare, walked from its end: the longer mask first, and of two
\* routes to one prefix the one with the greater metric.
\* (mutant: the shorter mask first)
Before_Short(r, t) == \/ Prefix(r.dest) < Prefix(t.dest)
                      \/ Prefix(r.dest) = Prefix(t.dest) /\ r.metric > t.metric
Before(r, t) == \/ Prefix(r.dest) > Prefix(t.dest)
                \/ Prefix(r.dest) = Prefix(t.dest) /\ r.metric > t.metric
\* No route is looked for to a link-local address.
\* (mutant: it is looked for like any other)
Matches_AnyScope(table, a) == {r \in table : r.dest \in {Anywhere, NetworkOf(a)}}
Matches(table, a) == {r \in table : /\ NetworkOf(a) # LinkLocal
                                    /\ r.dest \in {Anywhere, NetworkOf(a)}}
Reached(table, a) == Matches(table, a) # {}
\* pico_ipv6_route_find, in a table that has a match.
RouteFind(table, a) ==
  CHOOSE r \in Matches(table, a) : \A t \in Matches(table, a) \ {r} : Before(r, t)

\* pico_ipv6_global_get: the first global address of the device.
Globals(present, dev) == {l \in present : DevOf[l] = dev /\ IsGlobal(l)}
\* pico_ipv6_route_add, the link of the new route: with a neighbour for a gateway
\* that of the way to it, else the one given; to a global prefix a global one.
ViaLink(table, gateway, link) ==
  IF gateway # None /\ Reached(table, gateway) /\ RouteFind(table, gateway).gateway = None
  THEN RouteFind(table, gateway).link ELSE link
\* (mutant: the link is taken as it is)
Scoped_AsGiven(present, dest, link) == link
Scoped(present, dest, link) ==
  IF link = None \/ ~GlobalNet(dest) \/ IsGlobal(link) THEN link
  ELSE IF Globals(present, DevOf[link]) = {} THEN None
  ELSE CHOOSE l \in Globals(present, DevOf[link]) : TRUE
\* What the table is after it, also when it refuses.
Added(s, dest, gateway, metric, link) ==
  LET via == Scoped(s.links, dest, ViaLink(s.routes, gateway, link))
  IN IF via = None \/ \E r \in s.routes : r.dest = dest /\ r.metric = metric
     THEN s
     ELSE [s EXCEPT !.routes = @ \cup {Route(dest, gateway, metric, via)}]

\* pico_ipv6_link_add: the results of adding the routes are not looked at.
LinkAdded(s, l) ==
  LET new   == [s EXCEPT !.links = @ \cup {l}, !.tentative = @ \cup {l}]
      first == IF new.mcast # None THEN new
               ELSE Added([new EXCEPT !.mcast = l], McastNet, None, 1, l)
  IN Added(Added(first, NetOf[l], None, 1, l), McastNet, None, 1, l)

\* pico_ipv6_cleanup_routes
\* (mutant: the routes through a gateway stay)
Without_Gateways(table, gone) == {r \in table : r.link \notin gone \/ r.gateway # None}
Without(table, gone) == {r \in table : r.link \notin gone}
\* pico_ipv6_link_del of each of them; mcast_default_link_ipv6 is left alone.
LinksDeleted(s, gone) ==
  [s EXCEPT !.links = @ \ gone, !.tentative = @ \ gone, !.routes = Without(@, gone),
            !.expire = [l \in Locals |-> IF l \in gone THEN 0 ELSE @[l]]]

\* pico_ipv6_lifetime_set, to an end that is later than now.
LifetimeSet(s, l, end) ==
  [s EXCEPT !.expire[l] = IF end > Forever THEN 0
                          ELSE IF end > now + TwoHours \/ end > @ THEN end
                          ELSE now + TwoHours]

-----------------------------------------------------------------------------
LinkAdd(l) == /\ l \notin links
              /\ Becomes(LinkAdded(State, l)) /\ UNCHANGED now
\* By the user, or by the detection of a duplicate.
LinkDel(l) == /\ l \in links
              /\ Becomes(LinksDeleted(State, {l})) /\ UNCHANGED now
\* pico_ipv6_cleanup_links, when a device is destroyed.
CleanupLinks(dev) ==
  /\ Becomes(LinksDeleted(State, {l \in links : DevOf[l] = dev})) /\ UNCHANGED now
\* pico_ipv6_nd_dad: nobody else has the address.
Confirm(l) == /\ l \in tentative /\ tentative' = tentative \ {l}
              /\ UNCHANGED <<links, expire, now, routes, mcastLink>>

RouteAdd(dest, gateway, link) ==
  /\ link \in links \cup {None}
  /\ Becomes(Added(State, dest, gateway, 1, link)) /\ UNCHANGED now
RouteDel(r) == /\ r.dest \in Routed
               /\ routes' = routes \ {r}
               /\ UNCHANGED <<links, tentative, expire, now, mcastLink>>
\* pico_ipv6_router_down, when a neighbour says that it is no router any more.
RouterDown(address) ==
  /\ routes' = {r \in routes : r.gateway # address}
  /\ UNCHANGED <<links, tentative, expire, now, mcastLink>>

\* pico_ipv6_prefix_configured: an address with the prefix, on whatever device and
\* whoever has added it; the first in the tree, here any.
Configured(prefix) == {l \in links : NetOf[l] = prefix}
\* pico_ipv6_link_add_local: the address of a prefix that the device's own makes.
LocalOf(dev, prefix) == {l \in Locals : DevOf[l] = dev /\ NetOf[l] = prefix}
\* radv_process, a prefix with its flag and a lifetime, from a router at a device.
Announcement(dev, router, prefix, lifetime) ==
  /\ IF Configured(prefix) # {}
     THEN \E l \in Configured(prefix) : Becomes(LifetimeSet(State, l, now + lifetime))
     ELSE \E l \in LocalOf(dev, prefix) :
            Becomes(Added(LifetimeSet(LinkAdded(State, l), l, now + lifetime),
                          Anywhere, router, 10, l))
  /\ UNCHANGED now

\* pico_ipv6_check_lifetime_expired, every second.
\* (mutant: an address is kept for the last second of its lifetime)
Expired_Late(time) == {l \in links : expire[l] > 0 /\ expire[l] + 1 < time}
Expired(time) == {l \in links : expire[l] > 0 /\ expire[l] < time}
CheckLifetimes ==
  /\ now < MaxTime /\ now' = now + 1
  /\ Becomes(LinksDeleted(State, Expired(now + 1)))

Next == \/ \E l \in Locals : LinkAdd(l) \/ LinkDel(l) \/ Confirm(l)
        \/ \E d \in Devices : CleanupLinks(d)
        \/ \E d \in Routed, g \in Others \cup {None}, l \in Locals \cup {None} : RouteAdd(d, g, l)
        \/ \E r \in routes : RouteDel(r)
        \/ \E a \in Others : RouterDown(a)
        \/ \E d \in Devices, a \in Routers, p \in Announced, t \in Lifetimes : Announcement(d, a, p, t)
        \/ CheckLifetimes

Spec == Init /\ [][Next]_vars

-----------------------------------------------------------------------------
(* Frames.                                                                 *)

\* pico_ipv6_extension_headers: what is handed up.  A hop-by-hop header comes first,
\* a fragment waits for the others, and what is encrypted is not read.
Extensions == {"hopbyhop", "routing", "destopt"}
Payload(headers) == /\ headers[Len(headers)] \in {"tcp", "udp", "icmp6"}
                    /\ \A i \in 1 .. Len(headers) - 1 : headers[i] \in Extensions
                    /\ \A i \in 2 .. Len(headers) : headers[i] # "hopbyhop"

\* pico_ipv6_frame_push: the link whose address is the source.  To a link-local
\* address or a group it is that of the device named, if it has one.
OfDevice(dev) == {l \in links : DevOf[l] = dev /\ NetOf[l] = LinkLocal}
Pushed(dst, dev) ==
  IF NetworkOf(dst) \in {LinkLocal, McastNet} /\ dev = None THEN {}
  ELSE IF NetworkOf(dst) \in {LinkLocal, McastNet} /\ OfDevice(dev) # {} THEN OfDevice(dev)
  ELSE IF Reached(routes, dst) THEN {RouteFind(routes, dst).link} ELSE {}

\* pico_ipv6_process_in: what is not for us is forwarded, except for what has a
\* hop-by-hop header with an alert; that is taken as if it were ours.  The filter
\* of groups is that of Mld.
Transit(f) == f.dst # Group /\ f.dst \notin Ours /\ f.headers[1] # "hopbyhop"
GoesUp(f) == ~Transit(f) /\ Payload(f.headers)
\* pico_ipv6_forward and its checks.
Forwarded(f) ==
  IF Transit(f) /\ Reached(routes, f.dst) /\ f.hop > 1 /\ f.src \notin Ours
  THEN {RouteFind(routes, f.dst).link} ELSE {}

Frames == [src : Others \cup Locals, dst : Others \cup Locals \cup {Group}, hop : {1, 2},
           headers : {<<"udp">>, <<"hopbyhop", "icmp6">>, <<"frag", "udp">>,
                      <<"destopt", "hopbyhop", "udp">>}]

-----------------------------------------------------------------------------
(* Properties.                                                             *)

\* The routes of a link go with it, also those through a gateway that lies behind
\* it: none leads through memory that was freed (pico_ipv6.c:1701).
NoStaleLink == \A r \in routes : r.link \in links

\* No address outlives its lifetime, however often it is announced again, deleted
\* and added, and an announcement never gives it one that is over
\* (pico_ipv6.c:1871, 1884).
ExpiredIsGone == \A l \in links : expire[l] = 0 \/ expire[l] >= now

\* What is sent to a global prefix, or by a route that a router has announced, has a
\* global address for its source (pico_ipv6.c:1457, pico_ipv6_nd.c:735).
GlobalThroughGlobal ==
  \A r \in routes : GlobalNet(r.dest) \/ r.metric = 10 => IsGlobal(r.link)

\* The neighbours of every global address are reached through it, whatever other
\* routes and routers come and go, by what is sent and by what is forwarded.
NeighboursAreReached ==
  \A l \in links, a \in Others : IsGlobal(l) /\ NetOf[a] = NetOf[l] =>
    /\ Pushed(a, None) = {l}
    /\ \A f \in Frames : f.dst = a /\ f.src \in Others /\ f.hop > 1 /\ Transit(f) =>
                           Forwarded(f) = {l}

\* What is for a link-local address leaves by the device that was named or not at
\* all: it is never routed, never forwarded (pico_ipv6.c:389).
ScopeIsKept ==
  /\ \A a \in Others, d \in Devices : NetOf[a] = LinkLocal =>
       /\ \A l \in Pushed(a, d) : DevOf[l] = d
       /\ Pushed(a, None) = {}
  /\ \A f \in Frames : NetworkOf(f.dst) = LinkLocal => Forwarded(f) = {}

\* The default for multicast groups is a link.  (The code breaks it: see the README.)
DefaultIsLink == mcastLink \in links \cup {None}

\* A frame is taken only by the host that has its address.  (The code breaks it.)
OnlyOursGoesUp == \A f \in Frames : GoesUp(f) => f.dst \in Ours \cup {Group}

\* An announcement does not lengthen a lifetime beyond what it says.  (The code
\* breaks it.)
ShorterIsShorter == [][\A l \in Locals : l \in links /\ l \in links' /\ 0 < expire[l] =>
  \/ expire'[l] \in {expire[l], 0}
  \/ expire'[l] \in {now + t : t \in Lifetimes}]_vars

\* Who has an address that a router has announced has a way out, unless that router
\* is down.  (The code breaks it.)
RouterIsUsed == (\E l \in links : expire[l] > 0) => \E r \in routes : r.dest = Anywhere
=============================================================================
