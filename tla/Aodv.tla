-------------------------------- MODULE Aodv --------------------------------
(***************************************************************************)
(* The search for routes with AODV (pico_aodv.c), as one host runs it: the *)
(* table of nodes, the requests and replies that arrive, the rings of a    *)
(* search and the host routes it leaves in the table of pico_ipv4.c.  The  *)
(* other hosts are the environment, which is free in what it sends.        *)
(*                                                                         *)
(* Sequence numbers are small and do not wrap.  last_seen is an age, and   *)
(* fwd_time a flag that time clears.  What the host sends itself, with its *)
(* own number, and the flags nobody reads are left out; a device has been  *)
(* added before the first search.                                          *)
(***************************************************************************)
EXTENDS Integers, FiniteSets

CONSTANTS Peers,        \* the other hosts
          Near,         \* those that are neighbours
          Me,           \* this host, which also has a node of its own
          MaxSeq,       \* bound: the sequence numbers of each
          MaxHops,      \* bound: hops a packet has made
          Threshold,    \* AODV_TTL_THRESHOLD
          Diameter,     \* AODV_NET_DIAMETER
          Retries       \* AODV_RREQ_RETRIES

VARIABLES nodes,        \* aodv_nodes, and the host routes to each
          leaked,       \* a node was made that no table has
          forwarded,    \* what was passed on: an address and its number
          repeated      \* something was passed on twice

vars == <<nodes, leaked, forwarded, repeated>>

Direct == "direct"      \* a route without a gateway
NoNode == [known |-> FALSE, sync |-> FALSE, dseq |-> 0, seen |-> "never",
           up |-> FALSE, down |-> FALSE, metric |-> 0, ring |-> 0, retry |-> 0,
           timers |-> 0, discover |-> 0, fwd |-> FALSE, routes |-> {}]

Init == /\ nodes = [p \in Peers \cup {Me} |-> NoNode]
        /\ leaked = FALSE /\ forwarded = {} /\ repeated = FALSE

\* PICO_AODV_ACTIVE
Active(n) == n.up /\ n.down

-----------------------------------------------------------------------------
(* The table of nodes.  t is the table, the functions return the next one. *)

\* get_node_by_addr, and aodv_peer_new where there is none
Known(t, p) == [t EXCEPT ![p].known = TRUE]

\* aodv_peer_refresh
\* (mutant: a number that was seen before passes for new)
Fresher_OrEqual(n, s) == ~n.sync \/ s >= n.dseq
Fresher(n, s) == ~n.sync \/ s > n.dseq
Refreshed(t, p, s) ==
  [t EXCEPT ![p].dseq = s, ![p].sync = TRUE, ![p].seen = "recent"]

\* pico_ipv4_route_add: the gateway is on the link, and there is no route to
\* p of this metric.
RouteAdd(t, p, gw, metric) ==
  IF \/ \E r \in t[p].routes : r.metric = metric
     \/ gw # Direct /\ \E r \in t[gw].routes : r.gw # Direct
    THEN t
    ELSE [t EXCEPT ![p].routes = @ \cup {[gw |-> gw, metric |-> metric]}]
\* pico_ipv4_route_del, of the metric the node has
RouteDel(t, p) == [t EXCEPT ![p].routes = {r \in @ : r.metric # t[p].metric}]

\* aodv_elect_route
\* (mutant: the old route is looked for under the new metric)
Elect_NewMetric(t, p, gw, hops) ==
  IF Active(t[p]) /\ hops + 1 >= t[p].metric THEN t
  ELSE LET m == IF gw = Direct THEN 1 ELSE hops + 1
       IN RouteAdd(RouteDel([t EXCEPT ![p].metric = m], p), p, gw, m)
Elect(t, p, gw, hops) ==
  IF Active(t[p]) /\ hops + 1 >= t[p].metric THEN t
  ELSE LET m == IF gw = Direct THEN 1 ELSE hops + 1
       IN RouteAdd([RouteDel(t, p) EXCEPT ![p].metric = m], p, gw, m)
ElectFrom(t, p, from, hops) == Elect(t, p, IF hops > 0 THEN from ELSE Direct, hops)

-----------------------------------------------------------------------------
(* What arrives                                                            *)

\* pico_aodv_refresh, which pico_ipv4_process_in calls for every frame
Refresh(t, p) == IF t[p].known THEN [t EXCEPT ![p].seen = "recent"] ELSE t
Frame(p) == /\ nodes' = Refresh(nodes, p)
            /\ UNCHANGED <<leaked, forwarded, repeated>>

\* pico_aodv_parse, before it calls the parser of the packet's type
Parse(from, hops) ==
  LET t == Known(Refresh(nodes, from), from)
  IN IF hops = 0 THEN Elect(t, from, Direct, 0) ELSE t

Keep(t) == nodes' = t /\ UNCHANGED <<leaked, forwarded, repeated>>

\* aodv_forward, of a packet about p: not again at once, and not when its
\* time to live is over
Forward(t, p, s, last) ==
  IF t[p].fwd \/ last
    THEN nodes' = t /\ UNCHANGED <<forwarded, repeated>>
    ELSE /\ nodes' = [t EXCEPT ![p].fwd = TRUE]
         /\ forwarded' = forwarded \cup {<<p, s>>}
         /\ repeated' = (repeated \/ <<p, s>> \in forwarded)

\* aodv_recv_valid_rreq; active is that of the node, which may be one that is
\* in no table.  For this host itself the way back is asked for later.
ValidRreq(t, orig, oseq, dest, active, last) ==
  IF dest = Me
    THEN /\ nodes' = [t EXCEPT ![orig].down = TRUE, ![orig].discover = @ + 1]
         /\ UNCHANGED <<forwarded, repeated>>
    ELSE IF active THEN nodes' = t /\ UNCHANGED <<forwarded, repeated>>
    ELSE Forward(t, orig, oseq, last)

\* aodv_parse_rreq: from passes on that orig asks for dest, of which it knows
\* number dseq, or none (0).
Rreq(from, orig, oseq, dest, dseq, hops, last) ==
  /\ hops = 0 <=> from = orig
  /\ dest # orig
  /\ LET t1 == Known(Parse(from, hops), orig)
         t2 == ElectFrom(Refreshed(t1, orig, oseq), orig, from, hops)
         t3 == Known(t2, dest)
     IN IF ~Fresher(t1[orig], oseq) THEN Keep(t1)
        ELSE IF dseq = 0
        THEN /\ ValidRreq(t3, orig, oseq, dest, Active(t3[dest]), last)
             /\ UNCHANGED leaked
        ELSE IF Fresher(t3[dest], dseq)
        THEN LET t4 == Refreshed(t3, dest, dseq)
             IN /\ ValidRreq(t4, orig, oseq, dest, Active(t4[dest]), last)
                /\ UNCHANGED leaked
        ELSE /\ ValidRreq(t3, orig, oseq, dest, FALSE, last)
             /\ leaked' = TRUE

\* A request of this host that a neighbour passed on
Echo(from) == Keep(Parse(from, 1))

\* aodv_parse_rrep: from says that dest is hops away from it.  aodv_send_reply
\* takes the hops of the host that asked instead, so any host may say any
\* number.
Rrep(from, dest, dseq, hops, forUs, last) ==
  LET t1 == Known(Parse(from, hops), dest)
      t2 == ElectFrom(Refreshed(t1, dest, dseq), dest, from, hops)
  IN IF ~Fresher(t1[dest], dseq) THEN Keep(t1)
     ELSE IF forUs THEN Keep([t2 EXCEPT ![dest].up = TRUE])
     ELSE Forward(t2, dest, dseq, last) /\ UNCHANGED leaked

-----------------------------------------------------------------------------
(* Searching                                                               *)

\* aodv_send_req
SendReq(n) == IF Active(n) THEN n ELSE [n EXCEPT !.timers = @ + 1]

\* pico_aodv_lookup
Lookup(p) ==
  LET n == [nodes[p] EXCEPT !.known = TRUE]
  IN Keep([nodes EXCEPT ![p] = IF n.up \/ n.down \/ n.ring >= 1 THEN n
                               ELSE SendReq([n EXCEPT !.ring = 1])])

\* aodv_reverse_path_discover
Discover(p) ==
  /\ nodes[p].discover > 0
  /\ Keep([nodes EXCEPT
       ![p] = SendReq([nodes[p] EXCEPT !.discover = @ - 1, !.ring = nodes[p].metric])])

\* aodv_retrans_rreq: the ring grows up to the threshold, then it is the
\* whole network, which is searched again and again.
\* (mutant: who gives up leaves the ring as it is)
NextRing_Stays(n) ==
  LET ring == IF n.ring > Threshold THEN Diameter ELSE n.ring
  IN IF n.retry > Retries THEN [n EXCEPT !.retry = 0, !.ring = ring, !.down = FALSE]
     ELSE [n EXCEPT !.retry = IF ring = Diameter THEN @ + 1 ELSE @,
                    !.ring = IF ring < Diameter THEN ring + 2 ELSE ring,
                    !.timers = @ + 1]
\* (mutant: the search of the whole network does not count)
NextRing_NoCount(n) ==
  LET ring == IF n.ring > Threshold THEN Diameter ELSE n.ring
  IN IF n.retry > Retries THEN [n EXCEPT !.retry = 0, !.ring = 0, !.down = FALSE]
     ELSE [n EXCEPT !.ring = IF ring < Diameter THEN ring + 2 ELSE ring,
                    !.timers = @ + 1]
NextRing(n) ==
  LET ring == IF n.ring > Threshold THEN Diameter ELSE n.ring
  IN IF n.retry > Retries THEN [n EXCEPT !.retry = 0, !.ring = 0, !.down = FALSE]
     ELSE [n EXCEPT !.retry = IF ring = Diameter THEN @ + 1 ELSE @,
                    !.ring = IF ring < Diameter THEN ring + 2 ELSE ring,
                    !.timers = @ + 1]
Retrans(p) ==
  /\ nodes[p].timers > 0
  /\ LET n == [nodes[p] EXCEPT !.timers = @ - 1]
     IN Keep([nodes EXCEPT ![p] = IF n.up THEN n ELSE NextRing(n)])

\* pico_aodv_collector, with aodv_lifetime and pico_aodv_expired
Expired(n) == [n EXCEPT !.up = FALSE, !.down = FALSE, !.ring = 0,
                        !.routes = {r \in @ : r.metric # n.metric}]
Collector ==
  /\ \E p \in Peers : Active(nodes[p])
  /\ Keep([p \in DOMAIN nodes |->
       LET n == nodes[p] IN
       IF ~Active(n) THEN n
       ELSE IF n.seen = "old" THEN Expired(n) ELSE [n EXCEPT !.seen = "recent"]])

\* Nothing is heard of p for as long as a route lasts.
Age(p) == /\ nodes[p].seen = "recent"
          /\ Keep([nodes EXCEPT ![p].seen = "old"])
\* AODV_NODE_TRAVERSAL_TIME is over.
Traversed(p) == /\ nodes[p].fwd
                /\ Keep([nodes EXCEPT ![p].fwd = FALSE])

\* A step in which no number exceeds its bound in seq
NextUpTo(seq) ==
  \/ \E p \in Peers : \/ Frame(p) \/ Lookup(p) \/ Discover(p) \/ Retrans(p)
                      \/ Age(p) \/ Traversed(p)
  \/ Collector
  \/ \E from \in Near :
       \/ Echo(from)
       \/ \E p \in Peers, hops \in 0..MaxHops, last \in BOOLEAN :
            \E s \in 1..seq[p] :
              \/ \E dest \in Peers \cup {Me} : \E d \in 0..seq[dest] :
                   Rreq(from, p, s, dest, d, hops, last)
              \/ \E forUs \in BOOLEAN : Rrep(from, p, s, hops, forUs, last)
Next == NextUpTo(MaxSeq)

Spec == Init /\ [][Next]_vars /\ \A p \in Peers : WF_vars(Retrans(p))

-----------------------------------------------------------------------------
\* There is one host route at most to a node, and it has the metric of the
\* node: aodv_elect_route and pico_aodv_expired find it by that.
OneRoute == \A p \in Peers : /\ Cardinality(nodes[p].routes) <= 1
                             /\ \A r \in nodes[p].routes : r.metric = nodes[p].metric

\* A search that has no route yet has a timer, or pico_aodv_lookup would
\* refuse that destination for ever.
SearchIsTimed == \A p \in Peers : nodes[p].ring > 0 /\ ~nodes[p].up => nodes[p].timers > 0

\* A request or a reply is passed on once, however many neighbours it comes
\* from: fwd_time alone, which is soon over, does not see to that.
ForwardedOnce == ~repeated

\* Every search ends, with a route or without (aodv_retrans_rreq).
SearchEnds == \A p \in Peers : nodes[p].ring > 0 ~> nodes[p].ring = 0 \/ nodes[p].up

\* Where pico_aodv_lookup sees no need for a search there is a route.
\* (The code breaks it: see the README.)
UsableHasRoute ==
  \A p \in Peers : nodes[p].up \/ nodes[p].down => nodes[p].routes # {}

\* A route without a gateway leads to a neighbour.
\* (The code breaks it: see the README.)
DirectIsNeighbour ==
  \A p \in Peers : \A r \in nodes[p].routes : r.gw = Direct => p \in Near

\* A node that was allocated is in the table.
\* (The code breaks it: see the README.)
NodesAreKept == ~leaked

\* The route to a node that is not heard of any more goes.
\* (The code breaks it: see the README.)
RouteExpires == \A p \in Peers :
  <>[](nodes[p].seen = "old") => <>[](~nodes[p].up)
=============================================================================
