--------------------------- MODULE Network_proofs ---------------------------
(***************************************************************************)
(* Components of picoTCP side by side: sockets and ports, routes of IPv4   *)
(* and IPv6, ARP, neighbour discovery, searches for routes, groups of      *)
(* IPv4, DNS and PPP. Lemmas about each: an inductive invariant, that the  *)
(* first states have it, that every step keeps it, and what it means, for  *)
(* every value of the constants. MCProtocols runs the components, one at a *)
(* time, with the others; Protocols_proofs draws the theorems.             *)
(***************************************************************************)
EXTENDS Integers, FiniteSets, Sequences, TLC, FiniteSetTheorems,
        WellFoundedInduction, TLAPS

CONSTANTS Ports, Addrs, Remotes, Numbers, MaxQueue,  \* of SocketTable
          Locals4, Gateways, Hosts4, NetOf4, Metrics, MaxId,  \* of Ipv4Routes
          Locals6, Others, Routers, DevOf6, NetOf6,  \* of Ipv6Routes
          Announced, Routed, Lifetimes, TwoHours, Forever, Seconds,  \* of Ipv6Routes
          Neighbours, Macs, NextHops, Pending, Rate,  \* of Arp
          MaxSolicit, Slots,                    \* of Ipv6Nd, with Neighbours and Macs
          AodvPeers, Adjacent, Me, FarSeq, NearSeq, OwnSeq,  \* of Aodv
          MaxHops, Threshold, Diameter, SearchRetries,  \* of Aodv
          Listeners, Sources,                   \* of Multicast
          Requests, Ids, Servers, DnsRetrans, MaxAlias, CanFail,  \* of DnsClient
          PppPeers, MaxTerminate, MaxConfigure  \* of PppLink

VARIABLES socks, tables,
  cache, heard, queued, budget, freed,
  links, routes, bcastLink, mcastLink, wire, last, forwards,
  links6, tentative6, expire6, now6, routes6, mcastLink6,
  listen, mgroup, igmp,
  ncache, waiting, lastEnq, said,
  dnsTable, dnsTimers, asked, answered, pending, nsTable,
  ppp,
  nodes, leaked, forwarded, repeated

Sockets == INSTANCE SocketTable WITH Protos <- {"udp", "tcp"},
  Careless <- FALSE
Neighbour4 == INSTANCE Arp WITH Route <- NextHops
Routes == INSTANCE Ipv4Routes WITH Locals <- Locals4, Hosts <- Hosts4,
  NetOf <- NetOf4
Routes6 == INSTANCE Ipv6Routes WITH Locals <- Locals6, DevOf <- DevOf6,
  NetOf <- NetOf6, MaxTime <- Seconds, links <- links6,
  tentative <- tentative6, expire <- expire6, now <- now6, routes <- routes6,
  mcastLink <- mcastLink6
Groups4 == INSTANCE Multicast
Neighbour6 == INSTANCE Ipv6Nd
Dns == INSTANCE DnsClient WITH MaxRetrans <- DnsRetrans
Ppp == INSTANCE PppLink WITH Peers <- PppPeers
Aodv == INSTANCE Aodv WITH Peers <- AodvPeers, Near <- Adjacent,
  MaxSeq <- FarSeq, Retries <- SearchRetries

socketVars == <<socks, tables>>
arpVars == <<cache, heard, queued, budget, freed>>
routeVars == <<links, routes, bcastLink, mcastLink, wire, last, forwards>>
route6Vars == <<links6, tentative6, expire6, now6, routes6, mcastLink6>>
groupVars == <<listen, mgroup, igmp>>
ndVars == <<ncache, waiting, lastEnq, said>>
dnsVars == <<dnsTable, dnsTimers, asked, answered, pending, nsTable>>
pppVars == <<ppp>>
aodvVars == <<nodes, leaked, forwarded, repeated>>


LEMMA SameCardinality ==
  ASSUME NEW S
  PROVE  /\ Dns!Cardinality(S) = Cardinality(S) /\ Groups4!Cardinality(S) = Cardinality(S)
         /\ Sockets!Cardinality(S) = Cardinality(S) /\ Aodv!Cardinality(S) = Cardinality(S)
BY DEF Dns!Cardinality, Groups4!Cardinality, Sockets!Cardinality, Aodv!Cardinality, Cardinality

-----------------------------------------------------------------------------
(* DnsClient: requests, numbers, servers                                   *)

Named == /\ "none" \notin Requests
         /\ Servers \subseteq Nat
         /\ DnsRetrans \in Nat

\* Name servers.

Listed == nsTable \subseteq Nat /\ nsTable # {}

LEMMA LeastExists ==
  ASSUME NEW S \in SUBSET Nat, S # {}
  PROVE  \E n \in S : \A m \in S : n <= m
<1>1. IsWellFoundedOn(OpToRel(<, Nat), Nat)
  BY NatLessThanWellFounded
<1>2. PICK n \in S : \A m \in S : ~(<<m, n>> \in OpToRel(<, Nat))
  BY <1>1, WFMin
<1>3. \A m \in S : ~(m < n)
  BY <1>2 DEF OpToRel
<1> QED
  BY <1>3

LEMMA ServersAreNumbers ==
  ASSUME Listed, NEW ns \in Nat
  PROVE  Dns!FirstNs \in Nat /\ Dns!NextNs(ns) \in Nat
<1>1. Dns!FirstNs \in Nat
  BY LeastExists DEF Listed, Dns!FirstNs
<1>2. Dns!NextNs(ns) \in Nat
  <2> DEFINE after == {n \in nsTable : n > ns}
             among == IF after = {} THEN nsTable ELSE after
  <2>1. among \in SUBSET Nat /\ among # {}
    BY DEF Listed
  <2>2. \E n \in among : \A m \in among : n <= m
    BY <2>1, LeastExists
  <2>3. (CHOOSE n \in among : \A m \in among : n <= m) \in Nat
    BY <2>1, <2>2
  <2> QED
    BY <2>3 DEF Dns!NextNs
<1> QED
  BY <1>1, <1>2

\* The table.

Queries == [for : Requests, qtype : {"A", "CNAME"}, retrans : Nat, ns : Nat, depth : Nat]

DnsTypes == /\ dnsTable \in [Ids -> Queries \cup {Dns!NoQuery}]
            /\ answered \in [Requests -> Nat]
            /\ pending \subseteq Requests

\* A request is asked for under one number at most, and only from the call that
\* was accepted to the call of its callback.
Unanswered ==
  /\ \A i, j \in Ids : dnsTable[i] # Dns!NoQuery /\ dnsTable[i].for = dnsTable[j].for => i = j
  /\ \A i \in Ids : dnsTable[i] # Dns!NoQuery =>
       dnsTable[i].for \in pending /\ answered[dnsTable[i].for] = 0
  /\ \A r \in Requests : r \notin pending => answered[r] = 0

DnsInv == Listed /\ DnsTypes /\ Unanswered /\ Dns!CalledOnce

LEMMA NoQueryIsNone ==
  ASSUME Named
  PROVE  /\ Dns!NoQuery.for = "none"
         /\ Dns!NoQuery \notin Queries
         /\ \A q \in Queries : q.for # "none"
BY DEF Named, Dns!NoQuery, Queries

LEMMA QueryIsQuery ==
  ASSUME Named, Listed, NEW r \in Requests, NEW d \in Nat
  PROVE  Dns!Query(r, d) \in Queries /\ Dns!Query(r, d).for = r
BY ServersAreNumbers DEF Dns!Query, Queries, Listed

LEMMA AskedAgainIsQuery ==
  ASSUME NEW q \in Queries, NEW ns \in Nat
  PROVE  /\ [q EXCEPT !.retrans = @ + 1, !.ns = ns] \in Queries
         /\ [q EXCEPT !.retrans = @ + 1, !.ns = ns].for = q.for
<1>1. [q EXCEPT !.retrans = @ + 1, !.ns = ns]
        = [[q EXCEPT !.retrans = @ + 1] EXCEPT !.ns = ns]
  BY DEF Queries
<1> DEFINE p == [q EXCEPT !.retrans = @ + 1]
<1>2. p \in Queries /\ p.for = q.for
  BY DEF Queries
<1> HIDE DEF p
<1>3. [p EXCEPT !.ns = ns] \in Queries /\ [p EXCEPT !.ns = ns].for = p.for
  BY <1>2 DEF Queries
<1> QED
  BY <1>1, <1>2, <1>3 DEF p

LEMMA DnsInitially ==
  ASSUME Named, Dns!Init
  PROVE  DnsInv
BY NoQueryIsNone DEF Dns!Init, DnsInv, Listed, DnsTypes, Unanswered, Dns!CalledOnce, Dns!Default, Named

\* A free number gets a query for a request that has none.
LEMMA AddKeeps ==
  ASSUME Named, DnsInv, NEW i \in Ids, NEW q \in Queries, dnsTable[i] = Dns!NoQuery,
         \A j \in Ids : dnsTable[j].for # q.for,
         q.for \in pending', answered[q.for] = 0, pending \subseteq pending',
         pending' \subseteq Requests,
         dnsTable' = [dnsTable EXCEPT ![i] = q], answered' = answered, nsTable' = nsTable
  PROVE  DnsInv'
<1>1. Listed' /\ Dns!CalledOnce'
  BY DEF DnsInv, Listed, Dns!CalledOnce
<1>2. DnsTypes'
  BY DEF DnsInv, DnsTypes
<1>3. \A j \in Ids : dnsTable'[j] = IF j = i THEN q ELSE dnsTable[j]
  BY DEF DnsInv, DnsTypes
<1>4. Unanswered'
  BY <1>3, NoQueryIsNone DEF DnsInv, DnsTypes, Unanswered
<1> QED
  BY <1>1, <1>2, <1>4 DEF DnsInv

\* A query changes and is still for its request.
LEMMA ChangeKeeps ==
  ASSUME Named, DnsInv, NEW i \in Ids, NEW q \in Queries, dnsTable[i] # Dns!NoQuery,
         q.for = dnsTable[i].for,
         dnsTable' = [dnsTable EXCEPT ![i] = q],
         answered' = answered, pending' = pending, nsTable' = nsTable
  PROVE  DnsInv'
<1>1. Listed' /\ Dns!CalledOnce'
  BY DEF DnsInv, Listed, Dns!CalledOnce
<1>2. DnsTypes'
  BY DEF DnsInv, DnsTypes
<1>3. \A j \in Ids : dnsTable'[j] = IF j = i THEN q ELSE dnsTable[j]
  BY DEF DnsInv, DnsTypes
<1>4. Unanswered'
  BY <1>3, NoQueryIsNone DEF DnsInv, DnsTypes, Unanswered
<1> QED
  BY <1>1, <1>2, <1>4 DEF DnsInv

\* A query ends, without a word to the request or with its callback.
LEMMA DropKeeps ==
  ASSUME Named, DnsInv, NEW i \in Ids,
         dnsTable' = [dnsTable EXCEPT ![i] = Dns!NoQuery],
         answered' = answered, pending' = pending, nsTable' = nsTable
  PROVE  DnsInv'
<1>1. Listed' /\ Dns!CalledOnce'
  BY DEF DnsInv, Listed, Dns!CalledOnce
<1>2. DnsTypes'
  BY DEF DnsInv, DnsTypes
<1>3. \A j \in Ids : dnsTable'[j] = IF j = i THEN Dns!NoQuery ELSE dnsTable[j]
  BY DEF DnsInv, DnsTypes
<1>4. Unanswered'
  BY <1>3, NoQueryIsNone DEF DnsInv, DnsTypes, Unanswered
<1> QED
  BY <1>1, <1>2, <1>4 DEF DnsInv

LEMMA CallKeeps ==
  ASSUME Named, DnsInv, NEW i \in Ids, dnsTable[i] # Dns!NoQuery,
         dnsTable' = [dnsTable EXCEPT ![i] = Dns!NoQuery],
         answered' = Dns!Called(dnsTable[i].for), pending' = pending, nsTable' = nsTable
  PROVE  DnsInv'
<1> DEFINE r == dnsTable[i].for
<1>1. r \in Requests /\ r \in pending /\ answered[r] = 0
  BY NoQueryIsNone DEF DnsInv, DnsTypes, Unanswered, Queries
<1>2. /\ \A s \in Requests : answered'[s] = IF s = r THEN 1 ELSE answered[s]
      /\ answered' \in [Requests -> Nat]
  BY <1>1 DEF Dns!Called, DnsInv, DnsTypes
<1>3. \A j \in Ids : dnsTable'[j] = IF j = i THEN Dns!NoQuery ELSE dnsTable[j]
  BY DEF DnsInv, DnsTypes
<1>4. Listed' /\ Dns!CalledOnce'
  BY <1>2 DEF DnsInv, Listed, Dns!CalledOnce
<1>5. DnsTypes'
  BY <1>2 DEF DnsInv, DnsTypes
<1>6. \A j \in Ids : dnsTable'[j] # Dns!NoQuery => j # i /\ dnsTable[j].for # r
  BY <1>3 DEF DnsInv, Unanswered
<1>7. \A j \in Ids : dnsTable[j] # Dns!NoQuery => dnsTable[j].for \in Requests
  BY DEF DnsInv, DnsTypes, Queries
<1>8. ASSUME NEW j \in Ids, NEW k \in Ids, dnsTable'[j] # Dns!NoQuery,
             dnsTable'[j].for = dnsTable'[k].for
      PROVE  j = k
  <2>1. j # i /\ dnsTable'[j] = dnsTable[j] /\ dnsTable[j].for \in Requests
    BY <1>3, <1>7, <1>8
  <2>2. k # i
    BY <1>3, <1>8, <2>1, NoQueryIsNone DEF Named
  <2> QED
    BY <1>3, <1>8, <2>1, <2>2 DEF DnsInv, Unanswered
<1>9. ASSUME NEW j \in Ids, dnsTable'[j] # Dns!NoQuery
      PROVE  dnsTable'[j].for \in pending' /\ answered'[dnsTable'[j].for] = 0
  <2>1. j # i /\ dnsTable'[j] = dnsTable[j] /\ dnsTable[j].for # r
    BY <1>3, <1>6, <1>9
  <2>2. /\ dnsTable[j].for \in Requests /\ dnsTable[j].for \in pending
        /\ answered[dnsTable[j].for] = 0
    BY <1>7, <1>9, <2>1 DEF DnsInv, Unanswered
  <2> HIDE DEF r
  <2> QED
    BY <1>2, <2>1, <2>2
<1>10. ASSUME NEW s \in Requests, s \notin pending'
       PROVE  answered'[s] = 0
  BY <1>1, <1>2, <1>10 DEF DnsInv, Unanswered
<1>11. Unanswered'
  BY <1>8, <1>9, <1>10 DEF Unanswered
<1> QED
  BY <1>4, <1>5, <1>11 DEF DnsInv

\* The steps.

LEMMA GetAddrStep ==
  ASSUME Named, DnsInv, NEW r \in Requests, NEW i \in Ids, NEW fails \in BOOLEAN,
         Dns!GetAddr(r, i, fails)
  PROVE  DnsInv'
<1> DEFINE q == Dns!Query(r, 0)
<1>1. q \in Queries /\ q.for = r
  BY QueryIsQuery DEF DnsInv
<1>2. r \notin pending /\ answered' = answered /\ nsTable' = nsTable
  BY DEF Dns!GetAddr
<1>3. answered[r] = 0
  BY <1>2 DEF DnsInv, Unanswered
<1>4. \A j \in Ids : dnsTable[j].for # r
  BY <1>2, NoQueryIsNone DEF DnsInv, Unanswered, Named
<1>5. CASE dnsTable[i] = Dns!NoQuery /\ ~fails
  <2>1. Dns!AddQuery(dnsTable, i, r, 0) = [dnsTable EXCEPT ![i] = q]
    BY <1>5 DEF Dns!AddQuery
  <2>2. Dns!AddQuery(dnsTable, i, r, 0)[i].for = r
    BY <2>1, <1>1 DEF DnsInv, DnsTypes
  <2>3. dnsTable' = [dnsTable EXCEPT ![i] = q] /\ pending' = pending \cup {r}
    BY <2>1, <2>2, <1>5 DEF Dns!GetAddr
  <2> HIDE DEF q
  <2> QED
    BY <1>1, <1>2, <1>3, <1>4, <1>5, <2>3, AddKeeps DEF DnsInv, DnsTypes
<1>6. CASE ~(dnsTable[i] = Dns!NoQuery /\ ~fails)
  <2>1. dnsTable' = dnsTable /\ pending' = pending
    <3>1. CASE fails
      BY <3>1 DEF Dns!GetAddr
    <3>2. CASE dnsTable[i] # Dns!NoQuery
      <4>1. Dns!AddQuery(dnsTable, i, r, 0) = dnsTable
        BY <3>2 DEF Dns!AddQuery
      <4> QED
        BY <4>1, <1>4 DEF Dns!GetAddr
    <3> QED
      BY <1>6, <3>1, <3>2
  <2> QED
    BY <1>2, <2>1 DEF DnsInv, Listed, DnsTypes, Unanswered, Dns!CalledOnce
<1> QED
  BY <1>5, <1>6

LEMMA RetransmissionStep ==
  ASSUME Named, DnsInv, NEW i \in Ids, NEW fails \in BOOLEAN, Dns!Retransmission(i, fails)
  PROVE  DnsInv'
<1> DEFINE q == dnsTable[i]
           again == [q EXCEPT !.retrans = @ + 1, !.ns = Dns!NextNs(q.ns)]
<1>1. pending' = pending /\ nsTable' = nsTable
  BY DEF Dns!Retransmission
<1>2. CASE q = Dns!NoQuery
  <2>1. dnsTable' = dnsTable /\ answered' = answered
    BY <1>2 DEF Dns!Retransmission
  <2> QED
    BY <1>1, <2>1 DEF DnsInv, Listed, DnsTypes, Unanswered, Dns!CalledOnce
<1>3. CASE q # Dns!NoQuery /\ ~Dns!GivesUp(q)
  <2>1. q \in Queries
    BY <1>3 DEF DnsInv, DnsTypes
  <2>2. Dns!NextNs(q.ns) \in Nat
    BY <2>1, ServersAreNumbers DEF DnsInv, Queries
  <2>3. again \in Queries /\ again.for = q.for
    BY <2>1, <2>2, AskedAgainIsQuery
  <2>4. dnsTable' = [dnsTable EXCEPT ![i] = again] /\ answered' = answered
    BY <1>3 DEF Dns!Retransmission
  <2>5. q # Dns!NoQuery
    BY <1>3
  <2> HIDE DEF again
  <2> QED
    BY <1>1, <2>3, <2>4, <2>5, ChangeKeeps
<1>4. CASE q # Dns!NoQuery /\ Dns!GivesUp(q)
  <2>1. dnsTable' = [dnsTable EXCEPT ![i] = Dns!NoQuery] /\ answered' = Dns!Called(q.for)
    BY <1>4 DEF Dns!Retransmission, Dns!GiveUp
  <2> QED
    BY <1>1, <1>4, <2>1, CallKeeps
<1> QED
  BY <1>2, <1>3, <1>4

LEMMA DnsAnswerStep ==
  ASSUME Named, DnsInv, NEW i \in Ids, NEW new \in Ids, NEW fails \in BOOLEAN,
         NEW kind \in {"record", "alias", "neither", "error"}, Dns!Answer(i, kind, new, fails)
  PROVE  DnsInv'
<1> DEFINE q == dnsTable[i]
<1>1. pending' = pending /\ nsTable' = nsTable
  BY DEF Dns!Answer
<1>2. CASE dnsTable' = dnsTable /\ answered' = answered
  BY <1>1, <1>2 DEF DnsInv, Listed, DnsTypes, Unanswered, Dns!CalledOnce
<1>3. CASE q # Dns!NoQuery /\ answered' = Dns!Called(q.for) /\ dnsTable' = Dns!UserCallback(i)
  BY <1>1, <1>3, CallKeeps DEF Dns!UserCallback
<1>4. CASE /\ q # Dns!NoQuery /\ answered' = answered
           /\ Dns!Fallback(i, q, kind = "alias", new, fails)
  <2>1. q \in Queries
    BY <1>4 DEF DnsInv, DnsTypes
  <2>2. CASE dnsTable' = [dnsTable EXCEPT ![i].qtype = "CNAME"]
    <3> DEFINE c == [q EXCEPT !.qtype = "CNAME"]
    <3>1. c \in Queries /\ c.for = q.for
      BY <2>1 DEF Queries
    <3>2. dnsTable' = [dnsTable EXCEPT ![i] = c]
      BY <2>2
    <3>3. q # Dns!NoQuery
      BY <1>4
    <3> HIDE DEF c
    <3> QED
      BY <1>1, <1>4, <3>1, <3>2, <3>3, ChangeKeeps
  <2>3. CASE dnsTable' = [dnsTable EXCEPT ![i] = Dns!NoQuery]
    BY <1>1, <1>4, <2>3, DropKeeps
  <2>4. CASE /\ dnsTable[new] = Dns!NoQuery
             /\ dnsTable' = [Dns!AddQuery(dnsTable, new, q.for, q.depth + 1) EXCEPT ![i] = Dns!NoQuery]
    <3> DEFINE n == Dns!Query(q.for, q.depth + 1)
    <3>1. q.for \in Requests /\ q.depth + 1 \in Nat
      BY <2>1 DEF Queries
    <3>2. n \in Queries /\ n.for = q.for
      BY <3>1, QueryIsQuery DEF DnsInv
    <3>3. new # i
      BY <1>4, <2>4
    <3>4. dnsTable' = [[dnsTable EXCEPT ![new] = n] EXCEPT ![i] = Dns!NoQuery]
      BY <2>4 DEF Dns!AddQuery
    <3>5. \A j \in Ids : dnsTable'[j] = IF j = i THEN Dns!NoQuery
                                        ELSE IF j = new THEN n ELSE dnsTable[j]
      BY <3>4 DEF DnsInv, DnsTypes
    <3>6. DnsTypes'
      BY <1>1, <1>4, <3>2, <3>4 DEF DnsInv, DnsTypes
    <3>7. Listed' /\ Dns!CalledOnce'
      BY <1>1, <1>4 DEF DnsInv, Listed, Dns!CalledOnce
    <3>8. \A j \in Ids : dnsTable[j] # Dns!NoQuery /\ dnsTable[j].for = q.for => j = i
      BY <1>4 DEF DnsInv, Unanswered
    <3>9. q.for \in pending /\ answered[q.for] = 0
      BY <1>4 DEF DnsInv, Unanswered
    <3> HIDE DEF n
    <3>10. \A j \in Ids : dnsTable'[j] # Dns!NoQuery =>
             \/ j = new /\ dnsTable'[j].for = q.for
             \/ j # new /\ j # i /\ dnsTable'[j] = dnsTable[j] /\ dnsTable[j].for # q.for
      BY <3>2, <3>3, <3>5, <3>8
    <3>11. \A j \in Ids : dnsTable'[j] # Dns!NoQuery => dnsTable'[j].for # "none"
      BY <3>6, NoQueryIsNone DEF DnsTypes
    <3>12. Unanswered'
      <4>1. ASSUME NEW j \in Ids, NEW k \in Ids, dnsTable'[j] # Dns!NoQuery,
                   dnsTable'[j].for = dnsTable'[k].for
            PROVE  j = k
        <5>1. dnsTable'[k] # Dns!NoQuery
          BY <4>1, <3>11, NoQueryIsNone
        <5> QED
          BY <4>1, <5>1, <3>10 DEF DnsInv, Unanswered
      <4>2. ASSUME NEW j \in Ids, dnsTable'[j] # Dns!NoQuery
            PROVE  dnsTable'[j].for \in pending /\ answered[dnsTable'[j].for] = 0
        BY <4>2, <3>9, <3>10 DEF DnsInv, Unanswered
      <4> QED
        BY <4>1, <4>2, <1>1, <1>4 DEF DnsInv, Unanswered
    <3> QED
      BY <3>6, <3>7, <3>12 DEF DnsInv
  <2>5. CASE /\ dnsTable[new] # Dns!NoQuery
             /\ dnsTable' = [Dns!AddQuery(dnsTable, new, q.for, q.depth + 1) EXCEPT ![i] = Dns!NoQuery]
    BY <1>1, <1>4, <2>5, DropKeeps DEF Dns!AddQuery
  <2> QED
    BY <1>4, <2>2, <2>3, <2>4, <2>5 DEF Dns!Fallback
<1> QED
  BY <1>2, <1>3, <1>4 DEF Dns!Answer

LEMMA NameServerStep ==
  ASSUME Named, DnsInv, Dns!NameServer
  PROVE  DnsInv'
<1>1. Listed'
  BY DEF Dns!NameServer, Dns!AddNs, Dns!DelNs, Dns!Default, DnsInv, Listed, Named
<1> QED
  BY <1>1 DEF Dns!NameServer, DnsInv, DnsTypes, Unanswered, Dns!CalledOnce

LEMMA DnsKeeps ==
  ASSUME Named, DnsInv, Dns!Next \/ UNCHANGED Dns!vars
  PROVE  DnsInv'
<1>1. Dns!Fails \subseteq BOOLEAN
  BY DEF Dns!Fails
<1>2. CASE UNCHANGED Dns!vars
  BY <1>2 DEF Dns!vars, DnsInv, Listed, DnsTypes, Unanswered, Dns!CalledOnce
<1>3. CASE Dns!Next
  BY <1>1, <1>3, GetAddrStep, RetransmissionStep, DnsAnswerStep, NameServerStep
  DEF Dns!Next, Dns!Expire
<1> QED
  BY <1>2, <1>3

Enough == /\ IsFiniteSet(Ids) /\ IsFiniteSet(Requests)
          /\ Cardinality(Ids) > Cardinality(Requests)
          /\ DnsRetrans \in Nat \ {0}
          /\ CanFail = FALSE

\* Whoever waits for the callback has a query.
HasQuery == \A r \in pending : answered[r] = 0 => \E i \in Ids : dnsTable[i].for = r
AskedInv == DnsInv /\ Dns!TypeOK /\ HasQuery

LEMMA ANumberIsFree ==
  ASSUME Enough, DnsInv
  PROVE  /\ \E i \in Ids : dnsTable[i] = Dns!NoQuery
         /\ \A i \in Dns!Drawn : dnsTable[i] = Dns!NoQuery
<1>1. \E i \in Ids : dnsTable[i] = Dns!NoQuery
  <2> SUFFICES ASSUME \A i \in Ids : dnsTable[i] # Dns!NoQuery PROVE FALSE
    OBVIOUS
  <2> DEFINE f == [i \in Ids |-> dnsTable[i].for]
  <2>1. f \in [Ids -> Requests]
    BY DEF DnsInv, DnsTypes, Queries
  <2>2. IsFiniteSet(Ids) /\ IsFiniteSet(Requests) /\ Cardinality(Requests) < Cardinality(Ids)
    <3>1. Cardinality(Ids) \in Nat /\ Cardinality(Requests) \in Nat
      BY FS_CardinalityType DEF Enough
    <3> QED
      BY <3>1 DEF Enough
  <2>3. \E i, j \in Ids : i # j /\ f[i] = f[j]
    <3> HIDE DEF f
    <3> QED
      BY <2>1, <2>2, FS_PigeonHole
  <2>4. PICK i \in Ids, j \in Ids : i # j /\ f[i] = f[j]
    BY <2>3
  <2> QED
    BY <2>4 DEF DnsInv, Unanswered
<1> QED
  BY <1>1 DEF Dns!Drawn

LEMMA AskedInitially ==
  ASSUME Named, Enough, Dns!Init
  PROVE  AskedInv
<1>1. DnsInv
  BY DnsInitially
<1>2. Dns!TypeOK
  BY DEF Dns!Init, Dns!TypeOK, Dns!NoQuery, Enough, Dns!Default
<1>3. HasQuery
  BY DEF Dns!Init, HasQuery
<1> QED
  BY <1>1, <1>2, <1>3 DEF AskedInv

\* One entry of the table changes, and with it perhaps what was answered.
LEMMA EntryChanges ==
  ASSUME Named, Enough, AskedInv, DnsInv', NEW i \in Ids, NEW q,
         dnsTable' = [dnsTable EXCEPT ![i] = q],
         q.for \in Requests \cup {"none"}, q.retrans \in 0..DnsRetrans,
         dnsTimers' \in [Ids -> Nat], nsTable' = nsTable,
         \A r \in pending' : answered'[r] = 0 =>
            \/ r = q.for
            \/ r \in pending /\ answered[r] = 0 /\ r # dnsTable[i].for
  PROVE  AskedInv'
<1>1. \A j \in Ids : dnsTable'[j] = IF j = i THEN q ELSE dnsTable[j]
  BY DEF AskedInv, DnsInv, DnsTypes
<1>2. Dns!TypeOK'
  BY <1>1 DEF AskedInv, Dns!TypeOK, DnsInv, DnsTypes
<1>3. HasQuery'
  <2> SUFFICES ASSUME NEW r \in pending', answered'[r] = 0
               PROVE  \E j \in Ids : dnsTable'[j].for = r
    BY DEF HasQuery
  <2>1. CASE r = q.for
    BY <1>1, <2>1
  <2>2. CASE r \in pending /\ answered[r] = 0 /\ r # dnsTable[i].for
    <3>1. PICK j \in Ids : dnsTable[j].for = r
      BY <2>2 DEF AskedInv, HasQuery
    <3> QED
      BY <1>1, <2>2, <3>1
  <2> QED
    BY <2>1, <2>2
<1> QED
  BY <1>2, <1>3 DEF AskedInv

LEMMA SameAsked ==
  ASSUME AskedInv, DnsInv', dnsTable' = dnsTable, answered' = answered, pending' = pending,
         dnsTimers' \in [Ids -> Nat], nsTable' \subseteq Servers \cup {Dns!Default}
  PROVE  AskedInv'
BY DEF AskedInv, Dns!TypeOK, HasQuery

LEMMA QueryEntry ==
  ASSUME Named, Enough, NEW r, NEW d
  PROVE  Dns!Query(r, d).for = r /\ Dns!Query(r, d).retrans \in 0..DnsRetrans
BY DEF Dns!Query, Enough

LEMMA TimersCount ==
  ASSUME dnsTimers \in [Ids -> Nat], NEW i \in Ids, NEW j \in Ids
  PROVE  /\ [dnsTimers EXCEPT ![i] = @ + 1] \in [Ids -> Nat]
         /\ dnsTimers[i] > 0 =>
              /\ [dnsTimers EXCEPT ![i] = @ - 1] \in [Ids -> Nat]
              /\ [[dnsTimers EXCEPT ![i] = @ - 1] EXCEPT ![j] = @ + 1] \in [Ids -> Nat]
OBVIOUS

LEMMA GetAddrAsks ==
  ASSUME Named, Enough, AskedInv, NEW r \in Requests, NEW i \in Ids, Dns!GetAddr(r, i, FALSE)
  PROVE  AskedInv'
<1>1. DnsInv /\ dnsTimers \in [Ids -> Nat] /\ nsTable \subseteq Servers \cup {Dns!Default}
  BY DEF AskedInv, Dns!TypeOK
<1>2. DnsInv'
  BY <1>1, GetAddrStep
<1>3. i \in Dns!Drawn /\ dnsTable[i] = Dns!NoQuery /\ answered' = answered /\ nsTable' = nsTable
  BY <1>1, ANumberIsFree DEF Dns!GetAddr
<1> DEFINE q == Dns!Query(r, 0)
<1>4. q.for = r /\ q.retrans \in 0..DnsRetrans
  BY QueryEntry
<1>5. Dns!AddQuery(dnsTable, i, r, 0) = [dnsTable EXCEPT ![i] = q]
  BY <1>3 DEF Dns!AddQuery
<1> HIDE DEF q
<1>6. [dnsTable EXCEPT ![i] = q][i].for = r
  BY <1>1, <1>4 DEF DnsInv, DnsTypes
<1>7. dnsTable' = [dnsTable EXCEPT ![i] = q] /\ pending' = pending \cup {r}
      /\ dnsTimers' = [dnsTimers EXCEPT ![i] = @ + 1]
  BY <1>5, <1>6 DEF Dns!GetAddr, Dns!Asking
<1>8. dnsTimers' \in [Ids -> Nat]
  BY <1>1, <1>7, TimersCount
<1>9. \A s \in pending : s # dnsTable[i].for
  BY <1>1, <1>3, NoQueryIsNone DEF DnsInv, DnsTypes, Named
<1>10. \A s \in pending' : answered'[s] = 0 =>
           s = q.for \/ (s \in pending /\ answered[s] = 0 /\ s # dnsTable[i].for)
  BY <1>3, <1>4, <1>7, <1>9
<1>11. q.for \in Requests \cup {"none"}
  BY <1>4
<1> QED
  BY <1>2, <1>3, <1>4, <1>7, <1>8, <1>10, <1>11, EntryChanges

LEMMA RetransmissionAsks ==
  ASSUME Named, Enough, AskedInv, NEW i \in Ids, Dns!Retransmission(i, FALSE)
  PROVE  AskedInv'
<1> DEFINE q == dnsTable[i]
           again == [q EXCEPT !.retrans = @ + 1, !.ns = Dns!NextNs(q.ns)]
<1>1. DnsInv /\ dnsTimers \in [Ids -> Nat] /\ nsTable \subseteq Servers \cup {Dns!Default}
  BY DEF AskedInv, Dns!TypeOK
<1>2. DnsInv'
  BY <1>1, RetransmissionStep
<1>3. pending' = pending /\ nsTable' = nsTable /\ dnsTimers[i] > 0
  BY DEF Dns!Retransmission
<1>4. dnsTimers' \in [Ids -> Nat]
  BY <1>1, <1>3, TimersCount DEF Dns!Retransmission, Dns!Asking, Dns!NotAsking
<1>5. CASE q = Dns!NoQuery
  <2>1. dnsTable' = dnsTable /\ answered' = answered
    BY <1>5 DEF Dns!Retransmission
  <2> QED
    BY <1>1, <1>2, <1>3, <1>4, <2>1, SameAsked
<1>6. CASE q # Dns!NoQuery /\ ~Dns!GivesUp(q)
  <2>1. q \in Queries /\ q.retrans \in 0..DnsRetrans
    BY <1>1, <1>6 DEF AskedInv, Dns!TypeOK, DnsInv, DnsTypes
  <2>2. again.for = q.for /\ again.retrans = q.retrans + 1
    BY <2>1 DEF Queries
  <2>3. again.retrans \in 0..DnsRetrans /\ again.for \in Requests
    BY <1>6, <2>1, <2>2 DEF Dns!GivesUp, Enough, Queries
  <2>4. dnsTable' = [dnsTable EXCEPT ![i] = again] /\ answered' = answered
    BY <1>6 DEF Dns!Retransmission
  <2> HIDE DEF again
  <2>5. \A s \in pending' : answered'[s] = 0 =>
           s = again.for \/ (s \in pending /\ answered[s] = 0 /\ s # dnsTable[i].for)
    BY <1>3, <2>2, <2>4
  <2>6. again.for \in Requests \cup {"none"}
    BY <2>3
  <2> QED
    BY <1>2, <1>3, <1>4, <2>3, <2>4, <2>5, <2>6, EntryChanges
<1>7. CASE q # Dns!NoQuery /\ Dns!GivesUp(q)
  <2>1. dnsTable' = [dnsTable EXCEPT ![i] = Dns!NoQuery] /\ answered' = Dns!Called(q.for)
    BY <1>7 DEF Dns!Retransmission, Dns!GiveUp
  <2>2. q.for \in Requests /\ answered \in [Requests -> Nat] /\ pending \subseteq Requests
    BY <1>1, <1>7 DEF DnsInv, DnsTypes, Queries
  <2>3. \A r \in pending : answered'[r] = IF r = q.for THEN answered[r] + 1 ELSE answered[r]
    BY <2>1, <2>2 DEF Dns!Called
  <2>4. \A r \in pending : answered'[r] = 0 => answered[r] = 0 /\ r # q.for
    BY <2>2, <2>3
  <2>5. Dns!NoQuery.for = "none" /\ Dns!NoQuery.retrans \in 0..DnsRetrans
    BY DEF Dns!NoQuery, Enough
  <2> QED
    BY <1>2, <1>3, <1>4, <2>1, <2>4, <2>5, EntryChanges
<1> QED
  BY <1>5, <1>6, <1>7

LEMMA AnswerAsks ==
  ASSUME Named, Enough, AskedInv, NEW i \in Ids, NEW new \in Ids,
         NEW kind \in {"record", "alias", "neither", "error"}, Dns!Answer(i, kind, new, FALSE)
  PROVE  AskedInv'
<1> DEFINE q == dnsTable[i]
<1>1. DnsInv /\ dnsTimers \in [Ids -> Nat] /\ nsTable \subseteq Servers \cup {Dns!Default}
  BY DEF AskedInv, Dns!TypeOK
<1>2. DnsInv'
  BY <1>1, DnsAnswerStep
<1>3. pending' = pending /\ nsTable' = nsTable
  BY DEF Dns!Answer
<1>4. CASE UNCHANGED <<dnsTable, dnsTimers, asked, answered>>
  BY <1>1, <1>2, <1>3, <1>4, SameAsked
<1>5. CASE /\ q # Dns!NoQuery /\ answered' = Dns!Called(q.for) /\ dnsTable' = Dns!UserCallback(i)
           /\ Dns!NotAsking(dnsTimers)
  <2>1. dnsTable' = [dnsTable EXCEPT ![i] = Dns!NoQuery] /\ dnsTimers' \in [Ids -> Nat]
    BY <1>1, <1>5 DEF Dns!UserCallback, Dns!NotAsking
  <2>2. q.for \in Requests /\ answered \in [Requests -> Nat] /\ pending \subseteq Requests
    BY <1>1, <1>5 DEF DnsInv, DnsTypes, Queries
  <2>3. \A r \in pending : answered'[r] = IF r = q.for THEN answered[r] + 1 ELSE answered[r]
    BY <1>5, <2>2 DEF Dns!Called
  <2>4. \A r \in pending : answered'[r] = 0 => answered[r] = 0 /\ r # q.for
    BY <2>2, <2>3
  <2>5. Dns!NoQuery.for = "none" /\ Dns!NoQuery.retrans \in 0..DnsRetrans
    BY DEF Dns!NoQuery, Enough
  <2> QED
    BY <1>2, <1>3, <2>1, <2>4, <2>5, EntryChanges
<1>6. CASE /\ q # Dns!NoQuery /\ answered' = answered /\ new \in Dns!Drawn
           /\ Dns!Fallback(i, q, kind = "alias", new, FALSE)
  <2>1. q \in Queries /\ q.retrans \in 0..DnsRetrans
    BY <1>1, <1>6 DEF AskedInv, Dns!TypeOK, DnsInv, DnsTypes
  <2>2. CASE kind # "alias"
    <3> DEFINE c == [q EXCEPT !.qtype = "CNAME"]
    <3>1. c.for = q.for /\ c.retrans = q.retrans /\ q.for \in Requests
      BY <2>1 DEF Queries
    <3>2. dnsTable' = [dnsTable EXCEPT ![i] = c] /\ dnsTimers' = dnsTimers
      BY <1>6, <2>2 DEF Dns!Fallback, Dns!NotAsking
    <3> HIDE DEF c
    <3>3. \A s \in pending' : answered'[s] = 0 =>
             s = c.for \/ (s \in pending /\ answered[s] = 0 /\ s # dnsTable[i].for)
      BY <1>3, <1>6, <3>1
    <3> QED
      BY <1>1, <1>2, <1>3, <2>1, <3>1, <3>2, <3>3, EntryChanges
  <2>3. CASE kind = "alias"
    <3> DEFINE n == Dns!Query(q.for, q.depth + 1)
    <3>1. dnsTable[new] = Dns!NoQuery /\ new # i
      BY <1>1, <1>6, ANumberIsFree
    <3>2. n.for = q.for /\ n.retrans \in 0..DnsRetrans
      BY QueryEntry
    <3>3. dnsTable' = [[dnsTable EXCEPT ![new] = n] EXCEPT ![i] = Dns!NoQuery]
          /\ dnsTimers' = [dnsTimers EXCEPT ![new] = @ + 1]
      BY <1>6, <2>3, <3>1 DEF Dns!Fallback, Dns!AddQuery, Dns!Asking
    <3> HIDE DEF n
    <3>4. \A j \in Ids : dnsTable'[j] = IF j = i THEN Dns!NoQuery
                                        ELSE IF j = new THEN n ELSE dnsTable[j]
      BY <1>1, <3>1, <3>3 DEF DnsInv, DnsTypes
    <3>5. dnsTimers' \in [Ids -> Nat]
      BY <1>1, <3>3, TimersCount
    <3>6. Dns!NoQuery.for = "none" /\ Dns!NoQuery.retrans \in 0..DnsRetrans
      BY DEF Dns!NoQuery, Enough
    <3>7. q.for \in Requests
      BY <2>1 DEF Queries
    <3>8. Dns!TypeOK'
      BY <1>1, <1>3, <3>2, <3>4, <3>5, <3>6, <3>7 DEF AskedInv, Dns!TypeOK
    <3>9. HasQuery'
      <4> SUFFICES ASSUME NEW r \in pending', answered'[r] = 0
                   PROVE  \E j \in Ids : dnsTable'[j].for = r
        BY DEF HasQuery
      <4>1. PICK j \in Ids : dnsTable[j].for = r
        BY <1>3, <1>6 DEF AskedInv, HasQuery
      <4>2. CASE j = i
        BY <3>1, <3>2, <3>4, <4>1, <4>2
      <4>3. CASE j # i
        <5>1. r # "none"
          BY <1>1, <1>3 DEF DnsInv, DnsTypes, Named
        <5>2. j # new
          BY <3>1, <3>6, <4>1, <5>1
        <5> QED
          BY <3>4, <4>1, <4>3, <5>2
      <4> QED
        BY <4>2, <4>3
    <3> QED
      BY <1>2, <3>8, <3>9 DEF AskedInv
  <2> QED
    BY <2>2, <2>3
<1> QED
  BY <1>4, <1>5, <1>6 DEF Dns!Answer

LEMMA NameServerAsks ==
  ASSUME Named, Enough, AskedInv, Dns!NameServer
  PROVE  AskedInv'
<1>1. DnsInv /\ DnsInv' /\ dnsTimers \in [Ids -> Nat] /\ nsTable \subseteq Servers \cup {Dns!Default}
  BY NameServerStep DEF AskedInv, Dns!TypeOK
<1>2. nsTable' \subseteq Servers \cup {Dns!Default}
  BY <1>1 DEF Dns!NameServer, Dns!AddNs, Dns!DelNs
<1> QED
  BY <1>1, <1>2, SameAsked DEF Dns!NameServer

LEMMA DnsStep ==
  ASSUME Named, Enough, AskedInv, Dns!Next \/ UNCHANGED Dns!vars
  PROVE  AskedInv'
<1>1. Dns!Fails = {FALSE}
  BY DEF Dns!Fails, Enough
<1>2. CASE UNCHANGED Dns!vars
  BY <1>2 DEF Dns!vars, AskedInv, DnsInv, Listed, DnsTypes, Unanswered, Dns!CalledOnce, Dns!TypeOK, HasQuery
<1>3. CASE Dns!Next
  BY <1>1, <1>3, GetAddrAsks, RetransmissionAsks, AnswerAsks, NameServerAsks DEF Dns!Next, Dns!Expire
<1> QED
  BY <1>2, <1>3

LEMMA DnsMeans ==
  ASSUME Named, AskedInv
  PROVE  Dns!TypeOK /\ Dns!CalledOnce /\ Dns!StillAsked /\ Dns!AlwaysAServer
<1>1. Dns!TypeOK /\ Dns!CalledOnce /\ Dns!AlwaysAServer
  BY DEF AskedInv, DnsInv, Listed, Dns!AlwaysAServer
<1>2. ASSUME NEW r \in pending
      PROVE  Cardinality({i \in Ids : dnsTable[i].for = r}) = IF answered[r] = 0 THEN 1 ELSE 0
  <2>1. r \in Requests /\ r # "none"
    BY DEF AskedInv, DnsInv, DnsTypes, Named
  <2>2. CASE answered[r] = 0
    <3>1. PICK j \in Ids : dnsTable[j].for = r
      BY <2>2 DEF AskedInv, HasQuery
    <3>2. {i \in Ids : dnsTable[i].for = r} = {j}
      BY <2>1, <3>1, NoQueryIsNone DEF AskedInv, DnsInv, Unanswered
    <3> QED
      BY <2>2, <3>2, FS_Singleton
  <2>3. CASE answered[r] # 0
    <3>1. {i \in Ids : dnsTable[i].for = r} = {}
      BY <2>1, <2>3, NoQueryIsNone DEF AskedInv, DnsInv, Unanswered
    <3> QED
      BY <2>3, <3>1, FS_EmptySet
  <2> QED
    BY <2>2, <2>3
<1> QED
  BY <1>1, <1>2, SameCardinality DEF Dns!StillAsked

-----------------------------------------------------------------------------
(* PppLink: the modem, LCP, authentication and IPCP                        *)

AuthProtocols == {"none", "pap", "chap"}
Modems == {"INITIAL", "RESET", "ECHO", "CREG", "CGREG", "CGDCONT", "CGATT", "DIAL", "CONNECTED"}
LcpStates == {"INITIAL", "STARTING", "CLOSED", "STOPPED", "CLOSING", "STOPPING",
              "REQ_SENT", "ACK_RCVD", "ACK_SENT", "OPENED"}
AuthStates == {"INITIAL", "STARTING", "RSP_SENT", "REQ_SENT", "AUTHENTICATED"}
IpcpStates == {"INITIAL", "REQ_SENT", "ACK_RCVD", "ACK_SENT", "OPENED"}
LinkTimers == {"MODEM", "LCPREQ", "LCPTERM", "AUTH", "IPCP"}
MostCount == IF MaxConfigure > MaxTerminate THEN MaxConfigure ELSE MaxTerminate
PppDevices ==
  [modem : Modems, lcp : LcpStates, auth : AuthStates, ipcp : IpcpStates,
   proto : AuthProtocols, timer_on : SUBSET LinkTimers, timer_count : 0..MostCount,
   due : BOOLEAN, autoreconnect : BOOLEAN, hungup : BOOLEAN, offers : SUBSET AuthProtocols]
Counts == MaxTerminate \in Nat /\ MaxConfigure \in Nat /\ PppPeers \subseteq SUBSET AuthProtocols

Follows(k) == /\ k.modem = "CONNECTED" <=> k.lcp \in Ppp!Timed \cup {"OPENED"}
              /\ k.lcp = "INITIAL" => k.modem = "INITIAL"
              /\ k.lcp \notin {"CLOSED", "STOPPED"}
TimedWell(k) == k.lcp \in Ppp!Timed => k.timer_on \cap {"LCPREQ", "LCPTERM"} # {}
\* the upper two machines, and the state of LCP they need
LinkAbove(k, lcp) == /\ k.proto \in k.offers \cup {"none"}
                     /\ k.auth # "INITIAL" => lcp = "OPENED"
                     /\ "chap" \notin k.offers =>
                          /\ k.auth \in {"INITIAL", "REQ_SENT", "AUTHENTICATED"}
                          /\ k.ipcp # "INITIAL" => k.auth = "AUTHENTICATED"
LinkInv(k) == k \in PppDevices /\ Follows(k) /\ TimedWell(k) /\ LinkAbove(k, k.lcp)

LEMMA StartTimerStep ==
  ASSUME NEW k \in PppDevices, NEW t \in LinkTimers
  PROVE  /\ Ppp!StartTimer(k, t) \in PppDevices
         /\ Ppp!StartTimer(k, t).modem = k.modem
         /\ Ppp!StartTimer(k, t).lcp = k.lcp
         /\ Ppp!StartTimer(k, t).auth = k.auth
         /\ Ppp!StartTimer(k, t).ipcp = k.ipcp
         /\ Ppp!StartTimer(k, t).proto = k.proto
         /\ Ppp!StartTimer(k, t).offers = k.offers
         /\ Ppp!StartTimer(k, t).timer_on = k.timer_on \cup {t}
         /\ Ppp!StartTimer(k, t).timer_count = k.timer_count
BY DEF Ppp!StartTimer, PppDevices

LEMMA LcpTimerStep ==
  ASSUME Counts, NEW k \in PppDevices, NEW t \in {"LCPREQ", "LCPTERM"}
  PROVE  /\ Ppp!LcpTimerStart(k, t) \in PppDevices
         /\ Ppp!LcpTimerStart(k, t).modem = k.modem
         /\ Ppp!LcpTimerStart(k, t).lcp = k.lcp
         /\ Ppp!LcpTimerStart(k, t).auth = k.auth
         /\ Ppp!LcpTimerStart(k, t).ipcp = k.ipcp
         /\ Ppp!LcpTimerStart(k, t).proto = k.proto
         /\ Ppp!LcpTimerStart(k, t).offers = k.offers
         /\ Ppp!LcpTimerStart(k, t).timer_on = k.timer_on \cup {t}
         /\ k.timer_count # 0 => Ppp!LcpTimerStart(k, t).timer_count = k.timer_count
<1> DEFINE u == Ppp!StartTimer(k, t)
<1>1. /\ u \in PppDevices /\ u.modem = k.modem /\ u.lcp = k.lcp /\ u.auth = k.auth
      /\ u.ipcp = k.ipcp /\ u.proto = k.proto /\ u.offers = k.offers
      /\ u.timer_on = k.timer_on \cup {t} /\ u.timer_count = k.timer_count
  BY StartTimerStep DEF LinkTimers
<1>2. PICK c \in 0..MostCount : /\ k.timer_count # 0 => c = k.timer_count
                                /\ Ppp!LcpTimerStart(k, t) = [u EXCEPT !.timer_count = c]
  BY <1>1 DEF Ppp!LcpTimerStart, Counts, MostCount, PppDevices
<1> HIDE DEF u
<1> QED
  BY <1>1, <1>2 DEF PppDevices

LEMMA LcpGoesStep ==
  ASSUME NEW k \in PppDevices, NEW s \in LcpStates
  PROVE  /\ Ppp!LcpGoes(k, s) \in PppDevices
         /\ Ppp!LcpGoes(k, s).lcp = s
         /\ Ppp!LcpGoes(k, s).modem = k.modem
         /\ Ppp!LcpGoes(k, s).auth = k.auth
         /\ Ppp!LcpGoes(k, s).ipcp = k.ipcp
         /\ Ppp!LcpGoes(k, s).proto = k.proto
         /\ Ppp!LcpGoes(k, s).offers = k.offers
         /\ s \in Ppp!Timed => Ppp!LcpGoes(k, s).timer_on = k.timer_on
         /\ Ppp!LcpGoes(k, s).timer_count = k.timer_count
BY DEF Ppp!LcpGoes, PppDevices, Ppp!Timed

\* Deauthentication: nothing is left above LCP.
LEMMA AuthDownStep ==
  ASSUME NEW k \in PppDevices, LinkAbove(k, "OPENED"), NEW s
  PROVE  /\ Ppp!AuthDown(k) \in PppDevices /\ LinkAbove(Ppp!AuthDown(k), s)
         /\ Ppp!AuthDown(k).modem = k.modem /\ Ppp!AuthDown(k).lcp = k.lcp
         /\ Ppp!AuthDown(k).timer_on = k.timer_on
         /\ Ppp!AuthDown(k).timer_count = k.timer_count
BY DEF Ppp!AuthDown, Ppp!Deauth, LinkAbove, PppDevices, AuthStates, IpcpStates

LEMMA AuthUpStep ==
  ASSUME NEW k \in PppDevices, LinkAbove(k, "OPENED")
  PROVE  /\ Ppp!AuthUp(k) \in PppDevices /\ LinkAbove(Ppp!AuthUp(k), "OPENED")
         /\ Ppp!AuthUp(k).modem = k.modem /\ Ppp!AuthUp(k).lcp = k.lcp
         /\ Ppp!AuthUp(k).timer_count = k.timer_count
         /\ k.timer_on \subseteq Ppp!AuthUp(k).timer_on
<1>1. CASE k.auth # "INITIAL"
  BY <1>1 DEF Ppp!AuthUp
<1>2. CASE k.auth = "INITIAL" /\ k.proto = "none"
  <2> DEFINE a == [k EXCEPT !.auth = "AUTHENTICATED"]
             b == [a EXCEPT !.ipcp = "REQ_SENT"]
  <2>1. a \in PppDevices /\ LinkAbove(a, "OPENED") /\ b \in PppDevices /\ LinkAbove(b, "OPENED")
    BY <1>2 DEF PppDevices, LinkAbove, AuthStates, IpcpStates
  <2>2. /\ a.modem = k.modem /\ a.lcp = k.lcp /\ a.timer_count = k.timer_count
        /\ a.timer_on = k.timer_on
        /\ b.modem = k.modem /\ b.lcp = k.lcp /\ b.timer_count = k.timer_count
        /\ b.timer_on = k.timer_on
    BY DEF PppDevices
  <2>3. Ppp!AuthUp(k) = IF a.ipcp = "INITIAL" THEN Ppp!StartTimer(b, "IPCP") ELSE a
    BY <1>2 DEF Ppp!AuthUp, Ppp!Auth, Ppp!IpcpReq
  <2> HIDE DEF a, b
  <2>4. Ppp!StartTimer(b, "IPCP") \in PppDevices /\ LinkAbove(Ppp!StartTimer(b, "IPCP"), "OPENED")
    BY <2>1, StartTimerStep DEF LinkAbove, LinkTimers
  <2>5. /\ Ppp!StartTimer(b, "IPCP").modem = k.modem /\ Ppp!StartTimer(b, "IPCP").lcp = k.lcp
        /\ Ppp!StartTimer(b, "IPCP").timer_count = k.timer_count
        /\ k.timer_on \subseteq Ppp!StartTimer(b, "IPCP").timer_on
    BY <2>1, <2>2, StartTimerStep DEF LinkTimers
  <2> QED
    BY <2>1, <2>2, <2>3, <2>4, <2>5
<1>3. CASE k.auth = "INITIAL" /\ k.proto = "pap"
  <2> DEFINE a == [k EXCEPT !.auth = "REQ_SENT"]
  <2>1. a \in PppDevices /\ LinkAbove(a, "OPENED")
    BY <1>3 DEF PppDevices, LinkAbove, AuthStates
  <2>2. /\ a.modem = k.modem /\ a.lcp = k.lcp /\ a.timer_count = k.timer_count
        /\ a.timer_on = k.timer_on
    BY DEF PppDevices
  <2>3. Ppp!AuthUp(k) = Ppp!StartTimer(a, "AUTH")
    BY <1>3 DEF Ppp!AuthUp
  <2> HIDE DEF a
  <2>4. LinkAbove(Ppp!StartTimer(a, "AUTH"), "OPENED")
    BY <2>1, StartTimerStep DEF LinkAbove, LinkTimers
  <2> QED
    BY <2>1, <2>2, <2>3, <2>4, StartTimerStep DEF LinkTimers
<1>4. CASE k.auth = "INITIAL" /\ k.proto = "chap"
  <2>1. Ppp!AuthUp(k) = [k EXCEPT !.auth = "STARTING"]
    BY <1>4 DEF Ppp!AuthUp
  <2>2. Ppp!AuthUp(k) \in PppDevices /\ LinkAbove(Ppp!AuthUp(k), "OPENED")
    BY <1>4, <2>1 DEF PppDevices, LinkAbove, AuthStates
  <2> QED
    BY <2>1, <2>2 DEF PppDevices
<1> QED
  BY <1>1, <1>2, <1>3, <1>4 DEF PppDevices, AuthProtocols

LEMMA ModemStartStep ==
  ASSUME NEW k \in PppDevices
  PROVE  /\ Ppp!ModemStart(k) \in PppDevices
         /\ Ppp!ModemStart(k).lcp = k.lcp
         /\ \A s : LinkAbove(k, s) => LinkAbove(Ppp!ModemStart(k), s)
         /\ Ppp!ModemStart(k).modem \in Modems \ {"INITIAL"}
         /\ Ppp!ModemStart(k).modem = "CONNECTED" <=> k.modem = "CONNECTED"
         /\ Ppp!ModemStart(k).timer_count = k.timer_count
         /\ k.timer_on \subseteq Ppp!ModemStart(k).timer_on
<1>1. CASE k.modem # "INITIAL"
  BY <1>1 DEF Ppp!ModemStart, PppDevices
<1>2. CASE k.modem = "INITIAL"
  <2> DEFINE a == [k EXCEPT !.modem = "RESET"]
  <2>1. a \in PppDevices /\ a.modem = "RESET" /\ a.lcp = k.lcp
        /\ a.timer_count = k.timer_count /\ a.timer_on = k.timer_on
        /\ a.proto = k.proto /\ a.offers = k.offers /\ a.auth = k.auth /\ a.ipcp = k.ipcp
    BY DEF PppDevices, Modems
  <2>2. Ppp!ModemStart(k) = Ppp!StartTimer(a, "MODEM")
    BY <1>2 DEF Ppp!ModemStart
  <2> HIDE DEF a
  <2>3. \A s : LinkAbove(k, s) => LinkAbove(Ppp!ModemStart(k), s)
    BY <2>1, <2>2, StartTimerStep DEF LinkAbove, LinkTimers
  <2> QED
    BY <1>2, <2>1, <2>2, <2>3, StartTimerStep DEF LinkTimers, Modems
<1> QED
  BY <1>1, <1>2

\* The modem is not connected any more: LCP hears of it.
LEMMA LcpDownStep ==
  ASSUME NEW k \in PppDevices, k.modem = "INITIAL", LinkAbove(k, k.lcp),
         k.lcp \in Ppp!Timed \cup {"OPENED", "CLOSED", "STOPPED", "INITIAL", "STARTING"}
  PROVE  /\ LinkInv(Ppp!LcpDown(k))
         /\ Ppp!LcpDown(k).lcp \notin Ppp!Timed
         /\ Ppp!LcpDown(k).timer_count = k.timer_count
<1>1. LinkAbove(k, "OPENED")
  BY DEF LinkAbove
<1>2. CASE k.lcp \in {"CLOSED", "CLOSING"}
  <2> DEFINE a == Ppp!LcpGoes(k, "INITIAL")
  <2>1. Ppp!LcpDown(k) = a
    BY <1>2 DEF Ppp!LcpDown
  <2>2. a \in PppDevices /\ a.modem = "INITIAL" /\ a.lcp = "INITIAL"
        /\ a.timer_count = k.timer_count
        /\ a.proto = k.proto /\ a.offers = k.offers /\ a.auth = k.auth /\ a.ipcp = k.ipcp
    BY LcpGoesStep DEF LcpStates
  <2> HIDE DEF a
  <2> QED
    BY <1>2, <2>1, <2>2 DEF LinkInv, Follows, TimedWell, LinkAbove, Ppp!Timed
<1>3. CASE k.lcp = "STOPPED"
  <2> DEFINE a == Ppp!LcpGoes(k, "STARTING")
  <2>1. Ppp!LcpDown(k) = Ppp!ModemStart(a)
    BY <1>3 DEF Ppp!LcpDown
  <2>2. a \in PppDevices /\ a.modem = "INITIAL" /\ a.lcp = "STARTING"
        /\ a.timer_count = k.timer_count
        /\ a.proto = k.proto /\ a.offers = k.offers /\ a.auth = k.auth /\ a.ipcp = k.ipcp
    BY LcpGoesStep DEF LcpStates
  <2> HIDE DEF a
  <2>3. LinkAbove(a, "STARTING")
    BY <1>3, <2>2 DEF LinkAbove
  <2> QED
    BY <2>1, <2>2, <2>3, ModemStartStep DEF LinkInv, Follows, TimedWell, Ppp!Timed
<1>4. CASE k.lcp \in {"STOPPING", "REQ_SENT", "ACK_RCVD", "ACK_SENT"}
  <2> DEFINE a == Ppp!LcpGoes(k, "STARTING")
  <2>1. Ppp!LcpDown(k) = a
    BY <1>4 DEF Ppp!LcpDown
  <2>2. a \in PppDevices /\ a.modem = "INITIAL" /\ a.lcp = "STARTING"
        /\ a.timer_count = k.timer_count
        /\ a.proto = k.proto /\ a.offers = k.offers /\ a.auth = k.auth /\ a.ipcp = k.ipcp
    BY LcpGoesStep DEF LcpStates
  <2> HIDE DEF a
  <2> QED
    BY <1>4, <2>1, <2>2 DEF LinkInv, Follows, TimedWell, LinkAbove, Ppp!Timed
<1>5. CASE k.lcp = "OPENED"
  <2> DEFINE a == Ppp!LcpGoes(k, "STARTING")
  <2>1. Ppp!LcpDown(k) = Ppp!AuthDown(a)
    BY <1>5 DEF Ppp!LcpDown
  <2>2. a \in PppDevices /\ a.modem = "INITIAL" /\ a.lcp = "STARTING"
        /\ a.timer_count = k.timer_count
        /\ a.proto = k.proto /\ a.offers = k.offers /\ a.auth = k.auth /\ a.ipcp = k.ipcp
    BY LcpGoesStep DEF LcpStates
  <2> HIDE DEF a
  <2>3. LinkAbove(a, "OPENED")
    BY <1>1, <2>2 DEF LinkAbove
  <2> QED
    BY <2>1, <2>2, <2>3, AuthDownStep DEF LinkInv, Follows, TimedWell, Ppp!Timed
<1>6. CASE k.lcp \in {"INITIAL", "STARTING"}
  <2>1. Ppp!LcpDown(k) = k
    BY <1>6 DEF Ppp!LcpDown
  <2> QED
    BY <1>6, <2>1 DEF LinkInv, Follows, TimedWell, Ppp!Timed
<1> QED
  BY <1>2, <1>3, <1>4, <1>5, <1>6 DEF Ppp!Timed

LEMMA ModemStopStep ==
  ASSUME NEW k \in PppDevices, LinkAbove(k, k.lcp),
         \/ k.modem = "CONNECTED"
         \/ k.lcp \in {"INITIAL", "STARTING"}
  PROVE  LinkInv(Ppp!ModemStop(k)) /\ Ppp!ModemStop(k).timer_count = k.timer_count
         /\ Ppp!ModemStop(k).lcp \notin Ppp!Timed
<1> DEFINE a == [k EXCEPT !.modem = "INITIAL"]
<1>1. a \in PppDevices /\ a.modem = "INITIAL" /\ a.lcp = k.lcp
      /\ a.timer_count = k.timer_count
      /\ a.proto = k.proto /\ a.offers = k.offers /\ a.auth = k.auth /\ a.ipcp = k.ipcp
      /\ k.lcp \in LcpStates
  BY DEF PppDevices, Modems
<1>2. LinkAbove(a, a.lcp)
  BY <1>1 DEF LinkAbove
<1>3. Ppp!ModemStop(k) = IF k.modem = "CONNECTED" THEN Ppp!LcpDown(a) ELSE a
  BY DEF Ppp!ModemStop
<1> HIDE DEF a
<1>4. CASE k.modem = "CONNECTED"
  BY <1>1, <1>2, <1>3, <1>4, LcpDownStep DEF LcpStates, Ppp!Timed
<1>5. CASE k.modem # "CONNECTED"
  BY <1>1, <1>2, <1>3, <1>5 DEF LinkInv, Follows, TimedWell, Ppp!Timed
<1> QED
  BY <1>4, <1>5

\* Requests and the states of LCP over a connected modem.
LEMMA LinkRequestStep ==
  ASSUME Counts, NEW k \in PppDevices, LinkInv(k), NEW t \in {"LCPREQ", "LCPTERM"}
  PROVE  /\ LinkInv(Ppp!LcpTimerStart(k, t))
         /\ k.timer_count # 0 => Ppp!LcpTimerStart(k, t).timer_count = k.timer_count
<1> DEFINE a == Ppp!LcpTimerStart(k, t)
<1>1. a \in PppDevices /\ a.modem = k.modem /\ a.lcp = k.lcp /\ t \in a.timer_on
      /\ a.proto = k.proto /\ a.offers = k.offers /\ a.auth = k.auth /\ a.ipcp = k.ipcp
  BY LcpTimerStep
<1> HIDE DEF a
<1>2. LinkInv(a)
  BY <1>1 DEF LinkInv, Follows, TimedWell, LinkAbove
<1> QED
  BY <1>2, LcpTimerStep DEF a

LEMMA GoesOnline ==
  ASSUME Counts, NEW k \in PppDevices, k.modem = "CONNECTED", NEW s \in Ppp!Timed,
         NEW t \in {"LCPREQ", "LCPTERM"}, LinkAbove(k, "OPENED"), k.auth = "INITIAL"
  PROVE  /\ LinkInv(Ppp!LcpTimerStart(Ppp!LcpGoes(k, s), t))
         /\ k.timer_count # 0 => Ppp!LcpTimerStart(Ppp!LcpGoes(k, s), t).timer_count = k.timer_count
<1> DEFINE a == Ppp!LcpGoes(k, s)
           b == Ppp!LcpTimerStart(a, t)
<1>1. a \in PppDevices /\ a.modem = "CONNECTED" /\ a.lcp = s /\ a.timer_count = k.timer_count
      /\ a.proto = k.proto /\ a.offers = k.offers /\ a.auth = k.auth /\ a.ipcp = k.ipcp
  BY LcpGoesStep DEF LcpStates, Ppp!Timed
<1> HIDE DEF a
<1>2. (a.timer_count # 0 => b.timer_count = a.timer_count)
      /\ b \in PppDevices /\ b.modem = a.modem /\ b.lcp = a.lcp /\ t \in b.timer_on
      /\ b.proto = a.proto /\ b.offers = a.offers /\ b.auth = a.auth /\ b.ipcp = a.ipcp
  BY <1>1, LcpTimerStep
<1> HIDE DEF b
<1>3. LinkInv(b)
  BY <1>1, <1>2 DEF LinkInv, Follows, TimedWell, LinkAbove, Ppp!Timed
<1> QED
  BY <1>1, <1>2, <1>3 DEF a, b

LEMMA GoesDown ==
  ASSUME Counts, NEW k \in PppDevices, k.modem = "CONNECTED", NEW s \in Ppp!Timed,
         NEW t \in {"LCPREQ", "LCPTERM"}, LinkAbove(k, "OPENED")
  PROVE  LinkInv(Ppp!LcpTimerStart(Ppp!AuthDown(Ppp!LcpGoes(k, s)), t))
<1> DEFINE a == Ppp!LcpGoes(k, s)
           b == Ppp!AuthDown(a)
           c == Ppp!LcpTimerStart(b, t)
<1>1. a \in PppDevices /\ a.modem = "CONNECTED" /\ a.lcp = s
      /\ a.proto = k.proto /\ a.offers = k.offers /\ a.auth = k.auth /\ a.ipcp = k.ipcp
  BY LcpGoesStep DEF LcpStates, Ppp!Timed
<1> HIDE DEF a
<1>2. LinkAbove(a, "OPENED")
  BY <1>1 DEF LinkAbove
<1>3. b \in PppDevices /\ b.modem = "CONNECTED" /\ b.lcp = s /\ LinkAbove(b, s)
  BY <1>1, <1>2, AuthDownStep
<1> HIDE DEF b
<1>4. c \in PppDevices /\ c.modem = b.modem /\ c.lcp = b.lcp /\ t \in c.timer_on
      /\ c.proto = b.proto /\ c.offers = b.offers /\ c.auth = b.auth /\ c.ipcp = b.ipcp
  BY <1>3, LcpTimerStep
<1> HIDE DEF c
<1>5. LinkInv(c)
  BY <1>3, <1>4 DEF LinkInv, Follows, TimedWell, LinkAbove, Ppp!Timed
<1> QED
  BY <1>5 DEF a, b, c

LEMMA StaysTimed ==
  ASSUME NEW k \in PppDevices, LinkInv(k), k.lcp \in Ppp!Timed, NEW s \in Ppp!Timed
  PROVE  LinkInv(Ppp!LcpGoes(k, s))
<1> DEFINE a == Ppp!LcpGoes(k, s)
<1>1. a \in PppDevices /\ a.modem = k.modem /\ a.lcp = s /\ a.timer_on = k.timer_on
      /\ a.proto = k.proto /\ a.offers = k.offers /\ a.auth = k.auth /\ a.ipcp = k.ipcp
  BY LcpGoesStep DEF LcpStates, Ppp!Timed
<1> HIDE DEF a
<1>2. LinkInv(a)
  BY <1>1 DEF LinkInv, Follows, TimedWell, LinkAbove, Ppp!Timed
<1> QED
  BY <1>2 DEF a

LEMMA LinkOpens ==
  ASSUME NEW k \in PppDevices, LinkInv(k), k.lcp \in Ppp!Timed
  PROVE  LinkInv(Ppp!AuthUp(Ppp!LcpGoes(k, "OPENED")))
<1> DEFINE a == Ppp!LcpGoes(k, "OPENED")
           b == Ppp!AuthUp(a)
<1>1. a \in PppDevices /\ a.modem = k.modem /\ a.lcp = "OPENED"
      /\ a.proto = k.proto /\ a.offers = k.offers /\ a.auth = k.auth /\ a.ipcp = k.ipcp
  BY LcpGoesStep DEF LcpStates
<1> HIDE DEF a
<1>2. LinkAbove(a, "OPENED") /\ a.modem = "CONNECTED"
  BY <1>1 DEF LinkInv, LinkAbove, Follows, Ppp!Timed
<1>3. b \in PppDevices /\ LinkAbove(b, "OPENED") /\ b.lcp = "OPENED" /\ b.modem = "CONNECTED"
  BY <1>1, <1>2, AuthUpStep
<1> HIDE DEF b
<1>4. LinkInv(b)
  BY <1>3 DEF LinkInv, Follows, TimedWell, Ppp!Timed
<1> QED
  BY <1>4 DEF a, b

\* LCP gives up, and the modem is stopped.
LEMMA LinkEnds ==
  ASSUME NEW k \in PppDevices, LinkInv(k),
         NEW s \in {"CLOSED", "STOPPED", "INITIAL"},
         k.lcp \in Ppp!Timed \/ (k.lcp = "STARTING" /\ s = "INITIAL")
  PROVE  LinkInv(Ppp!LcpFinished(Ppp!LcpGoes(k, s)))
         /\ Ppp!LcpFinished(Ppp!LcpGoes(k, s)).timer_count = k.timer_count
<1> DEFINE a == Ppp!LcpGoes(k, s)
<1>1. a \in PppDevices /\ a.modem = k.modem /\ a.lcp = s /\ a.timer_count = k.timer_count
      /\ a.proto = k.proto /\ a.offers = k.offers /\ a.auth = k.auth /\ a.ipcp = k.ipcp
  BY LcpGoesStep DEF LcpStates
<1> HIDE DEF a
<1>2. LinkAbove(a, a.lcp) /\ (a.modem = "CONNECTED" \/ a.lcp = "INITIAL")
  BY <1>1 DEF LinkInv, Follows, LinkAbove, Ppp!Timed
<1> QED
  BY <1>1, <1>2, ModemStopStep DEF Ppp!LcpFinished, a

LEMMA LcpUpStep ==
  ASSUME Counts, NEW k \in PppDevices, k.modem = "CONNECTED", k.lcp = "STARTING",
         LinkAbove(k, "STARTING")
  PROVE  LinkInv(Ppp!LcpUp(k))
<1>1. LinkAbove(k, "OPENED") /\ k.auth = "INITIAL"
  BY DEF LinkAbove
<1>2. Ppp!LcpUp(k) = Ppp!LcpTimerStart(Ppp!LcpGoes(k, "REQ_SENT"), "LCPREQ")
  BY DEF Ppp!LcpUp, Ppp!ConfReq
<1> QED
  BY <1>1, <1>2, GoesOnline DEF Ppp!Timed

LEMMA LcpOpenStep ==
  ASSUME NEW k \in PppDevices, LinkInv(k)
  PROVE  LinkInv(Ppp!LcpOpen(k))
<1>1. CASE k.lcp = "INITIAL"
  <2> DEFINE a == Ppp!LcpGoes(k, "STARTING")
  <2>1. a \in PppDevices /\ a.modem = k.modem /\ a.lcp = "STARTING"
        /\ a.proto = k.proto /\ a.offers = k.offers /\ a.auth = k.auth /\ a.ipcp = k.ipcp
    BY LcpGoesStep DEF LcpStates
  <2>2. Ppp!LcpOpen(k) = Ppp!ModemStart(a)
    BY <1>1 DEF Ppp!LcpOpen
  <2> HIDE DEF a
  <2>3. LinkAbove(a, "STARTING") /\ a.modem = "INITIAL"
    BY <1>1, <2>1 DEF LinkInv, LinkAbove, Follows
  <2> QED
    BY <2>1, <2>2, <2>3, ModemStartStep DEF LinkInv, Follows, TimedWell, Ppp!Timed
<1>2. CASE k.lcp # "INITIAL"
  BY <1>2 DEF Ppp!LcpOpen
<1> QED
  BY <1>1, <1>2

LEMMA OnlineFacts ==
  ASSUME NEW k, LinkInv(k)
  PROVE  /\ k \in PppDevices
         /\ LinkAbove(k, "OPENED")
         /\ k.lcp # "OPENED" => k.auth = "INITIAL"
         /\ k.lcp \in Ppp!Timed \cup {"OPENED"} => k.modem = "CONNECTED"
         /\ k.modem = "CONNECTED" => k.lcp \in Ppp!Timed \cup {"OPENED"}
BY DEF LinkInv, LinkAbove, Follows

LEMMA LcpCloseStep ==
  ASSUME Counts, NEW k \in PppDevices, LinkInv(k)
  PROVE  LinkInv(Ppp!LcpClose(k))
<1>1. CASE k.lcp = "STARTING"
  BY <1>1, LinkEnds DEF Ppp!LcpClose
<1>2. k.lcp \notin {"STOPPED", "CLOSED"}
  BY DEF LinkInv, Follows
<1>3. CASE k.lcp = "STOPPING"
  BY <1>3, StaysTimed DEF Ppp!LcpClose, Ppp!Timed
<1>4. CASE k.lcp \in {"REQ_SENT", "ACK_RCVD", "ACK_SENT"}
  <2>1. Ppp!LcpClose(k) = Ppp!LcpTimerStart(Ppp!LcpGoes(k, "CLOSING"), "LCPTERM")
    BY <1>4 DEF Ppp!LcpClose, Ppp!TermReq
  <2> QED
    BY <1>4, <2>1, OnlineFacts, GoesOnline DEF Ppp!Timed
<1>5. CASE k.lcp = "OPENED"
  <2>1. Ppp!LcpClose(k) = Ppp!LcpTimerStart(Ppp!AuthDown(Ppp!LcpGoes(k, "CLOSING")), "LCPTERM")
    BY <1>5 DEF Ppp!LcpClose, Ppp!TermReq
  <2> QED
    BY <1>5, <2>1, OnlineFacts, GoesDown DEF Ppp!Timed
<1>6. CASE k.lcp \in {"INITIAL", "CLOSING"}
  BY <1>6 DEF Ppp!LcpClose
<1> QED
  BY <1>1, <1>2, <1>3, <1>4, <1>5, <1>6 DEF PppDevices, LcpStates

LEMMA LcpTimeoutStep ==
  ASSUME Counts, NEW k \in PppDevices, LinkInv(k)
  PROVE  /\ LinkInv(Ppp!LcpTimeout(k))
         /\ k.timer_count # 0 => Ppp!LcpTimeout(k).timer_count = k.timer_count
<1>1. CASE k.lcp \in {"CLOSING", "STOPPING"} /\ k.timer_count # 0
  <2>1. Ppp!LcpTimeout(k) = Ppp!LcpTimerStart(k, "LCPTERM")
    BY <1>1 DEF Ppp!LcpTimeout, Ppp!TermReq
  <2> QED
    BY <2>1, LinkRequestStep
<1>2. CASE k.lcp = "CLOSING" /\ k.timer_count = 0
  BY <1>2, LinkEnds DEF Ppp!LcpTimeout, Ppp!Timed
<1>3. CASE k.lcp = "STOPPING" /\ k.timer_count = 0
  BY <1>3, LinkEnds DEF Ppp!LcpTimeout, Ppp!Timed
<1>4. CASE k.lcp \in {"REQ_SENT", "ACK_RCVD", "ACK_SENT"} /\ k.timer_count = 0
  BY <1>4, LinkEnds DEF Ppp!LcpTimeout, Ppp!Timed
<1>5. CASE k.lcp \in {"REQ_SENT", "ACK_RCVD", "ACK_SENT"} /\ k.timer_count # 0
  <2>1. PICK s \in Ppp!Timed : Ppp!LcpTimeout(k) = Ppp!LcpTimerStart(Ppp!LcpGoes(k, s), "LCPREQ")
    BY <1>5 DEF Ppp!LcpTimeout, Ppp!ConfReq, Ppp!Timed
  <2> QED
    BY <1>5, <2>1, OnlineFacts, GoesOnline DEF Ppp!Timed
<1>6. CASE k.lcp \notin Ppp!Timed
  BY <1>6 DEF Ppp!LcpTimeout, Ppp!Timed
<1> QED
  BY <1>1, <1>2, <1>3, <1>4, <1>5, <1>6 DEF Ppp!Timed

LEMMA LcpRcrPosStep ==
  ASSUME Counts, NEW k \in PppDevices, LinkInv(k), k.modem = "CONNECTED"
  PROVE  LinkInv(Ppp!LcpRcrPos(k))
<1>1. k.lcp \in Ppp!Timed \cup {"OPENED"}
  BY OnlineFacts
<1>2. CASE k.lcp \in {"REQ_SENT", "ACK_SENT"}
  BY <1>2, StaysTimed DEF Ppp!LcpRcrPos, Ppp!Timed
<1>3. CASE k.lcp = "ACK_RCVD"
  BY <1>3, LinkOpens DEF Ppp!LcpRcrPos, Ppp!Timed
<1>4. CASE k.lcp = "OPENED"
  <2>1. Ppp!LcpRcrPos(k) = Ppp!LcpTimerStart(Ppp!AuthDown(Ppp!LcpGoes(k, "ACK_SENT")), "LCPTERM")
    BY <1>4 DEF Ppp!LcpRcrPos, Ppp!TermReq
  <2> QED
    BY <2>1, OnlineFacts, GoesDown DEF Ppp!Timed
<1>5. CASE k.lcp \in {"CLOSING", "STOPPING"}
  BY <1>5 DEF Ppp!LcpRcrPos
<1> QED
  BY <1>1, <1>2, <1>3, <1>4, <1>5 DEF Ppp!Timed

LEMMA LcpRcrNegStep ==
  ASSUME Counts, NEW k \in PppDevices, LinkInv(k), k.modem = "CONNECTED"
  PROVE  LinkInv(Ppp!LcpRcrNeg(k))
<1>1. k.lcp \in Ppp!Timed \cup {"OPENED"}
  BY OnlineFacts
<1>2. CASE k.lcp = "ACK_SENT"
  BY <1>2, StaysTimed DEF Ppp!LcpRcrNeg, Ppp!Timed
<1>3. CASE k.lcp = "OPENED"
  <2>1. Ppp!LcpRcrNeg(k) = Ppp!LcpTimerStart(Ppp!AuthDown(Ppp!LcpGoes(k, "REQ_SENT")), "LCPREQ")
    BY <1>3 DEF Ppp!LcpRcrNeg, Ppp!ConfReq
  <2> QED
    BY <2>1, OnlineFacts, GoesDown DEF Ppp!Timed
<1>4. CASE k.lcp \in Ppp!Timed \ {"ACK_SENT"}
  BY <1>4 DEF Ppp!LcpRcrNeg, Ppp!Timed
<1> QED
  BY <1>1, <1>2, <1>3, <1>4

LEMMA LcpRcaStep ==
  ASSUME Counts, NEW k \in PppDevices, LinkInv(k), k.modem = "CONNECTED"
  PROVE  LinkInv(Ppp!LcpRca(k))
<1>1. k.lcp \in Ppp!Timed \cup {"OPENED"}
  BY OnlineFacts
<1>2. CASE k.lcp \in {"REQ_SENT", "ACK_RCVD"}
  <2>1. PICK s \in Ppp!Timed : Ppp!LcpRca(k) = Ppp!LcpTimerStart(Ppp!LcpGoes(k, s), "LCPREQ")
    BY <1>2 DEF Ppp!LcpRca, Ppp!ConfReq, Ppp!Timed
  <2> QED
    BY <1>2, <2>1, OnlineFacts, GoesOnline DEF Ppp!Timed
<1>3. CASE k.lcp = "ACK_SENT"
  BY <1>3, LinkOpens DEF Ppp!LcpRca, Ppp!Timed
<1>4. CASE k.lcp = "OPENED"
  <2>1. Ppp!LcpRca(k) = Ppp!LcpTimerStart(Ppp!AuthDown(Ppp!LcpGoes(k, "REQ_SENT")), "LCPTERM")
    BY <1>4 DEF Ppp!LcpRca, Ppp!TermReq
  <2> QED
    BY <2>1, OnlineFacts, GoesDown DEF Ppp!Timed
<1>5. CASE k.lcp \in {"CLOSING", "STOPPING"}
  BY <1>5 DEF Ppp!LcpRca
<1> QED
  BY <1>1, <1>2, <1>3, <1>4, <1>5 DEF Ppp!Timed

LEMMA LcpRcnStep ==
  ASSUME Counts, NEW k \in PppDevices, LinkInv(k), k.modem = "CONNECTED"
  PROVE  LinkInv(Ppp!LcpRcn(k))
<1>1. k.lcp \in Ppp!Timed \cup {"OPENED"}
  BY OnlineFacts
<1>2. CASE k.lcp \in {"REQ_SENT", "ACK_SENT"}
  <2>1. Ppp!LcpRcn(k) = Ppp!LcpTimerStart(k, "LCPREQ")
    BY <1>2 DEF Ppp!LcpRcn, Ppp!ConfReq
  <2> QED
    BY <2>1, LinkRequestStep
<1>3. CASE k.lcp = "ACK_RCVD"
  <2>1. Ppp!LcpRcn(k) = Ppp!LcpTimerStart(Ppp!LcpGoes(k, "REQ_SENT"), "LCPREQ")
    BY <1>3 DEF Ppp!LcpRcn, Ppp!ConfReq
  <2> QED
    BY <1>3, <2>1, OnlineFacts, GoesOnline DEF Ppp!Timed
<1>4. CASE k.lcp = "OPENED"
  <2>1. Ppp!LcpRcn(k) = Ppp!LcpTimerStart(Ppp!AuthDown(Ppp!LcpGoes(k, "REQ_SENT")), "LCPTERM")
    BY <1>4 DEF Ppp!LcpRcn, Ppp!TermReq
  <2> QED
    BY <2>1, OnlineFacts, GoesDown DEF Ppp!Timed
<1>5. CASE k.lcp \in {"CLOSING", "STOPPING"}
  BY <1>5 DEF Ppp!LcpRcn
<1> QED
  BY <1>1, <1>2, <1>3, <1>4, <1>5 DEF Ppp!Timed

\* A step above LCP leaves it and its timers alone.
LEMMA UpperStep ==
  ASSUME NEW k, LinkInv(k), NEW a \in PppDevices,
         a.modem = k.modem, a.lcp = k.lcp, LinkAbove(a, k.lcp),
         k.timer_on \ {"AUTH", "IPCP", "MODEM"} \subseteq a.timer_on
  PROVE  LinkInv(a)
BY DEF LinkInv, Follows, TimedWell, LinkAbove, PppDevices

LEMMA UpperTimer ==
  ASSUME NEW k, LinkInv(k), NEW a \in PppDevices, NEW t \in {"AUTH", "IPCP"},
         a.modem = k.modem, a.lcp = k.lcp, LinkAbove(a, k.lcp),
         k.timer_on \ {"AUTH", "IPCP", "MODEM"} \subseteq a.timer_on
  PROVE  LinkInv(Ppp!StartTimer(a, t))
<1> DEFINE b == Ppp!StartTimer(a, t)
<1>1. b \in PppDevices /\ b.modem = a.modem /\ b.lcp = a.lcp /\ a.timer_on \subseteq b.timer_on
      /\ b.proto = a.proto /\ b.offers = a.offers /\ b.auth = a.auth /\ b.ipcp = a.ipcp
  BY StartTimerStep DEF LinkTimers
<1> HIDE DEF b
<1>2. LinkAbove(b, k.lcp)
  BY <1>1 DEF LinkAbove
<1>3. LinkInv(b)
  BY <1>1, <1>2, UpperStep
<1> QED
  BY <1>3 DEF b

LEMMA IpcpStep ==
  ASSUME NEW k, LinkInv(k), NEW event \in {"RCR", "RCA", "RCN", "TO"}
  PROVE  LinkInv(Ppp!Ipcp(k, event))
<1>1. k \in PppDevices /\ LinkAbove(k, k.lcp)
  BY DEF LinkInv
<1>2. CASE k.ipcp = "INITIAL"
  BY <1>2 DEF Ppp!Ipcp
<1>3. CASE k.ipcp # "INITIAL"
  <2>1. PICK s \in IpcpStates \ {"INITIAL"} :
          \/ Ppp!Ipcp(k, event) = [k EXCEPT !.ipcp = s]
          \/ Ppp!Ipcp(k, event) = Ppp!StartTimer([k EXCEPT !.ipcp = s], "IPCP")
    <3>1. k = [k EXCEPT !.ipcp = k.ipcp] /\ k.ipcp \in IpcpStates
      BY <1>1 DEF PppDevices
    <3> QED
      BY <1>3, <3>1 DEF Ppp!Ipcp, Ppp!IpcpReq, IpcpStates
  <2> DEFINE a == [k EXCEPT !.ipcp = s]
  <2>2. a \in PppDevices /\ a.modem = k.modem /\ a.lcp = k.lcp /\ a.timer_on = k.timer_on
        /\ a.proto = k.proto /\ a.offers = k.offers /\ a.auth = k.auth
    BY <1>1 DEF PppDevices
  <2> HIDE DEF a
  <2>3. LinkAbove(a, k.lcp)
    BY <1>1, <1>3, <2>2 DEF LinkAbove
  <2> QED
    BY <2>1, <2>2, <2>3, UpperStep, UpperTimer DEF a
<1> QED
  BY <1>2, <1>3

LEMMA AuthRacStep ==
  ASSUME NEW k, LinkInv(k), k.proto = "chap"
  PROVE  LinkInv(Ppp!AuthRac(k))
<1>1. k \in PppDevices /\ LinkAbove(k, k.lcp) /\ "chap" \in k.offers
  BY DEF LinkInv, LinkAbove
<1> DEFINE a == [k EXCEPT !.auth = "RSP_SENT"]
<1>2. /\ a \in PppDevices /\ a.modem = k.modem /\ a.lcp = k.lcp /\ a.timer_on = k.timer_on
      /\ a.proto = k.proto /\ a.offers = k.offers
  BY <1>1 DEF PppDevices, AuthStates
<1>3. \/ Ppp!AuthRac(k) = k
      \/ k.auth # "INITIAL" /\ (Ppp!AuthRac(k) = a \/ Ppp!AuthRac(k) = Ppp!StartTimer(a, "AUTH"))
  BY DEF Ppp!AuthRac
<1> HIDE DEF a
<1>4. k.auth # "INITIAL" => LinkAbove(a, k.lcp)
  BY <1>1, <1>2 DEF LinkAbove
<1> QED
  BY <1>2, <1>3, <1>4, UpperStep, UpperTimer DEF a

LEMMA AuthRaaStep ==
  ASSUME NEW k, LinkInv(k)
  PROVE  LinkInv(Ppp!AuthRaa(k))
<1>1. k \in PppDevices /\ LinkAbove(k, k.lcp)
  BY DEF LinkInv
<1>2. CASE k.auth = "STARTING"
  BY <1>1, <1>2, UpperTimer DEF Ppp!AuthRaa
<1>3. CASE k.auth \in {"RSP_SENT", "REQ_SENT"}
  <2> DEFINE a == [k EXCEPT !.auth = "AUTHENTICATED"]
             b == [a EXCEPT !.ipcp = "REQ_SENT"]
  <2>1. /\ a \in PppDevices /\ a.modem = k.modem /\ a.lcp = k.lcp /\ a.timer_on = k.timer_on
        /\ b \in PppDevices /\ b.modem = k.modem /\ b.lcp = k.lcp /\ b.timer_on = k.timer_on
    BY <1>1 DEF PppDevices, AuthStates, IpcpStates
  <2>2. LinkAbove(a, k.lcp) /\ LinkAbove(b, k.lcp)
    BY <1>1, <1>3 DEF PppDevices, LinkAbove
  <2>3. Ppp!AuthRaa(k) = IF a.ipcp = "INITIAL" THEN Ppp!StartTimer(b, "IPCP") ELSE a
    BY <1>3 DEF Ppp!AuthRaa, Ppp!Auth, Ppp!IpcpReq
  <2> HIDE DEF a, b
  <2> QED
    BY <2>1, <2>2, <2>3, UpperStep, UpperTimer
<1>4. CASE k.auth \notin {"STARTING", "RSP_SENT", "REQ_SENT"}
  BY <1>4 DEF Ppp!AuthRaa
<1> QED
  BY <1>2, <1>3, <1>4

LEMMA AuthRanStep ==
  ASSUME Counts, NEW k, LinkInv(k)
  PROVE  LinkInv(Ppp!AuthRan(k))
<1>1. k \in PppDevices /\ LinkAbove(k, k.lcp)
  BY DEF LinkInv
<1>2. ASSUME NEW a, LinkInv(a) PROVE LinkInv(Ppp!AuthAbort(a))
  <2> DEFINE b == [a EXCEPT !.timer_on = @ \ {"AUTH"}]
  <2>1. /\ b \in PppDevices /\ b.modem = a.modem /\ b.lcp = a.lcp
        /\ b.timer_on = a.timer_on \ {"AUTH"}
        /\ b.proto = a.proto /\ b.offers = a.offers /\ b.auth = a.auth /\ b.ipcp = a.ipcp
    BY <1>2 DEF LinkInv, PppDevices
  <2> HIDE DEF b
  <2>2. LinkAbove(b, a.lcp)
    BY <1>2, <2>1 DEF LinkInv, LinkAbove
  <2>3. LinkInv(b)
    BY <1>2, <2>1, <2>2, UpperStep
  <2> QED
    BY <2>1, <2>3, LcpCloseStep DEF Ppp!AuthAbort, b
<1>3. CASE k.auth = "RSP_SENT"
  <2> DEFINE a == [k EXCEPT !.auth = "STARTING"]
  <2>1. /\ a \in PppDevices /\ a.modem = k.modem /\ a.lcp = k.lcp /\ a.timer_on = k.timer_on
    BY <1>1 DEF PppDevices, AuthStates
  <2>2. LinkAbove(a, k.lcp)
    BY <1>1, <1>3 DEF PppDevices, LinkAbove
  <2>3. Ppp!AuthRan(k) = Ppp!AuthAbort(a)
    BY <1>3 DEF Ppp!AuthRan
  <2> HIDE DEF a
  <2> QED
    BY <1>2, <2>1, <2>2, <2>3, UpperStep
<1>4. CASE k.auth # "RSP_SENT"
  BY <1>2, <1>4 DEF Ppp!AuthRan
<1> QED
  BY <1>3, <1>4

LEMMA AuthTimeoutStep ==
  ASSUME NEW k, LinkInv(k)
  PROVE  LinkInv(Ppp!AuthTimeout(k))
<1>1. k \in PppDevices /\ LinkAbove(k, k.lcp)
  BY DEF LinkInv
<1>2. CASE k.auth \in {"STARTING", "RSP_SENT"}
  <2>1. PICK s \in {"INITIAL", "STARTING"} :
          Ppp!AuthTimeout(k) = Ppp!StartTimer([k EXCEPT !.auth = s], "AUTH")
    BY <1>2 DEF Ppp!AuthTimeout
  <2> DEFINE a == [k EXCEPT !.auth = s]
  <2>2. /\ a \in PppDevices /\ a.modem = k.modem /\ a.lcp = k.lcp /\ a.timer_on = k.timer_on
    BY <1>1 DEF PppDevices, AuthStates
  <2>3. LinkAbove(a, k.lcp)
    BY <1>1, <1>2 DEF PppDevices, LinkAbove
  <2> HIDE DEF a
  <2> QED
    BY <2>1, <2>2, <2>3, UpperTimer DEF a
<1>3. CASE k.auth = "REQ_SENT"
  BY <1>1, <1>3, UpperTimer DEF Ppp!AuthTimeout
<1>4. CASE k.auth \notin {"STARTING", "RSP_SENT", "REQ_SENT"}
  BY <1>4 DEF Ppp!AuthTimeout
<1> QED
  BY <1>2, <1>3, <1>4

\* What no machine looks at may change.
LEMMA LinkFields ==
  ASSUME NEW k, LinkInv(k)
  PROVE  /\ \A b \in BOOLEAN : /\ LinkInv([k EXCEPT !.due = b])
                               /\ LinkInv([k EXCEPT !.autoreconnect = b])
                               /\ LinkInv([k EXCEPT !.hungup = b])
         /\ \A c \in 0..MostCount : LinkInv([k EXCEPT !.timer_count = c])
         /\ \A t \in {"MODEM", "AUTH", "IPCP"} : LinkInv([k EXCEPT !.timer_on = @ \ {t}])
         /\ \A p \in (k.offers \cup {k.proto}) : LinkInv([k EXCEPT !.proto = p])
<1>1. k \in PppDevices /\ LinkAbove(k, k.lcp)
  BY DEF LinkInv
<1>2. ASSUME NEW b \in BOOLEAN
      PROVE  /\ LinkInv([k EXCEPT !.due = b])
             /\ LinkInv([k EXCEPT !.autoreconnect = b])
             /\ LinkInv([k EXCEPT !.hungup = b])
  BY <1>1 DEF LinkInv, PppDevices, Follows, TimedWell, LinkAbove
<1>3. ASSUME NEW c \in 0..MostCount PROVE LinkInv([k EXCEPT !.timer_count = c])
  BY <1>1 DEF LinkInv, PppDevices, Follows, TimedWell, LinkAbove
<1>4. ASSUME NEW t \in {"MODEM", "AUTH", "IPCP"} PROVE LinkInv([k EXCEPT !.timer_on = @ \ {t}])
  BY <1>1 DEF LinkInv, PppDevices, Follows, TimedWell, LinkAbove
<1>5. ASSUME NEW p \in (k.offers \cup {k.proto}) PROVE LinkInv([k EXCEPT !.proto = p])
  BY <1>1 DEF LinkInv, PppDevices, Follows, TimedWell, LinkAbove
<1> QED
  BY <1>2, <1>3, <1>4, <1>5

LEMMA ModemTimer ==
  ASSUME NEW k, LinkInv(k), NEW s \in Modems \ {"CONNECTED", "INITIAL"},
         k.modem \notin {"CONNECTED", "INITIAL"} \/ k.modem = s
  PROVE  LinkInv(Ppp!StartTimer([k EXCEPT !.modem = s], "MODEM"))
<1> DEFINE a == [k EXCEPT !.modem = s]
           b == Ppp!StartTimer(a, "MODEM")
<1>1. /\ a \in PppDevices /\ a.modem = s /\ a.lcp = k.lcp /\ a.timer_on = k.timer_on
      /\ a.proto = k.proto /\ a.offers = k.offers /\ a.auth = k.auth /\ a.ipcp = k.ipcp
  BY DEF LinkInv, PppDevices
<1> HIDE DEF a
<1>2. b \in PppDevices /\ b.modem = s /\ b.lcp = a.lcp /\ a.timer_on \subseteq b.timer_on
      /\ b.proto = a.proto /\ b.offers = a.offers /\ b.auth = a.auth /\ b.ipcp = a.ipcp
  BY <1>1, StartTimerStep DEF LinkTimers
<1> HIDE DEF b
<1>3. LinkInv(b)
  BY <1>1, <1>2 DEF LinkInv, Follows, TimedWell, LinkAbove
<1> QED
  BY <1>3 DEF a, b

LEMMA CheckModemStep ==
  ASSUME NEW k, LinkInv(k)
  PROVE  LinkInv(Ppp!CheckModem(k))
<1> DEFINE off == [k EXCEPT !.timer_on = @ \ {"MODEM"}]
<1>1. LinkInv(off) /\ off.modem = k.modem
  BY LinkFields DEF LinkInv, PppDevices
<1>2. off \in PppDevices
  BY <1>1 DEF LinkInv
<1>3. \/ Ppp!CheckModem(k) = k
      \/ Ppp!CheckModem(k) = off
      \/ k.modem = "INITIAL" /\ Ppp!CheckModem(k) = Ppp!StartTimer(off, "MODEM")
      \/ k.modem \notin {"INITIAL", "CONNECTED"}
         /\ Ppp!CheckModem(k) = Ppp!StartTimer([off EXCEPT !.modem = "RESET"], "MODEM")
  BY DEF Ppp!CheckModem
<1> HIDE DEF off
<1>4. LinkInv(Ppp!StartTimer(off, "MODEM"))
  <2> DEFINE b == Ppp!StartTimer(off, "MODEM")
  <2>1. b \in PppDevices /\ b.modem = off.modem /\ b.lcp = off.lcp /\ off.timer_on \subseteq b.timer_on
        /\ b.proto = off.proto /\ b.offers = off.offers /\ b.auth = off.auth /\ b.ipcp = off.ipcp
    BY <1>2, StartTimerStep DEF LinkTimers
  <2> HIDE DEF b
  <2>2. LinkAbove(b, off.lcp)
    BY <1>1, <2>1 DEF LinkInv, LinkAbove
  <2>3. LinkInv(b)
    BY <1>1, <2>1, <2>2, UpperStep
  <2> QED
    BY <2>3 DEF b
<1>5. k.modem \notin {"INITIAL", "CONNECTED"} => LinkInv(Ppp!StartTimer([off EXCEPT !.modem = "RESET"], "MODEM"))
  BY <1>1, ModemTimer DEF Modems
<1> QED
  BY <1>1, <1>3, <1>4, <1>5

LEMMA CheckLcpStep ==
  ASSUME Counts, NEW k, LinkInv(k)
  PROVE  LinkInv(Ppp!CheckLcp(k))
<1>1. k \in PppDevices /\ k.timer_count \in 0..MostCount /\ MostCount \in Nat
  BY DEF LinkInv, PppDevices, Counts, MostCount
<1>2. LinkInv(Ppp!LcpTimeout(k)) /\ (k.timer_count # 0 => Ppp!LcpTimeout(k).timer_count = k.timer_count)
  BY <1>1, LcpTimeoutStep
<1>3. k.timer_count # 0 => LinkInv([Ppp!LcpTimeout(k) EXCEPT !.timer_count = @ - 1])
  <2> SUFFICES ASSUME k.timer_count # 0 PROVE LinkInv([Ppp!LcpTimeout(k) EXCEPT !.timer_count = @ - 1])
    OBVIOUS
  <2> DEFINE a == Ppp!LcpTimeout(k)
  <2>1. a.timer_count - 1 \in 0..MostCount /\ LinkInv(a)
    BY <1>1, <1>2
  <2> HIDE DEF a
  <2>2. LinkInv([a EXCEPT !.timer_count = a.timer_count - 1])
    BY <2>1, LinkFields
  <2>3. [a EXCEPT !.timer_count = @ - 1] = [a EXCEPT !.timer_count = a.timer_count - 1]
    BY <2>1 DEF LinkInv, PppDevices
  <2>4. LinkInv([a EXCEPT !.timer_count = @ - 1])
    BY <2>2, <2>3
  <2> QED
    BY <2>4 DEF a
<1> QED
  BY <1>2, <1>3 DEF Ppp!CheckLcp

LEMMA LinkTickStep ==
  ASSUME Counts, NEW k, LinkInv(k)
  PROVE  /\ LinkInv(Ppp!CheckIpcp(Ppp!CheckAuth(Ppp!CheckLcp(Ppp!CheckModem(k)))))
<1>1. LinkInv(Ppp!CheckLcp(Ppp!CheckModem(k)))
  BY CheckModemStep, CheckLcpStep
<1>2. ASSUME NEW a, LinkInv(a) PROVE LinkInv(Ppp!CheckAuth(a)) /\ LinkInv(Ppp!CheckIpcp(a))
  <2>1. LinkInv([a EXCEPT !.timer_on = @ \ {"AUTH"}]) /\ LinkInv([a EXCEPT !.timer_on = @ \ {"IPCP"}])
    BY <1>2, LinkFields
  <2> QED
    BY <1>2, <2>1, AuthTimeoutStep, IpcpStep DEF Ppp!CheckAuth, Ppp!CheckIpcp
<1> QED
  BY <1>1, <1>2

LEMMA LinkStep ==
  ASSUME Counts, LinkInv(ppp), Ppp!Next \/ UNCHANGED ppp
  PROVE  LinkInv(ppp)'
<1> SUFFICES LinkInv(ppp')
  BY DEF LinkInv, Follows, TimedWell, LinkAbove, PppDevices
<1>1. ppp \in PppDevices /\ LinkAbove(ppp, ppp.lcp)
  BY DEF LinkInv
<1>2. CASE Ppp!ModemOk
  <2>1. PICK i \in 1..6 : /\ ppp.modem = Ppp!Dialing[i]
                          /\ ppp' = Ppp!StartTimer([ppp EXCEPT !.modem = Ppp!Dialing[i + 1]], "MODEM")
    BY <1>2 DEF Ppp!ModemOk
  <2>2. /\ Ppp!Dialing[i] \in Modems \ {"CONNECTED", "INITIAL"}
        /\ Ppp!Dialing[i + 1] \in Modems \ {"CONNECTED", "INITIAL"}
    BY DEF Ppp!Dialing, Modems
  <2> QED
    BY <2>1, <2>2, ModemTimer
<1>3. CASE Ppp!ModemConnect
  <2> DEFINE a == [ppp EXCEPT !.modem = "CONNECTED", !.hungup = FALSE]
  <2>1. /\ a \in PppDevices /\ a.modem = "CONNECTED" /\ a.lcp = ppp.lcp
        /\ a.proto = ppp.proto /\ a.offers = ppp.offers /\ a.auth = ppp.auth /\ a.ipcp = ppp.ipcp
    BY <1>1 DEF PppDevices, Modems
  <2>2. ppp' = Ppp!LcpUp(a) /\ ppp.modem = "DIAL"
    BY <1>3 DEF Ppp!ModemConnect
  <2> HIDE DEF a
  <2>3. a.lcp = "STARTING" /\ LinkAbove(a, "STARTING")
    BY <1>1, <2>1, <2>2 DEF LinkInv, Follows, PppDevices, LcpStates, Ppp!Timed, LinkAbove
  <2> QED
    BY <2>1, <2>2, <2>3, LcpUpStep
<1>4. CASE Ppp!ModemError
  <2>1. ppp.modem # "CONNECTED"
    BY <1>4 DEF Ppp!ModemError
  <2>2. ppp.lcp \in {"INITIAL", "STARTING"}
    BY <1>1, <2>1 DEF LinkInv, Follows, PppDevices, LcpStates, Ppp!Timed
  <2>3. LinkInv(Ppp!ModemStop(ppp))
    BY <1>1, <2>2, ModemStopStep
  <2> QED
    BY <1>4, <2>3 DEF Ppp!ModemError
<1>5. CASE Ppp!LcpIn
  <2>1. ppp.modem = "CONNECTED"
    BY <1>5 DEF Ppp!LcpIn, Ppp!Online
  <2>2. CASE ppp' = Ppp!LcpRca(ppp)
    BY <1>1, <2>1, <2>2, LcpRcaStep
  <2>3. CASE ppp' # Ppp!LcpRca(ppp)
    <3>1. PICK p \in ppp.offers \cup {ppp.proto} :
            LET k == [ppp EXCEPT !.proto = p]
            IN ppp' = Ppp!LcpRcrPos(k) \/ ppp' = Ppp!LcpRcrNeg(k) \/ ppp' = Ppp!LcpRcn(k)
      BY <1>5, <2>3 DEF Ppp!LcpIn
    <3> DEFINE k == [ppp EXCEPT !.proto = p]
    <3>2. k.modem = "CONNECTED"
      BY <1>1, <2>1 DEF PppDevices
    <3>3. LinkInv(k)
      BY LinkFields
    <3>4. ppp' = Ppp!LcpRcrPos(k) \/ ppp' = Ppp!LcpRcrNeg(k) \/ ppp' = Ppp!LcpRcn(k)
      BY <3>1
    <3> HIDE DEF k
    <3>5. k \in PppDevices
      BY <3>3 DEF LinkInv
    <3> QED
      BY <3>2, <3>3, <3>4, <3>5, LcpRcrPosStep, LcpRcrNegStep, LcpRcnStep
  <2> QED
    BY <2>2, <2>3
<1>6. CASE Ppp!PapIn
  BY <1>6, AuthRaaStep, AuthRanStep DEF Ppp!PapIn
<1>7. CASE Ppp!ChapIn
  BY <1>7, AuthRacStep, AuthRaaStep, AuthRanStep DEF Ppp!ChapIn
<1>8. CASE Ppp!IpcpIn
  BY <1>8, IpcpStep DEF Ppp!IpcpIn
<1>9. CASE Ppp!HangUp
  BY <1>9, LinkFields DEF Ppp!HangUp
<1>10. CASE Ppp!Tick
  <2>1. PICK zero \in BOOLEAN :
          LET k == Ppp!CheckIpcp(Ppp!CheckAuth(Ppp!CheckLcp(Ppp!CheckModem([ppp EXCEPT !.due = zero]))))
          IN ppp' = [IF k.autoreconnect THEN Ppp!LcpOpen(k) ELSE k EXCEPT !.due = FALSE]
    BY <1>10 DEF Ppp!Tick
  <2> DEFINE z == [ppp EXCEPT !.due = zero]
             k == Ppp!CheckIpcp(Ppp!CheckAuth(Ppp!CheckLcp(Ppp!CheckModem(z))))
             l == IF k.autoreconnect THEN Ppp!LcpOpen(k) ELSE k
  <2>2. ppp' = [l EXCEPT !.due = FALSE]
    BY <2>1
  <2>3. LinkInv(z)
    BY LinkFields
  <2> HIDE DEF z
  <2>4. LinkInv(k)
    BY <2>3, LinkTickStep
  <2> HIDE DEF k
  <2>5. LinkInv(l)
    BY <2>4, LcpOpenStep DEF LinkInv
  <2> HIDE DEF l
  <2> QED
    BY <2>2, <2>5, LinkFields
<1>11. CASE Ppp!Connect
  BY <1>11, LinkFields DEF Ppp!Connect
<1>12. CASE Ppp!Disconnect
  <2> DEFINE k == Ppp!LcpClose(ppp)
  <2>1. LinkInv(k)
    BY <1>1, LcpCloseStep
  <2>2. ppp' = [k EXCEPT !.autoreconnect = FALSE, !.due = FALSE]
    BY <1>12 DEF Ppp!Disconnect
  <2> HIDE DEF k
  <2>3. ppp' = [[k EXCEPT !.autoreconnect = FALSE] EXCEPT !.due = FALSE]
    BY <2>1, <2>2 DEF LinkInv, PppDevices
  <2>4. LinkInv([k EXCEPT !.autoreconnect = FALSE])
    BY <2>1, LinkFields
  <2> QED
    BY <2>3, <2>4, LinkFields
<1>13. CASE UNCHANGED ppp
  BY <1>13
<1> QED
  BY <1>2, <1>3, <1>4, <1>5, <1>6, <1>7, <1>8, <1>9, <1>10, <1>11, <1>12, <1>13 DEF Ppp!Next

LEMMA LinkInitially ==
  ASSUME Counts, Ppp!Init
  PROVE  LinkInv(ppp)
<1>1. PICK p \in PppPeers : ppp =
              [modem |-> "INITIAL", lcp |-> "INITIAL", auth |-> "INITIAL",
               ipcp |-> "INITIAL", proto |-> "none", timer_on |-> {},
               timer_count |-> 0, due |-> FALSE, autoreconnect |-> FALSE,
               hungup |-> FALSE, offers |-> p]
  BY DEF Ppp!Init
<1> QED
  BY <1>1 DEF Counts, LinkInv, PppDevices, Follows, TimedWell, LinkAbove, Ppp!Timed, MostCount,
     Modems, LcpStates, AuthStates, IpcpStates, LinkTimers, AuthProtocols

LEMMA LinkMeans ==
  ASSUME LinkInv(ppp)
  PROVE  Ppp!LinkIsAuthenticated /\ Ppp!ModemFollowsLcp /\ Ppp!NegotiationIsTimed
BY DEF LinkInv, Follows, TimedWell, LinkAbove, Ppp!LinkIsAuthenticated, Ppp!ModemFollowsLcp, Ppp!NegotiationIsTimed

\* No handler leaves a timer that is due: timer_val is set again, or not looked at.
Rested(k) == "due" \in DOMAIN k /\ k.due = FALSE /\ k.proto \in AuthProtocols

LEMMA TimersRest ==
  ASSUME NEW k, Rested(k), NEW t
  PROVE  Rested(Ppp!StartTimer(k, t)) /\ Rested(Ppp!LcpTimerStart(k, t))
<1>1. Rested(Ppp!StartTimer(k, t))
  BY DEF Rested, Ppp!StartTimer
<1> QED
  BY <1>1 DEF Rested, Ppp!LcpTimerStart

LEMMA AuthRests ==
  ASSUME NEW k, Rested(k)
  PROVE  Rested(Ppp!Auth(k)) /\ Rested(Ppp!AuthDown(k)) /\ Rested(Ppp!AuthUp(k))
<1>1. /\ Rested([k EXCEPT !.ipcp = "REQ_SENT"]) /\ Rested([k EXCEPT !.ipcp = "INITIAL"])
      /\ Rested([k EXCEPT !.auth = "INITIAL"])
      /\ Rested([[k EXCEPT !.auth = "INITIAL"] EXCEPT !.ipcp = "INITIAL"])
  BY DEF Rested
<1>2. ASSUME NEW h, Rested(h)
      PROVE  Rested(Ppp!Auth(h))
  <2>1. Rested([h EXCEPT !.ipcp = "REQ_SENT"])
    BY <1>2 DEF Rested
  <2> QED
    BY <1>2, <2>1, TimersRest DEF Ppp!Auth, Ppp!IpcpReq
<1>3. Rested(Ppp!AuthDown(k))
  BY <1>1 DEF Ppp!AuthDown, Ppp!Deauth
<1>4. Rested(Ppp!AuthUp(k))
  <2> DEFINE a == [k EXCEPT !.auth = "AUTHENTICATED"]
             b == [k EXCEPT !.auth = "REQ_SENT"]
             c == [k EXCEPT !.auth = "STARTING"]
  <2>1. Rested(a) /\ Rested(b) /\ Rested(c)
    BY DEF Rested
  <2>2. \/ Ppp!AuthUp(k) = k
        \/ Ppp!AuthUp(k) = Ppp!Auth(a)
        \/ Ppp!AuthUp(k) = Ppp!StartTimer(b, "AUTH")
        \/ Ppp!AuthUp(k) = c
    BY DEF Ppp!AuthUp, Rested, AuthProtocols
  <2> QED
    BY <1>2, <2>1, <2>2, TimersRest
<1> QED
  BY <1>2, <1>3, <1>4

LEMMA ModemRests ==
  ASSUME NEW k, Rested(k), NEW s
  PROVE  /\ Rested(Ppp!LcpGoes(k, s)) /\ Rested(Ppp!ModemStart(k))
         /\ Rested(Ppp!LcpDown(k)) /\ Rested(Ppp!ModemStop(k))
<1>1. ASSUME NEW h, Rested(h), NEW x
      PROVE  Rested(Ppp!LcpGoes(h, x)) /\ Rested([h EXCEPT !.modem = x])
  BY <1>1 DEF Rested, Ppp!LcpGoes
<1>2. ASSUME NEW h, Rested(h)
      PROVE  Rested(Ppp!ModemStart(h))
  BY <1>1, <1>2, TimersRest DEF Ppp!ModemStart
<1>3. ASSUME NEW h, Rested(h)
      PROVE  Rested(Ppp!LcpDown(h))
  BY <1>1, <1>2, <1>3, AuthRests DEF Ppp!LcpDown
<1>4. Rested(Ppp!ModemStop(k))
  BY <1>1, <1>3 DEF Ppp!ModemStop
<1> QED
  BY <1>1, <1>2, <1>3, <1>4

LEMMA LcpRests ==
  ASSUME NEW k, Rested(k)
  PROVE  /\ Rested(Ppp!LcpUp(k)) /\ Rested(Ppp!LcpClose(k)) /\ Rested(Ppp!LcpRcrPos(k))
         /\ Rested(Ppp!LcpRcrNeg(k)) /\ Rested(Ppp!LcpRca(k)) /\ Rested(Ppp!LcpRcn(k))
<1>1. ASSUME NEW s
      PROVE  LET g == Ppp!LcpGoes(k, s)
             IN /\ Rested(g) /\ Rested(Ppp!ConfReq(g)) /\ Rested(Ppp!TermReq(g))
                /\ Rested(Ppp!TermReq(Ppp!AuthDown(g))) /\ Rested(Ppp!ConfReq(Ppp!AuthDown(g)))
                /\ Rested(Ppp!AuthUp(g)) /\ Rested(Ppp!LcpFinished(g))
                /\ Rested(Ppp!LcpTimerStart(g, "LCPREQ"))
  BY ModemRests, AuthRests, TimersRest
  DEF Ppp!ConfReq, Ppp!TermReq, Ppp!LcpFinished
<1>2. Rested(Ppp!ConfReq(k))
  BY TimersRest DEF Ppp!ConfReq
<1>3. Rested(Ppp!LcpUp(k)) /\ Rested(Ppp!LcpClose(k))
  BY <1>1 DEF Ppp!LcpUp, Ppp!LcpClose
<1>4. Rested(Ppp!LcpRcrPos(k)) /\ Rested(Ppp!LcpRcrNeg(k))
  BY <1>1 DEF Ppp!LcpRcrPos, Ppp!LcpRcrNeg
<1>5. Rested(Ppp!LcpRca(k)) /\ Rested(Ppp!LcpRcn(k))
  BY <1>1, <1>2 DEF Ppp!LcpRca, Ppp!LcpRcn
<1> QED
  BY <1>3, <1>4, <1>5

LEMMA PeerRests ==
  ASSUME NEW k, Rested(k)
  PROVE  /\ Rested(Ppp!AuthRac(k)) /\ Rested(Ppp!AuthRaa(k)) /\ Rested(Ppp!AuthRan(k))
         /\ \A event \in {"RCR", "RCA", "RCN"} : Rested(Ppp!Ipcp(k, event))
<1>1. ASSUME NEW h, Rested(h), NEW x
      PROVE  /\ Rested([h EXCEPT !.auth = x]) /\ Rested([h EXCEPT !.ipcp = x])
             /\ Rested([h EXCEPT !.timer_on = x])
  BY <1>1 DEF Rested
<1>2. ASSUME NEW h, Rested(h)
      PROVE  Rested(Ppp!AuthAbort(h))
  BY <1>1, <1>2, LcpRests DEF Ppp!AuthAbort
<1>3. Rested(Ppp!AuthRac(k))
  BY <1>1, TimersRest DEF Ppp!AuthRac
<1>4. Rested(Ppp!AuthRaa(k))
  BY <1>1, TimersRest, AuthRests DEF Ppp!AuthRaa
<1>5. Rested(Ppp!AuthRan(k))
  BY <1>1, <1>2 DEF Ppp!AuthRan
<1>6. ASSUME NEW event \in {"RCR", "RCA", "RCN"}
      PROVE  Rested(Ppp!Ipcp(k, event))
  <2>1. ASSUME NEW h, Rested(h) PROVE Rested(Ppp!IpcpReq(h))
    BY <2>1, TimersRest DEF Ppp!IpcpReq
  <2>2. \/ Ppp!Ipcp(k, event) \in {k, Ppp!IpcpReq(k), Ppp!IpcpReq([k EXCEPT !.ipcp = "REQ_SENT"])}
        \/ \E x : Ppp!Ipcp(k, event) = [k EXCEPT !.ipcp = x]
    BY DEF Ppp!Ipcp
  <2> QED
    BY <1>1, <2>1, <2>2
<1> QED
  BY <1>3, <1>4, <1>5, <1>6

\* A tick looks at timer_val, every other step rests.
LEMMA RestStep ==
  ASSUME Rested(ppp), "due" \in DOMAIN ppp', ppp'.proto \in AuthProtocols,
         ppp.offers \subseteq AuthProtocols, Ppp!Next
  PROVE  Rested(ppp)'
<1>1. ASSUME NEW k, ppp' = [k EXCEPT !.due = FALSE]
      PROVE  Rested(ppp)'
  BY <1>1 DEF Rested
<1>2. ASSUME NEW x
      PROVE  /\ Rested([ppp EXCEPT !.modem = x]) /\ Rested([ppp EXCEPT !.hungup = x])
             /\ Rested([ppp EXCEPT !.autoreconnect = x])
             /\ Rested([[ppp EXCEPT !.modem = x] EXCEPT !.hungup = FALSE])
  BY DEF Rested
<1>3. CASE Ppp!ModemOk \/ Ppp!ModemConnect \/ Ppp!ModemError
  <2>1. \E k : Rested(k) /\ (\/ ppp' = Ppp!StartTimer(k, "MODEM")
                             \/ ppp' = Ppp!LcpUp(k) \/ ppp' = Ppp!ModemStop(k))
    BY <1>2, <1>3 DEF Ppp!ModemOk, Ppp!ModemConnect, Ppp!ModemError
  <2> QED
    BY <2>1, TimersRest, LcpRests, ModemRests
<1>4. CASE Ppp!LcpIn
  <2>1. \A p \in ppp.offers \cup {ppp.proto} : Rested([ppp EXCEPT !.proto = p])
    BY DEF Rested
  <2>2. \E k : Rested(k) /\ (\/ ppp' = Ppp!LcpRcrPos(k) \/ ppp' = Ppp!LcpRcrNeg(k)
                             \/ ppp' = Ppp!LcpRcn(k) \/ ppp' = Ppp!LcpRca(k))
    BY <1>4, <2>1 DEF Ppp!LcpIn
  <2> QED
    BY <2>2, LcpRests
<1>5. CASE Ppp!PapIn \/ Ppp!ChapIn \/ Ppp!IpcpIn
  BY <1>5, PeerRests DEF Ppp!PapIn, Ppp!ChapIn, Ppp!IpcpIn
<1>6. CASE Ppp!HangUp \/ Ppp!Connect
  BY <1>2, <1>6 DEF Ppp!HangUp, Ppp!Connect
<1>7. CASE Ppp!Tick
  BY <1>1, <1>7 DEF Ppp!Tick
<1>8. CASE Ppp!Disconnect
  BY <1>1, <1>8 DEF Ppp!Disconnect
<1> QED
  BY <1>3, <1>4, <1>5, <1>6, <1>7, <1>8 DEF Ppp!Next

PppInv == LinkInv(ppp) /\ Rested(ppp)

LEMMA PppInitially ==
  ASSUME Counts, Ppp!Init
  PROVE  PppInv
<1>1. LinkInv(ppp)
  BY LinkInitially
<1>2. Rested(ppp)
  BY DEF Ppp!Init, Rested, AuthProtocols
<1> QED
  BY <1>1, <1>2 DEF PppInv

LEMMA PppStep ==
  ASSUME Counts, PppInv, Ppp!Next \/ UNCHANGED ppp
  PROVE  PppInv'
<1>1. LinkInv(ppp) /\ Rested(ppp)
  BY DEF PppInv
<1>2. LinkInv(ppp)'
  BY <1>1, LinkStep
<1>3. "due" \in DOMAIN ppp' /\ ppp'.proto \in AuthProtocols /\ ppp.offers \subseteq AuthProtocols
  BY <1>1, <1>2 DEF LinkInv, PppDevices
<1>4. CASE UNCHANGED ppp
  BY <1>1, <1>2, <1>4 DEF PppInv, Rested
<1>5. CASE Ppp!Next
  <2>1. Rested(ppp)'
    BY <1>1, <1>3, <1>5, RestStep
  <2> QED
    BY <1>2, <2>1 DEF PppInv
<1> QED
  BY <1>4, <1>5

LEMMA PppMeans ==
  ASSUME PppInv
  PROVE  /\ Ppp!LinkIsAuthenticated /\ Ppp!ModemFollowsLcp /\ Ppp!NegotiationIsTimed
         /\ Ppp!TypeOK
<1>1. LinkInv(ppp) /\ Rested(ppp)
  BY DEF PppInv
<1>2. Ppp!TypeOK
  BY <1>1 DEF Ppp!TypeOK, Rested, LinkInv, PppDevices, LinkTimers, MostCount
<1> QED
  BY <1>1, <1>2, LinkMeans

-----------------------------------------------------------------------------
(* Multicast: the filter of a link                                         *)

LEMMA LeastOf ==
  ASSUME NEW S \in SUBSET Nat, S # {}
  PROVE  \E n \in S : \A m \in S : ~(m < n)
<1>1. IsWellFoundedOn(OpToRel(<, Nat), Nat)
  BY NatLessThanWellFounded
<1>2. PICK n \in S : \A m \in S : ~(<<m, n>> \in OpToRel(<, Nat))
  BY <1>1, WFMin
<1> QED
  BY <1>2 DEF OpToRel

Filters == [mode : {"INCLUDE", "EXCLUDE"}, sources : SUBSET Sources]
\* A filter lets through only what one of the first n sockets listens to.
SoundFilter(f, ls, n) == /\ f \in Filters
                         /\ \A source \in Sources :
                              Groups4!Accepts(f, source) => \E s \in 1..n : Groups4!Accepts(ls[s], source)
SocketFilters == [1..Listeners -> Filters \cup {Groups4!NoListen}]

LEMMA CombineSound ==
  ASSUME NEW ls \in SocketFilters, NEW n \in 1..Listeners, Listeners \in Nat,
         NEW f, SoundFilter(f, ls, n - 1)
  PROVE  SoundFilter(Groups4!Combine(f, ls[n]), ls, n)
<1>1. ls[n] \in Filters \cup {Groups4!NoListen} /\ 1..(n - 1) \subseteq 1..n /\ n \in 1..n
  BY DEF SocketFilters
<1> DEFINE l == ls[n]
           c == Groups4!Combine(f, l)
<1>2. CASE l.mode = "none"
  BY <1>1, <1>2 DEF Groups4!Combine, SoundFilter
<1>3. CASE l \in Filters
  <2>1. c \in Filters
    BY <1>3 DEF Groups4!Combine, SoundFilter, Filters, Groups4!ExclExcl, Groups4!ExclIncl, Groups4!InclExcl, Groups4!InclIncl, Groups4!Filter
  <2>2. \A source \in Sources : Groups4!Accepts(c, source) => Groups4!Accepts(f, source) \/ Groups4!Accepts(l, source)
    BY <1>3 DEF Groups4!Combine, SoundFilter, Filters, Groups4!ExclExcl, Groups4!ExclIncl, Groups4!InclExcl, Groups4!InclIncl, Groups4!Filter, Groups4!Accepts
  <2> HIDE DEF c
  <2>3. SoundFilter(c, ls, n)
    BY <1>1, <2>1, <2>2 DEF SoundFilter
  <2> QED
    BY <2>3 DEF c
<1> QED
  BY <1>1, <1>2, <1>3 DEF Groups4!NoListen, Groups4!Filter

IsFold(a, ls, n) == a = [s \in 0..n |-> IF s = 0 THEN Groups4!Filter("INCLUDE", {})
                                        ELSE Groups4!Combine(a[s - 1], ls[s])]

LEMMA FoldExists ==
  ASSUME NEW ls, NEW n \in Nat
  PROVE  \E a : IsFold(a, ls, n)
<1> SUFFICES ASSUME ~\E a : IsFold(a, ls, n) PROVE FALSE
  OBVIOUS
<1> DEFINE S == {m \in Nat : ~\E a : IsFold(a, ls, m)}
<1>1. PICK m \in S : \A k \in S : ~(k < m)
  <2>1. S \in SUBSET Nat /\ S # {}
    OBVIOUS
  <2> HIDE DEF S
  <2> QED
    BY <2>1, LeastOf
<1>2. CASE m = 0
  <2> DEFINE a == [s \in 0..0 |-> Groups4!Filter("INCLUDE", {})]
  <2>1. a = [s \in 0..0 |-> IF s = 0 THEN Groups4!Filter("INCLUDE", {}) ELSE Groups4!Combine(a[s - 1], ls[s])]
    OBVIOUS
  <2>2. IsFold(a, ls, 0)
    BY <2>1 DEF IsFold
  <2> QED
    BY <1>1, <1>2, <2>2
<1>3. CASE m # 0
  <2>1. PICK b : IsFold(b, ls, m - 1)
    BY <1>1, <1>3
  <2> DEFINE a == [s \in 0..m |-> IF s = m THEN Groups4!Combine(b[m - 1], ls[m]) ELSE b[s]]
  <2>2. \A s \in 0..m : a[s] = IF s = 0 THEN Groups4!Filter("INCLUDE", {}) ELSE Groups4!Combine(a[s - 1], ls[s])
    BY <1>1, <1>3, <2>1 DEF IsFold
  <2>3. IsFold(a, ls, m)
    BY <2>2 DEF IsFold
  <2> QED
    BY <1>1, <2>3
<1> QED
  BY <1>2, <1>3

LEMMA AggregateSound ==
  ASSUME NEW ls \in SocketFilters, Listeners \in Nat
  PROVE  SoundFilter(Groups4!Aggregate(ls), ls, Listeners)
<1> DEFINE a == CHOOSE a : IsFold(a, ls, Listeners)
<1>1. Groups4!Aggregate(ls) = a[Listeners]
  BY DEF Groups4!Aggregate, IsFold
<1>2. IsFold(a, ls, Listeners)
  BY FoldExists
<1> HIDE DEF a
<1> DEFINE S == {n \in 0..Listeners : ~SoundFilter(a[n], ls, n)}
<1>3. S = {}
  <2> SUFFICES ASSUME S # {} PROVE FALSE
    OBVIOUS
  <2>1. PICK n \in S : \A m \in S : ~(m < n)
    <3>1. S \in SUBSET Nat /\ S # {}
      OBVIOUS
    <3> HIDE DEF S
    <3> QED
      BY <3>1, LeastOf
  <2>2. CASE n = 0
    <3>1. a[0] = Groups4!Filter("INCLUDE", {})
      BY <1>2 DEF IsFold
    <3> QED
      BY <2>1, <2>2, <3>1 DEF SoundFilter, Groups4!Filter, Filters, Groups4!Accepts
  <2>3. CASE n # 0
    <3>1. n \in 1..Listeners /\ n - 1 \in 0..Listeners /\ n - 1 \notin S
      BY <2>1, <2>3
    <3>2. SoundFilter(a[n - 1], ls, n - 1)
      BY <3>1
    <3>3. a[n] = Groups4!Combine(a[n - 1], ls[n])
      BY <1>2, <3>1 DEF IsFold
    <3> QED
      BY <2>1, <3>1, <3>2, <3>3, CombineSound
  <2> QED
    BY <2>2, <2>3
<1> QED
  BY <1>1, <1>3

Listening == {s \in 1..Listeners : listen[s].mode # "none"}
GroupInv == /\ listen \in SocketFilters
            /\ mgroup.ref = Cardinality(Listening)
            /\ \/ mgroup = Groups4!NoGroup
               \/ /\ mgroup.ref > 0
                  /\ mgroup = [ref |-> mgroup.ref, mode |-> Groups4!Aggregate(listen).mode,
                               sources |-> Groups4!Aggregate(listen).sources]

LEMMA ListeningCounts ==
  ASSUME Listeners \in Nat
  PROVE  /\ IsFiniteSet(Listening) /\ Cardinality(Listening) \in Nat
         /\ Cardinality(Listening) = 0 <=> Listening = {}
<1>1. IsFiniteSet(1..Listeners)
  BY FS_Interval
<1>2. IsFiniteSet(Listening)
  BY <1>1, FS_Subset DEF Listening
<1> QED
  BY <1>2, FS_CardinalityType, FS_EmptySet

LEMMA NewGroup ==
  ASSUME NEW r, NEW m1, NEW s1, NEW ls
  PROVE  Groups4!SetFilter([ref |-> r, mode |-> m1, sources |-> s1], ls)
           = [ref |-> r, mode |-> Groups4!Aggregate(ls).mode, sources |-> Groups4!Aggregate(ls).sources]
<1> DEFINE m == Groups4!Aggregate(ls).mode
           n == Groups4!Aggregate(ls).sources
           g == [ref |-> r, mode |-> m1, sources |-> s1]
<1>1. Groups4!SetFilter(g, ls) = [g EXCEPT !.mode = m, !.sources = n]
  BY DEF Groups4!SetFilter
<1> HIDE DEF m, n
<1>2. [g EXCEPT !.mode = m] = [ref |-> r, mode |-> m, sources |-> s1]
  OBVIOUS
<1>3. [[g EXCEPT !.mode = m] EXCEPT !.sources = n] = [ref |-> r, mode |-> m, sources |-> n]
  <2>1. [[ref |-> r, mode |-> m, sources |-> s1] EXCEPT !.sources = n]
           = [ref |-> r, mode |-> m, sources |-> n]
    OBVIOUS
  <2> QED
    BY <1>2, <2>1
<1>4. [g EXCEPT !.mode = m, !.sources = n] = [[g EXCEPT !.mode = m] EXCEPT !.sources = n]
  BY <1>2
<1> QED
  BY <1>1, <1>3, <1>4 DEF m, n

LEMMA JoinKeeps ==
  ASSUME Listeners \in Nat, GroupInv, NEW s \in 1..Listeners, NEW l \in Filters,
         Groups4!Join([listen EXCEPT ![s] = l], IF listen[s].mode = "none" THEN 1 ELSE 0)
  PROVE  GroupInv'
<1> DEFINE c == IF listen[s].mode = "none" THEN 1 ELSE 0
           ls == [listen EXCEPT ![s] = l]
           old == IF mgroup.ref = 0 THEN [Groups4!NoGroup EXCEPT !.mode = "INCLUDE"] ELSE mgroup
           r == IF mgroup.ref = 0 THEN 1 ELSE mgroup.ref + c
<1>1. listen' = ls /\ ls \in SocketFilters
  BY DEF Groups4!Join, GroupInv, SocketFilters
<1>2. Listening' = Listening \cup {s}
  BY <1>1 DEF Listening, GroupInv, SocketFilters, Filters
<1>3. Cardinality(Listening') = IF s \in Listening THEN Cardinality(Listening)
                                ELSE Cardinality(Listening) + 1
  BY <1>2, ListeningCounts, FS_AddElement
<1>4. s \in Listening <=> c = 0
  BY DEF Listening
<1>5. Cardinality(Listening') = r /\ r \in Nat /\ r > 0
  BY <1>3, <1>4, ListeningCounts DEF GroupInv
<1>6. mgroup' = Groups4!SetFilter([old EXCEPT !.ref = r], ls)
  BY DEF Groups4!Join, GroupInv, Groups4!NoGroup
<1>7. old = [ref |-> old.ref, mode |-> old.mode, sources |-> old.sources]
  BY DEF GroupInv, Groups4!NoGroup
<1> HIDE DEF old, r, ls
<1>8. [old EXCEPT !.ref = r] = [ref |-> r, mode |-> old.mode, sources |-> old.sources]
  BY <1>7
<1>9. mgroup' = [ref |-> r, mode |-> Groups4!Aggregate(ls).mode, sources |-> Groups4!Aggregate(ls).sources]
  BY <1>6, <1>8, NewGroup
<1>10. mgroup'.ref = r
  BY <1>9
<1> QED
  BY <1>1, <1>5, <1>9, <1>10 DEF GroupInv

LEMMA LeaveKeeps ==
  ASSUME Listeners \in Nat, GroupInv, NEW s \in 1..Listeners, NEW l \in Filters \cup {Groups4!NoListen},
         listen[s].mode # "none",
         Groups4!Leave([listen EXCEPT ![s] = l], IF l.mode = "none" THEN 1 ELSE 0)
  PROVE  GroupInv'
<1> DEFINE c == IF l.mode = "none" THEN 1 ELSE 0
           ls == [listen EXCEPT ![s] = l]
           r == mgroup.ref - c
<1>1. listen' = ls /\ ls \in SocketFilters
  BY DEF Groups4!Leave, GroupInv, SocketFilters
<1>2. Listening' = IF l.mode = "none" THEN Listening \ {s} ELSE Listening
  BY <1>1 DEF Listening, GroupInv, SocketFilters
<1>3. s \in Listening
  BY DEF Listening
<1>4. mgroup.ref \in Nat /\ mgroup.ref > 0 /\ mgroup.ref = Cardinality(Listening)
  BY <1>3, ListeningCounts DEF GroupInv
<1>5. Cardinality(Listening') = r
  <2>1. Cardinality(Listening \ {s}) = Cardinality(Listening) - 1
    BY <1>3, ListeningCounts, FS_RemoveElement
  <2>2. CASE l.mode = "none"
    BY <1>2, <1>4, <2>1, <2>2
  <2>3. CASE l.mode # "none"
    BY <1>2, <1>4, <2>3
  <2> QED
    BY <2>2, <2>3
<1>6. r \in Nat /\ (r > 0 \/ (c = 1 /\ r < 1))
  BY <1>4
<1>7. mgroup' = IF c = 1 /\ Groups4!SetFilter([mgroup EXCEPT !.ref = r], ls).ref < 1 THEN Groups4!NoGroup
                ELSE Groups4!SetFilter([mgroup EXCEPT !.ref = r], ls)
  BY DEF Groups4!Leave
<1>8. mgroup = [ref |-> mgroup.ref, mode |-> mgroup.mode, sources |-> mgroup.sources]
  BY DEF GroupInv, Groups4!NoGroup
<1> HIDE DEF r, ls
<1>9. [mgroup EXCEPT !.ref = r] = [ref |-> r, mode |-> mgroup.mode, sources |-> mgroup.sources]
  BY <1>8
<1>10. Groups4!SetFilter([mgroup EXCEPT !.ref = r], ls)
        = [ref |-> r, mode |-> Groups4!Aggregate(ls).mode, sources |-> Groups4!Aggregate(ls).sources]
  BY <1>9, NewGroup
<1>11. CASE c = 1 /\ r < 1
  <2>1. mgroup' = Groups4!NoGroup /\ r = 0
    BY <1>7, <1>10, <1>11, <1>6
  <2> QED
    BY <1>1, <1>5, <2>1 DEF GroupInv, Groups4!NoGroup
<1>12. CASE ~(c = 1 /\ r < 1)
  <2>1. mgroup' = [ref |-> r, mode |-> Groups4!Aggregate(ls).mode, sources |-> Groups4!Aggregate(ls).sources]
    BY <1>7, <1>10, <1>12
  <2>2. r > 0
    BY <1>12, <1>6
  <2> QED
    BY <1>1, <1>5, <2>1, <2>2 DEF GroupInv
<1> QED
  BY <1>11, <1>12

LEMMA GroupStep ==
  ASSUME Listeners \in Nat, GroupInv, Groups4!Next \/ UNCHANGED Groups4!vars
  PROVE  GroupInv'
<1>1. \A s \in 1..Listeners : listen[s] \in Filters \cup {Groups4!NoListen}
  BY DEF GroupInv, SocketFilters
<1>2. CASE UNCHANGED <<listen, mgroup>>
  BY <1>2 DEF GroupInv, Listening
<1>3. ASSUME NEW s \in 1..Listeners, Groups4!AddMembership(s) PROVE GroupInv'
  <2>1. Groups4!Filter("EXCLUDE", {}) \in Filters
    BY DEF Groups4!Filter, Filters
  <2> QED
    BY <1>3, <2>1, JoinKeeps DEF Groups4!AddMembership
<1>4. ASSUME NEW s \in 1..Listeners, Groups4!DropMembership(s) \/ Groups4!Close(s) PROVE GroupInv'
  <2>1. Groups4!NoListen.mode = "none"
    BY DEF Groups4!NoListen, Groups4!Filter
  <2> QED
    BY <1>4, <2>1, LeaveKeeps DEF Groups4!DropMembership, Groups4!Close
<1>5. ASSUME NEW s \in 1..Listeners, NEW source \in Sources, Groups4!UnblockSource(s, source)
      PROVE  GroupInv'
  <2> DEFINE l == [listen[s] EXCEPT !.sources = @ \ {source}]
  <2>1. listen[s] \in Filters
    BY <1>1, <1>5 DEF Groups4!UnblockSource, Groups4!NoListen, Groups4!Filter
  <2>2. l \in Filters /\ l.mode # "none"
    BY <2>1 DEF Filters
  <2>3. listen[s].mode # "none" /\ Groups4!Leave([listen EXCEPT ![s] = l], 0)
    BY <1>5 DEF Groups4!UnblockSource
  <2> HIDE DEF l
  <2> QED
    BY <2>2, <2>3, LeaveKeeps
<1>6. ASSUME NEW s \in 1..Listeners, NEW source \in Sources, Groups4!BlockSource(s, source)
      PROVE  GroupInv'
  <2> DEFINE l == [listen[s] EXCEPT !.sources = @ \cup {source}]
  <2>1. listen[s] \in Filters
    BY <1>1, <1>6 DEF Groups4!BlockSource, Groups4!NoListen, Groups4!Filter
  <2>2. l \in Filters
    BY <2>1 DEF Filters
  <2>3. listen[s].mode # "none" /\ Groups4!Join([listen EXCEPT ![s] = l], 0)
    BY <1>6 DEF Groups4!BlockSource
  <2> HIDE DEF l
  <2> QED
    BY <2>2, <2>3, JoinKeeps
<1>7. ASSUME NEW s \in 1..Listeners, NEW source \in Sources, Groups4!AddSource(s, source)
      PROVE  GroupInv'
  <2> DEFINE l == Groups4!Filter("INCLUDE", listen[s].sources \cup {source})
  <2>1. l \in Filters
    BY <1>1 DEF Filters, Groups4!NoListen, Groups4!Filter
  <2>2. Groups4!Join([listen EXCEPT ![s] = l], IF listen[s].mode = "none" THEN 1 ELSE 0)
    BY <1>7 DEF Groups4!AddSource, Groups4!SourceCount
  <2> HIDE DEF l
  <2> QED
    BY <2>1, <2>2, JoinKeeps
<1>8. ASSUME NEW s \in 1..Listeners, NEW source \in Sources, Groups4!DropSource(s, source)
      PROVE  GroupInv'
  <2> DEFINE l == [listen[s] EXCEPT !.sources = @ \ {source}]
  <2>1. listen[s] \in Filters /\ listen[s].mode # "none"
    BY <1>1, <1>8 DEF Groups4!DropSource, Groups4!NoListen, Groups4!Filter
  <2>2. l \in Filters /\ l.mode # "none"
    BY <2>1 DEF Filters
  <2>3. Groups4!NoListen.mode = "none"
    BY DEF Groups4!NoListen, Groups4!Filter
  <2>4. \/ Groups4!Leave([listen EXCEPT ![s] = Groups4!NoListen], 1)
        \/ Groups4!Leave([listen EXCEPT ![s] = l], 0)
    BY <1>8 DEF Groups4!DropSource
  <2> HIDE DEF l
  <2> QED
    BY <2>1, <2>2, <2>3, <2>4, LeaveKeeps
<1> QED
  BY <1>2, <1>3, <1>4, <1>5, <1>6, <1>7, <1>8
  DEF Groups4!Next, Groups4!vars, Groups4!Query, Groups4!ReportRecv, Groups4!ReportExpired, Groups4!V2QuerierExpired

LEMMA GroupInitially ==
  ASSUME Listeners \in Nat, Groups4!Init
  PROVE  GroupInv
<1>1. listen \in SocketFilters /\ Listening = {}
  BY DEF Groups4!Init, SocketFilters, Listening, Groups4!NoListen, Groups4!Filter
<1> QED
  BY <1>1, FS_EmptySet DEF Groups4!Init, GroupInv, Groups4!NoGroup

LEMMA GroupMeans ==
  ASSUME Listeners \in Nat, GroupInv
  PROVE  Groups4!ReferencesAreListeners /\ Groups4!NoUnwantedSource
<1>1. Groups4!ReferencesAreListeners
  BY SameCardinality DEF Groups4!ReferencesAreListeners, GroupInv, Listening
<1>2. CASE mgroup = Groups4!NoGroup
  BY <1>1, <1>2 DEF Groups4!NoUnwantedSource, Groups4!Accepts, Groups4!NoGroup
<1>3. CASE mgroup # Groups4!NoGroup
  <2> DEFINE a == Groups4!Aggregate(listen)
  <2>1. SoundFilter(a, listen, Listeners) /\ mgroup.mode = a.mode /\ mgroup.sources = a.sources
    BY <1>3, AggregateSound DEF GroupInv
  <2> HIDE DEF a
  <2> QED
    BY <1>1, <2>1 DEF Groups4!NoUnwantedSource, SoundFilter, Groups4!Accepts
<1> QED
  BY <1>1, <1>2, <1>3

\* The host of IGMP: a timer that runs belongs to a pending report.
IsHost(k) == k = [state |-> k.state, f |-> k.f, timer |-> k.timer, compat |-> k.compat,
                  v2 |-> k.v2]
Host(k) == /\ IsHost(k) /\ k.compat \in {2, 3}
           /\ k.timer = "running" => k.state = "DELAYING"
IgmpInv == GroupInv /\ Host(igmp)

\* The host h is k but for the fields that are given.
Becomes(h, s, f, t, c) == /\ IsHost(h) /\ h.state = s /\ h.f = f /\ h.timer = t
                          /\ h.compat = c
SetState(k, x) == [k EXCEPT !.state = x]
SetFrame(k, x) == [k EXCEPT !.f = x]
SetTimer(k, x) == [k EXCEPT !.timer = x]
SetCompat(k, x) == [k EXCEPT !.compat = x]
SetV2(k, x) == [k EXCEPT !.v2 = x]

LEMMA HostFields ==
  ASSUME NEW k, IsHost(k), NEW x
  PROVE  /\ Becomes(SetState(k, x), x, k.f, k.timer, k.compat)
         /\ Becomes(SetFrame(k, x), k.state, x, k.timer, k.compat)
         /\ Becomes(SetTimer(k, x), k.state, k.f, x, k.compat)
         /\ Becomes(SetCompat(k, x), k.state, k.f, k.timer, x)
<1> DEFINE a == k.state
           b == k.f
           c == k.timer
           d == k.compat
           e == k.v2
<1>1. k = [state |-> a, f |-> b, timer |-> c, compat |-> d, v2 |-> e]
  BY DEF IsHost
<1> HIDE DEF a, b, c, d, e
<1>2. [k EXCEPT !.state = x] = [state |-> x, f |-> b, timer |-> c, compat |-> d, v2 |-> e]
  BY <1>1
<1>3. [k EXCEPT !.f = x] = [state |-> a, f |-> x, timer |-> c, compat |-> d, v2 |-> e]
  BY <1>1
<1>4. [k EXCEPT !.timer = x] = [state |-> a, f |-> b, timer |-> x, compat |-> d, v2 |-> e]
  BY <1>1
<1>5. [k EXCEPT !.compat = x] = [state |-> a, f |-> b, timer |-> c, compat |-> x, v2 |-> e]
  BY <1>1
<1> QED
  BY <1>2, <1>3, <1>4, <1>5 DEF a, b, c, d, e, Becomes, IsHost,
     SetState, SetFrame, SetTimer, SetCompat

LEMMA HostFlag ==
  ASSUME NEW k, IsHost(k), NEW x \in BOOLEAN
  PROVE  Becomes(SetV2(k, x), k.state, k.f, k.timer, k.compat)
<1>1. [k EXCEPT !.v2 = x] = [state |-> k.state, f |-> k.f, timer |-> k.timer,
                             compat |-> k.compat, v2 |-> x]
  BY DEF IsHost
<1> QED
  BY <1>1 DEF Becomes, IsHost, SetV2

LEMMA HostFrame ==
  ASSUME NEW k, Host(k), NEW f
  PROVE  LET h == SetFrame(k, f)
         IN /\ Host(h) /\ h.f = f
            /\ h.state = k.state /\ h.timer = k.timer /\ h.compat = k.compat
BY HostFields DEF Host, Becomes

LEMMA HostTimer ==
  ASSUME NEW k, Host(k), NEW t, t # "running"
  PROVE  LET h == SetTimer(k, t)
         IN Host(h) /\ h.f = k.f /\ h.state = k.state /\ h.timer = t
BY HostFields DEF Host, Becomes

LEMMA HostState ==
  ASSUME NEW k, Host(k), NEW s, k.timer # "running"
  PROVE  LET h == SetState(k, s)
         IN Host(h) /\ h.f = k.f /\ h.state = s /\ h.timer = k.timer
BY HostFields DEF Host, Becomes

LEMMA HostHandlers ==
  ASSUME NEW k, Host(k)
  PROVE  /\ Host(Groups4!Running(k)) /\ Groups4!Running(k).f = k.f
         /\ Becomes(Groups4!Deleted(k), "none", Groups4!NoFrame, k.timer, k.compat)
         /\ k.timer # "running" => Host(Groups4!Deleted(k))
         /\ Host(Groups4!Sent(k)) /\ Groups4!Sent(k).timer = k.timer
         /\ Host(Groups4!Stslifs(k)) /\ Groups4!Stslifs(k).f \in {k.f, Groups4!NoFrame}
         /\ Host(Groups4!Stcl(k))
         /\ k.timer # "running" => Host(Groups4!Srsf(k))
         /\ k.state = "DELAYING" => Host(Groups4!Mrsrrt(k)) /\ Groups4!Mrsrrt(k).f = k.f
<1>0. IsHost(k)
  BY DEF Host
<1>1. Becomes(Groups4!Running(k), "DELAYING", k.f, "running", k.compat)
  <2> DEFINE h == SetTimer(k, "running")
  <2>1. Becomes(h, k.state, k.f, "running", k.compat)
    BY <1>0, HostFields
  <2>2. Groups4!Running(k) = SetState(h, "DELAYING")
    BY DEF Groups4!Running, SetState, SetTimer
  <2> HIDE DEF h
  <2> QED
    BY <2>1, <2>2, HostFields DEF Becomes
<1>2. Becomes(Groups4!Deleted(k), "none", Groups4!NoFrame, k.timer, k.compat)
  <2> DEFINE h == SetState(k, "none")
  <2>1. Becomes(h, "none", k.f, k.timer, k.compat)
    BY <1>0, HostFields
  <2>2. Groups4!Deleted(k) = SetFrame(h, Groups4!NoFrame)
    BY DEF Groups4!Deleted, SetState, SetFrame
  <2> HIDE DEF h
  <2> QED
    BY <2>1, <2>2, HostFields DEF Becomes
<1>3. Host(Groups4!Running(k)) /\ Groups4!Running(k).f = k.f
  BY <1>1 DEF Host, Becomes
<1>4. k.timer # "running" => Host(Groups4!Deleted(k))
  BY <1>2 DEF Host, Becomes
<1>5. Host(Groups4!Sent(k)) /\ Groups4!Sent(k).timer = k.timer
  BY HostFrame DEF Groups4!Sent, SetFrame
<1>6. Host(Groups4!Stslifs(k)) /\ Groups4!Stslifs(k).f \in {k.f, Groups4!NoFrame}
  <2> DEFINE h == Groups4!Deleted(k)
             g == SetTimer(h, "stopped")
  <2>1. Groups4!Stslifs(k) = IF k.timer = "none" THEN k ELSE g
    BY DEF Groups4!Stslifs, SetTimer
  <2>2. Becomes(h, "none", Groups4!NoFrame, k.timer, k.compat)
    BY <1>2
  <2> HIDE DEF h
  <2>3. Becomes(g, "none", Groups4!NoFrame, "stopped", k.compat)
    BY <2>2, HostFields DEF Becomes
  <2> HIDE DEF g
  <2> QED
    BY <2>1, <2>3 DEF Host, Becomes
<1>7. Host(Groups4!Stcl(k))
  <2> DEFINE h == SetTimer(k, "stopped")
             g == SetState(h, "IDLE")
  <2>1. Groups4!Stcl(k) = IF k.timer = "none" THEN k ELSE g
    BY DEF Groups4!Stcl, SetState, SetTimer
  <2>2. Becomes(h, k.state, k.f, "stopped", k.compat)
    BY <1>0, HostFields
  <2> HIDE DEF h
  <2>3. Becomes(g, "IDLE", k.f, "stopped", k.compat)
    BY <2>2, HostFields DEF Becomes
  <2> HIDE DEF g
  <2> QED
    BY <2>1, <2>3 DEF Host, Becomes
<1>8. k.timer # "running" => Host(Groups4!Srsf(k))
  BY <1>5, HostState DEF Groups4!Srsf, SetState
<1>9. k.state = "DELAYING" => Host(Groups4!Mrsrrt(k)) /\ Groups4!Mrsrrt(k).f = k.f
  BY <1>0, HostFields DEF Host, Becomes, Groups4!Mrsrrt, SetTimer
<1> QED
  BY <1>2, <1>3, <1>4, <1>5, <1>6, <1>7, <1>8, <1>9

\* What a change of the filter makes of the parameter: nothing, or a report of it.
LEMMA StateChanges ==
  ASSUME NEW k, Host(k), NEW event, NEW old, NEW new
  PROVE  LET c == Groups4!StateChange(k, event, old, new)
             q == IF k.state = "none" THEN [k EXCEPT !.state = "NON_MEMBER", !.f = Groups4!NoFrame]
                  ELSE k
         IN /\ Host(c) /\ q.compat = k.compat
            /\ c.f \in {k.f, Groups4!NoFrame, Groups4!GenerateReport(q, event, old, new)}
<1> DEFINE p == IF k.state = "none" THEN [k EXCEPT !.state = "NON_MEMBER", !.f = Groups4!NoFrame]
                ELSE k
           r == Groups4!GenerateReport(p, event, old, new)
           c == Groups4!StateChange(k, event, old, new)
<1>1. /\ Host(p) /\ p.f \in {k.f, Groups4!NoFrame}
      /\ p.compat = k.compat
  <2> DEFINE h == SetState(k, "NON_MEMBER")
             g == SetFrame(h, Groups4!NoFrame)
  <2>1. p = IF k.state = "none" THEN g ELSE k
    BY DEF SetState, SetFrame
  <2>2. Becomes(h, "NON_MEMBER", k.f, k.timer, k.compat)
    BY HostFields DEF Host
  <2> HIDE DEF h, p
  <2>3. Becomes(g, "NON_MEMBER", Groups4!NoFrame, k.timer, k.compat)
    BY <2>2, HostFields DEF Becomes
  <2> HIDE DEF g
  <2> QED
    BY <2>1, <2>3 DEF Host, Becomes
<1>2. \/ c = k \/ c = p \/ c = Groups4!Srsfst(p, event, old, new)
      \/ c = Groups4!Stslifs(p)
      \/ p.state = "DELAYING" /\ c = Groups4!Mrsrrt(p)
      \/ p.state = "IDLE" /\ c = Groups4!Deleted(p)
      \/ c = Groups4!Srst(p, event, old, new)
  BY DEF Groups4!StateChange
<1> HIDE DEF p, c
<1>3. LET d == Groups4!Srsfst(p, event, old, new) IN Host(d) /\ d.f = r
  <2> HIDE DEF r
  <2>1. Host(SetFrame(p, r)) /\ SetFrame(p, r).f = r
    BY <1>1, HostFrame
  <2>2. Groups4!Srsfst(p, event, old, new) = IF r = Groups4!NoFrame THEN SetFrame(p, r)
                                             ELSE Groups4!Running(SetFrame(p, r))
    BY DEF Groups4!Srsfst, r, SetFrame
  <2> QED
    BY <2>1, <2>2, HostHandlers
<1>4. LET d == Groups4!Srst(p, event, old, new) IN Host(d) /\ d.f \in {p.f, r}
  BY <1>1, <1>3 DEF Groups4!Srst
<1>5. p.state = "IDLE" => p.timer # "running"
  BY <1>1 DEF Host
<1> HIDE DEF r
<1>6. Host(c) /\ c.f \in {k.f, Groups4!NoFrame, r}
  BY <1>1, <1>2, <1>3, <1>4, <1>5, HostHandlers DEF Becomes
<1> QED
  BY <1>1, <1>6 DEF c, r, p

\* The record of a change that one record can carry, at a router that knew the
\* filter before: it lets through what passes the filter after it.
LEMMA ReportCarries ==
  ASSUME NEW k, k.compat \in {2, 3}, NEW event, NEW old, NEW new,
         old.mode \in {"INCLUDE", "EXCLUDE"}, new.mode \in {"INCLUDE", "EXCLUDE"},
         \/ new.mode # old.mode
         \/ new.sources \subseteq old.sources \/ old.sources \subseteq new.sources,
         Groups4!GenerateReport(k, event, old, new).kind = "report",
         NEW source, Groups4!Accepts(new, source)
  PROVE  Groups4!Accepts(Groups4!Apply(old, Groups4!GenerateReport(k, event, old, new)),
                         source)
<1> DEFINE f == Groups4!GenerateReport(k, event, old, new)
<1>0. /\ f.kind = "report"
      /\ \/ f = Groups4!Change(old, new) /\ old.mode = new.mode
         \/ f = Groups4!Record(IF new.mode = "INCLUDE" THEN "TO_INCLUDE" ELSE "TO_EXCLUDE",
                               new.sources)
         \/ f \in {Groups4!Record("V2", {}), Groups4!Record("none", {})}
  BY DEF Groups4!GenerateReport
<1> SUFFICES Groups4!Accepts(Groups4!Apply(old, f), source)
  OBVIOUS
<1> HIDE DEF f
<1> USE DEF Groups4!Filter, Groups4!Accepts
<1>1. CASE f.type \notin {"TO_INCLUDE", "TO_EXCLUDE", "ALLOW", "BLOCK"}
  <2>1. Groups4!Apply(old, f) = Groups4!Filter("EXCLUDE", {})
    BY <1>1 DEF Groups4!Apply
  <2> QED
    BY <2>1
<1>2. CASE f.type \in {"TO_INCLUDE", "TO_EXCLUDE", "ALLOW", "BLOCK"}
  <2>1. CASE f = Groups4!Change(old, new) /\ old.mode = new.mode
    <3>1. f # Groups4!NoFrame
      BY <1>2 DEF Groups4!NoFrame
    <3>2. old.mode = new.mode
      BY <2>1
    <3> QED
      BY <2>1, <3>1, <3>2 DEF Groups4!Change, Groups4!Record, Groups4!NoFrame, Groups4!Apply
  <2>2. CASE f = Groups4!Record(IF new.mode = "INCLUDE" THEN "TO_INCLUDE" ELSE "TO_EXCLUDE",
                                new.sources)
    BY <2>2 DEF Groups4!Record, Groups4!Apply
  <2>3. CASE f \in {Groups4!Record("V2", {}), Groups4!Record("none", {})}
    BY <2>3, <1>2 DEF Groups4!Record
  <2> QED
    BY <1>0, <2>1, <2>2, <2>3
<1> QED
  BY <1>1, <1>2

LEMMA HostInitially ==
  ASSUME Listeners \in Nat, Groups4!Init
  PROVE  IgmpInv
BY GroupInitially DEF IgmpInv, Host, IsHost, Groups4!Init

LEMMA HostListens ==
  ASSUME NEW k, Host(k)
  PROVE  /\ Host(Groups4!Version2(k)) /\ Groups4!Version2(k).state = k.state
         /\ Groups4!Version2(k).timer = "none"
         /\ Host(SetCompat(k, 3))
         /\ Host([k EXCEPT !.v2 = FALSE, !.compat = 3, !.timer = "none"])
         /\ Host(Groups4!QueryRecv(k))
<1> DEFINE g == SetCompat(k, 2)
           h == SetV2(g, TRUE)
           l == SetV2(k, FALSE)
           m == SetCompat(l, 3)
<1>1. Groups4!Version2(k) = SetTimer(h, "none")
  BY DEF Groups4!Version2, SetCompat, SetV2, SetTimer
<1>2. [k EXCEPT !.v2 = FALSE, !.compat = 3, !.timer = "none"] = SetTimer(m, "none")
  BY DEF SetTimer, SetCompat, SetV2
<1>3. /\ Becomes(g, k.state, k.f, k.timer, 2) /\ Becomes(l, k.state, k.f, k.timer, k.compat)
      /\ Becomes(SetCompat(k, 3), k.state, k.f, k.timer, 3)
  BY HostFields, HostFlag DEF Host
<1> HIDE DEF g, l
<1>4. Becomes(h, k.state, k.f, k.timer, 2) /\ Becomes(m, k.state, k.f, k.timer, 3)
  <2>1. Becomes(m, k.state, k.f, k.timer, 3)
    BY <1>3, HostFields DEF Becomes
  <2>2. /\ IsHost(g) /\ g.state = k.state /\ g.f = k.f /\ g.timer = k.timer
        /\ g.compat = 2
    BY <1>3 DEF Becomes
  <2>3. Becomes(SetV2(g, TRUE), g.state, g.f, g.timer, g.compat)
    BY <2>2, HostFlag, Zenon
  <2>4. Becomes(h, k.state, k.f, k.timer, 2)
    BY <2>2, <2>3, Zenon
  <2> QED
    BY <2>1, <2>4
<1> HIDE DEF h, m
<1>5. /\ Becomes(SetTimer(h, "none"), k.state, k.f, "none", 2)
      /\ Becomes(SetTimer(m, "none"), k.state, k.f, "none", 3)
  BY <1>4, HostFields DEF Becomes
<1>6. /\ Host(Groups4!Version2(k)) /\ Groups4!Version2(k).state = k.state
      /\ Groups4!Version2(k).timer = "none"
  BY <1>1, <1>5 DEF Becomes, Host
<1>7. Host(SetTimer(m, "none"))
  BY <1>5 DEF Becomes, Host
<1>8. Host(SetCompat(k, 3))
  BY <1>3 DEF Becomes, Host
<1>9. Host(Groups4!QueryRecv(k))
  BY HostFrame, HostHandlers DEF Groups4!QueryRecv, Groups4!St, SetFrame
<1> QED
  BY <1>2, <1>6, <1>7, <1>8, <1>9

LEMMA HostStep ==
  ASSUME Listeners \in Nat, IgmpInv, Groups4!Next \/ UNCHANGED Groups4!vars
  PROVE  IgmpInv'
<1>1. GroupInv'
  BY GroupStep DEF IgmpInv
<1>2. ASSUME NEW event, NEW old, NEW new, igmp' = Groups4!StateChange(igmp, event, old, new)
      PROVE  Host(igmp')
  BY <1>2, StateChanges DEF IgmpInv
<1>3. ASSUME NEW ls, NEW c, Groups4!Join(ls, c) \/ Groups4!Leave(ls, c)
      PROVE  Host(igmp')
  BY <1>2, <1>3 DEF Groups4!Join, Groups4!Leave
<1>4. ASSUME NEW s \in 1 .. Listeners,
             \/ Groups4!AddMembership(s) \/ Groups4!DropMembership(s) \/ Groups4!Close(s)
             \/ \E source \in Sources :
                  \/ Groups4!UnblockSource(s, source) \/ Groups4!BlockSource(s, source)
                  \/ Groups4!AddSource(s, source) \/ Groups4!DropSource(s, source)
      PROVE  Host(igmp')
  BY <1>3, <1>4
  DEF Groups4!AddMembership, Groups4!DropMembership, Groups4!Close, Groups4!UnblockSource,
      Groups4!BlockSource, Groups4!AddSource, Groups4!DropSource
<1>5. ASSUME NEW general \in BOOLEAN, NEW version \in {2, 3}, Groups4!Query(version, general)
      PROVE  Host(igmp')
  <2> DEFINE k == IF version = 2 THEN Groups4!Version2(igmp) ELSE SetCompat(igmp, 3)
             p == IF general \/ k.state = "none" THEN k
                  ELSE SetFrame(k, Groups4!Frame("query"))
  <2>1. Host(k)
    BY HostListens DEF IgmpInv
  <2>2. igmp' = Groups4!QueryRecv(p)
    BY <1>5 DEF Groups4!Query, SetFrame, SetCompat
  <2> HIDE DEF k
  <2>3. Host(p)
    BY <2>1, HostFrame
  <2> HIDE DEF p
  <2> QED
    BY <2>2, <2>3, HostListens
<1>6. ASSUME Groups4!ReportRecv PROVE Host(igmp')
  <2> DEFINE k == Groups4!Version2(igmp)
  <2>1. Host(k)
    BY HostListens DEF IgmpInv
  <2>2. \/ igmp' = k \/ igmp' = Groups4!Stcl(SetFrame(k, Groups4!Frame("query")))
        \/ igmp' = SetFrame(k, Groups4!Frame("discarded"))
    BY <1>6 DEF Groups4!ReportRecv, SetFrame
  <2> HIDE DEF k
  <2>3. \A f : Host(SetFrame(k, f))
    BY <2>1, HostFrame
  <2>4. Host(Groups4!Stcl(SetFrame(k, Groups4!Frame("query"))))
    BY <2>3, HostHandlers
  <2> QED
    BY <2>1, <2>2, <2>3, <2>4
<1>7. ASSUME Groups4!ReportExpired PROVE Host(igmp')
  <2> DEFINE k == SetTimer(igmp, "none")
  <2>1. Host(k) /\ k.timer = "none"
    BY HostTimer DEF IgmpInv
  <2>2. igmp' \in {k, Groups4!Srsf(k), SetFrame(k, Groups4!Frame("discarded"))}
    BY <1>7 DEF Groups4!ReportExpired, SetTimer, SetFrame
  <2> HIDE DEF k
  <2>3. \A f : Host(SetFrame(k, f))
    BY <2>1, HostFrame
  <2>4. Host(Groups4!Srsf(k))
    BY <2>1, HostHandlers
  <2> QED
    BY <2>1, <2>2, <2>3, <2>4
<1>8. ASSUME Groups4!V2QuerierExpired PROVE Host(igmp')
  BY <1>8, HostListens DEF Groups4!V2QuerierExpired, IgmpInv
<1>9. ASSUME UNCHANGED Groups4!vars PROVE Host(igmp')
  BY <1>9 DEF Groups4!vars, IgmpInv
<1>10. Host(igmp')
  BY <1>4, <1>5, <1>6, <1>7, <1>8, <1>9 DEF Groups4!Next
<1> QED
  BY <1>1, <1>10 DEF IgmpInv

\* A step that changes the filter of the link reports it, if it says anything.
LEMMA ChangesAreReported ==
  ASSUME Listeners \in Nat, IgmpInv, Groups4!Next,
         mgroup' # mgroup, mgroup'.ref > 0, igmp'.f # igmp.f, igmp'.f.kind = "report",
         NEW source \in Sources, Groups4!Accepts(mgroup', source)
  PROVE  LET old == IF mgroup.ref = 0 THEN [Groups4!NoGroup EXCEPT !.mode = "INCLUDE"]
                    ELSE mgroup
         IN \/ mgroup'.mode # old.mode
            \/ mgroup'.sources \subseteq old.sources \/ old.sources \subseteq mgroup'.sources
            => Groups4!Accepts(Groups4!Apply(old, igmp'.f), source)
<1> DEFINE old == IF mgroup.ref = 0 THEN [Groups4!NoGroup EXCEPT !.mode = "INCLUDE"]
                  ELSE mgroup
<1> SUFFICES ASSUME \/ mgroup'.mode # old.mode
                    \/ \/ mgroup'.sources \subseteq old.sources
                       \/ old.sources \subseteq mgroup'.sources
             PROVE  Groups4!Accepts(Groups4!Apply(old, igmp'.f), source)
  OBVIOUS
<1>1. \E event : igmp' = Groups4!StateChange(igmp, event, old, mgroup')
  <2>1. ASSUME NEW ls, NEW c, Groups4!Join(ls, c)
        PROVE  \E event : igmp' = Groups4!StateChange(igmp, event, old, mgroup')
    BY <2>1 DEF Groups4!Join
  <2>2. ASSUME NEW ls, NEW c, Groups4!Leave(ls, c), mgroup.ref # 0
        PROVE  \E event : igmp' = Groups4!StateChange(igmp, event, old, mgroup')
    <3>1. mgroup' # Groups4!NoGroup
      BY DEF Groups4!NoGroup
    <3> QED
      BY <2>2, <3>1 DEF Groups4!Leave
  <2>3. \/ \E s \in 1 .. Listeners :
             \/ \E ls, c : Groups4!Join(ls, c)
             \/ listen[s].mode # "none" /\ \E ls, c : Groups4!Leave(ls, c)
        \/ UNCHANGED mgroup
    BY DEF Groups4!Next, Groups4!AddMembership, Groups4!DropMembership, Groups4!Close,
       Groups4!UnblockSource, Groups4!BlockSource, Groups4!AddSource, Groups4!DropSource,
       Groups4!Query, Groups4!ReportRecv, Groups4!ReportExpired, Groups4!V2QuerierExpired
  <2>4. \A s \in 1 .. Listeners : listen[s].mode # "none" => mgroup.ref # 0
    BY ListeningCounts DEF IgmpInv, GroupInv, Listening
  <2> QED
    BY <2>1, <2>2, <2>3, <2>4
<1>2. old.mode \in {"INCLUDE", "EXCLUDE"} /\ mgroup'.mode \in {"INCLUDE", "EXCLUDE"}
  <2>1. GroupInv'
    BY HostStep DEF IgmpInv
  <2>2. \A ls \in SocketFilters : Groups4!Aggregate(ls).mode \in {"INCLUDE", "EXCLUDE"}
    BY AggregateSound DEF SoundFilter, Filters
  <2>3. mgroup'.mode \in {"INCLUDE", "EXCLUDE"}
    BY <2>1, <2>2 DEF GroupInv, Groups4!NoGroup
  <2>4. mgroup.ref # 0 => mgroup.mode \in {"INCLUDE", "EXCLUDE"}
    BY <2>2 DEF IgmpInv, GroupInv, Groups4!NoGroup
  <2> QED
    BY <2>3, <2>4 DEF Groups4!NoGroup
<1>3. PICK event : igmp' = Groups4!StateChange(igmp, event, old, mgroup')
  BY <1>1
<1> DEFINE q == IF igmp.state = "none"
                THEN [igmp EXCEPT !.state = "NON_MEMBER", !.f = Groups4!NoFrame] ELSE igmp
<1>4. /\ q.compat = igmp.compat
      /\ igmp'.f \in {igmp.f, Groups4!NoFrame, Groups4!GenerateReport(q, event, old, mgroup')}
  BY <1>3, StateChanges DEF IgmpInv
<1>5. igmp'.f = Groups4!GenerateReport(q, event, old, mgroup')
  BY <1>4 DEF Groups4!NoFrame
<1>6. q.compat \in {2, 3}
  <2>1. igmp.compat \in {2, 3}
    BY DEF IgmpInv, Host
  <2> QED
    BY <1>4, <2>1
<1> HIDE DEF q
<1> DEFINE n == mgroup'
<1>7. /\ Groups4!GenerateReport(q, event, old, n).kind = "report"
      /\ Groups4!Accepts(n, source) /\ n.mode \in {"INCLUDE", "EXCLUDE"}
      /\ n.mode # old.mode \/ n.sources \subseteq old.sources \/ old.sources \subseteq n.sources
  BY <1>2, <1>5
<1> HIDE DEF n, old
<1>8. Groups4!Accepts(Groups4!Apply(old, Groups4!GenerateReport(q, event, old, n)), source)
  <2>1. old.mode \in {"INCLUDE", "EXCLUDE"}
    BY <1>2
  <2> QED
    BY <1>6, <1>7, <2>1, ReportCarries
<1> QED
  BY <1>5, <1>8 DEF n

\* What the two lemmas about the host say of the properties of Multicast.
LEMMA HostMeans ==
  ASSUME Listeners \in Nat, IgmpInv
  PROVE  Groups4!TimerMeansPending
BY DEF IgmpInv, Host, Groups4!TimerMeansPending

LEMMA HostReports ==
  ASSUME Listeners \in Nat, IgmpInv, Groups4!Next \/ UNCHANGED Groups4!vars
  PROVE  [Groups4!ChangeIsCarried]_(Groups4!vars)
<1>1. CASE Groups4!Next
  <2>1. Groups4!ChangeIsCarried
    BY <1>1, ChangesAreReported DEF Groups4!ChangeIsCarried
  <2> QED
    BY <2>1
<1> QED
  BY <1>1

-----------------------------------------------------------------------------
(* SocketTable: the sockets and the ports                                  *)

Numbered == 0 \notin Ports /\ Numbers \subseteq Int /\ MaxQueue \in Nat

\* What a socket is made of.
SocketRecords == [proto : {"none", "udp", "tcp"}, life : {"none", "open", "zombie", "gone"},
                  bound : BOOLEAN, conn : BOOLEAN,
                  tcp : {"none", "syn_sent", "syn_recv", "established", "listen", "closing"},
                  la : Addrs \cup {Sockets!Home, "any"}, lp : Ports \cup {0},
                  ra : Remotes \cup {"none"}, rp : Int, parent : Sockets!Socks \cup {0},
                  pend : Int, backlog : Int, queue : 0 .. MaxQueue, gc : 0 .. 1]
TreeType == (0 .. 3) \X (0 .. 3) \X (0 .. 3)
SocketTypes == /\ socks \in [Sockets!Socks -> SocketRecords]
               /\ tables \in [{"udp", "tcp"} -> [Ports -> TreeType]]

\* A tree has a root, larger remote ports to the left of it.
OrderedTree(S, t) == /\ t[2] = 0 => t[1] = 0 /\ t[3] = 0
                     /\ t[1] # 0 => S[t[1]].rp > S[t[2]].rp
                     /\ t[3] # 0 => S[t[2]].rp > S[t[3]].rp
\* Who is in a tree was bound to its port and not deleted since.
Member(S, p, n, s) == S[s].proto = p /\ S[s].lp = n /\ S[s].bound
SortedTables(S, tb) == \A p \in {"udp", "tcp"}, n \in Ports :
                   /\ OrderedTree(S, tb[p][n])
                   /\ \A s \in Sockets!Nodes(tb[p][n]) : Member(S, p, n, s)
\* The life of a socket.
Alive(r) == /\ r.bound => r.life = "open" /\ r.lp # 0
            /\ r.life # "open" => r.tcp = "none"
            /\ r.life # "none" => r.proto # "none"
            /\ r.tcp = "listen" => r.bound /\ r.parent = 0 /\ r.backlog = 2
            /\ r.gc = 1 => r.life = "zombie"
            /\ r.life = "none" => r.parent = 0 /\ r.pend = 0
LivingSockets(S) == \A s \in Sockets!Socks : Alive(S[s]) /\ S[s].parent # s
\* The children of a listener.
Children(S, l) == {c \in Sockets!Socks : S[c].parent = l /\ S[c].life = "open"}
CountedAt(S, l) ==
  /\ S[l].tcp = "listen" => /\ S[l].pend = Cardinality(Children(S, l))
                            /\ S[l].pend <= S[l].backlog
  /\ S[l].tcp # "listen" /\ S[l].life \in {"none", "open"} =>
       S[l].pend = 0 /\ \A c \in Sockets!Socks : S[c].parent # l
Counted(S) == \A l \in Sockets!Socks : CountedAt(S, l)
SocketInv == SocketTypes /\ SortedTables(socks, tables) /\ LivingSockets(socks) /\ Counted(socks)

LEMMA InsertOrdered ==
  ASSUME NEW S, \A x \in Sockets!Socks : S[x].rp \in Int,
         NEW t \in TreeType, OrderedTree(S, t), NEW s \in Sockets!Socks, s \notin Sockets!Nodes(t)
  PROVE  /\ Sockets!Insert(S, t, s) \in TreeType /\ OrderedTree(S, Sockets!Insert(S, t, s))
         /\ Sockets!Nodes(Sockets!Insert(S, t, s)) \subseteq Sockets!Nodes(t) \cup {s}
<1>1. t[1] \in 0 .. 3 /\ t[2] \in 0 .. 3 /\ t[3] \in 0 .. 3 /\ t = <<t[1], t[2], t[3]>>
  BY DEF TreeType
<1>2. s # t[1] /\ s # t[2] /\ s # t[3] /\ s \in 1 .. 3
  BY DEF Sockets!Nodes, Sockets!Socks
<1>3. CASE t[2] = 0
  <2>1. Sockets!Insert(S, t, s) = <<0, s, 0>>
    BY <1>3 DEF Sockets!Insert
  <2> QED
    BY <2>1, <1>2 DEF TreeType, OrderedTree, Sockets!Nodes
<1>4. CASE t[2] # 0 /\ Sockets!Find(S, t, s) # 0
  <2>1. Sockets!Insert(S, t, s) = t
    BY <1>4 DEF Sockets!Insert
  <2> QED
    BY <2>1
<1>5. CASE t[2] # 0 /\ Sockets!Find(S, t, s) = 0
  <2>1. /\ S[t[2]].rp \in Int /\ S[s].rp \in Int
        /\ t[1] # 0 => S[t[1]].rp \in Int
        /\ t[3] # 0 => S[t[3]].rp \in Int
    BY <1>1, <1>2, <1>5 DEF Sockets!Socks
  <2>2. /\ S[t[2]].rp # S[s].rp
        /\ t[1] # 0 /\ S[t[2]].rp < S[s].rp => S[t[1]].rp # S[s].rp
        /\ t[3] # 0 /\ S[t[2]].rp > S[s].rp => S[t[3]].rp # S[s].rp
    BY <1>1, <1>5, <2>1 DEF Sockets!Find, Sockets!Cmp
  <2>3. t[1] = 0 \/ t[3] = 0
    BY <1>1, <1>2, <1>5, <2>1 DEF OrderedTree
  <2>4. CASE Sockets!Cmp(S, s, t[2]) < 0 /\ t[1] = 0
    <3>1. Sockets!Insert(S, t, s) = <<s, t[2], t[3]>>
      BY <1>5, <2>4 DEF Sockets!Insert
    <3>2. S[s].rp > S[t[2]].rp /\ (t[3] # 0 => S[t[2]].rp > S[t[3]].rp)
      BY <1>5, <2>1, <2>2, <2>4 DEF OrderedTree, Sockets!Cmp
    <3>3. <<s, t[2], t[3]>> \in TreeType
      BY <1>1, <1>2 DEF TreeType
    <3>4. Sockets!Nodes(<<s, t[2], t[3]>>) \subseteq Sockets!Nodes(t) \cup {s}
      BY <1>1, <1>2 DEF Sockets!Nodes
    <3>5. OrderedTree(S, <<s, t[2], t[3]>>)
      BY <1>5, <1>2, <3>2 DEF OrderedTree
    <3> QED
      BY <3>1, <3>3, <3>4, <3>5
  <2>5. CASE Sockets!Cmp(S, s, t[2]) < 0 /\ t[1] # 0 /\ Sockets!Cmp(S, s, t[1]) < 0
    <3>1. Sockets!Insert(S, t, s) = <<s, t[1], t[2]>>
      BY <1>5, <2>5 DEF Sockets!Insert
    <3>2. t[3] = 0
      BY <2>3, <2>5
    <3>3. S[s].rp > S[t[1]].rp /\ S[t[1]].rp > S[t[2]].rp
      BY <1>5, <2>1, <2>2, <2>3, <2>5 DEF OrderedTree, Sockets!Cmp
    <3>4. <<s, t[1], t[2]>> \in TreeType
      BY <1>1, <1>2 DEF TreeType
    <3>5. Sockets!Nodes(<<s, t[1], t[2]>>) \subseteq Sockets!Nodes(t) \cup {s}
      BY <1>1, <1>2 DEF Sockets!Nodes
    <3>6. OrderedTree(S, <<s, t[1], t[2]>>)
      BY <1>5, <1>2, <2>5, <3>3 DEF OrderedTree
    <3> QED
      BY <3>1, <3>4, <3>5, <3>6
  <2>6. CASE Sockets!Cmp(S, s, t[2]) < 0 /\ t[1] # 0 /\ ~(Sockets!Cmp(S, s, t[1]) < 0)
    <3>1. Sockets!Insert(S, t, s) = <<t[1], s, t[2]>>
      BY <1>5, <2>6 DEF Sockets!Insert
    <3> QED
      BY <1>1, <1>2, <1>5, <2>1, <2>2, <2>3, <2>6, <3>1 DEF OrderedTree, Sockets!Nodes, TreeType, Sockets!Cmp
  <2>7. CASE ~(Sockets!Cmp(S, s, t[2]) < 0) /\ t[3] = 0
    <3>1. Sockets!Insert(S, t, s) = <<t[1], t[2], s>>
      BY <1>5, <2>7 DEF Sockets!Insert
    <3>2. S[t[2]].rp > S[s].rp /\ (t[1] # 0 => S[t[1]].rp > S[t[2]].rp)
      BY <1>5, <2>1, <2>2, <2>7 DEF OrderedTree, Sockets!Cmp
    <3>3. <<t[1], t[2], s>> \in TreeType
      BY <1>1, <1>2 DEF TreeType
    <3>4. Sockets!Nodes(<<t[1], t[2], s>>) \subseteq Sockets!Nodes(t) \cup {s}
      BY <1>1, <1>2 DEF Sockets!Nodes
    <3>5. OrderedTree(S, <<t[1], t[2], s>>)
      BY <1>5, <1>2, <3>2 DEF OrderedTree
    <3> QED
      BY <3>1, <3>3, <3>4, <3>5
  <2>8. CASE ~(Sockets!Cmp(S, s, t[2]) < 0) /\ t[3] # 0 /\ Sockets!Cmp(S, s, t[3]) < 0
    <3>1. Sockets!Insert(S, t, s) = <<t[2], s, t[3]>>
      BY <1>5, <2>8 DEF Sockets!Insert
    <3>2. t[1] = 0
      BY <2>3, <2>8
    <3>3. S[t[2]].rp > S[s].rp /\ S[s].rp > S[t[3]].rp
      BY <1>5, <2>1, <2>2, <2>3, <2>8 DEF OrderedTree, Sockets!Cmp
    <3>4. <<t[2], s, t[3]>> \in TreeType
      BY <1>1, <1>2 DEF TreeType
    <3>5. Sockets!Nodes(<<t[2], s, t[3]>>) \subseteq Sockets!Nodes(t) \cup {s}
      BY <1>1, <1>2 DEF Sockets!Nodes
    <3>6. OrderedTree(S, <<t[2], s, t[3]>>)
      BY <1>5, <1>2, <2>8, <3>3 DEF OrderedTree
    <3> QED
      BY <3>1, <3>4, <3>5, <3>6
  <2>9. CASE ~(Sockets!Cmp(S, s, t[2]) < 0) /\ t[3] # 0 /\ ~(Sockets!Cmp(S, s, t[3]) < 0)
    <3>1. Sockets!Insert(S, t, s) = <<t[2], t[3], s>>
      BY <1>5, <2>9 DEF Sockets!Insert
    <3> QED
      BY <1>1, <1>2, <1>5, <2>1, <2>2, <2>3, <2>9, <3>1 DEF OrderedTree, Sockets!Nodes, TreeType, Sockets!Cmp
  <2> QED
    BY <2>4, <2>5, <2>6, <2>7, <2>8, <2>9
<1> QED
  BY <1>3, <1>4, <1>5

LEMMA DeleteOrdered ==
  ASSUME NEW S, \A x \in Sockets!Socks : S[x].rp \in Int,
         NEW t \in TreeType, OrderedTree(S, t), NEW s \in Sockets!Socks
  PROVE  /\ Sockets!Delete(S, t, s) \in TreeType /\ OrderedTree(S, Sockets!Delete(S, t, s))
         /\ Sockets!Nodes(Sockets!Delete(S, t, s)) \subseteq Sockets!Nodes(t) \ {s}
<1> DEFINE d == Sockets!Find(S, t, s)
<1>1. t[1] \in 0 .. 3 /\ t[2] \in 0 .. 3 /\ t[3] \in 0 .. 3 /\ t = <<t[1], t[2], t[3]>>
  BY DEF TreeType
<1>2. /\ t[2] # 0 => S[t[2]].rp \in Int
      /\ t[1] # 0 => S[t[1]].rp \in Int
      /\ t[3] # 0 => S[t[3]].rp \in Int
      /\ S[s].rp \in Int /\ s \in 1 .. 3
  BY <1>1 DEF Sockets!Socks
<1>3. d \in Sockets!Nodes(t) \cup {0} /\ (s \in Sockets!Nodes(t) => d = s)
  BY <1>1, <1>2 DEF Sockets!Find, Sockets!Cmp, Sockets!Nodes, OrderedTree
<1>4. Sockets!Delete(S, t, s) = CASE d = 0 -> t
                          [] d # 0 /\ d = t[1] -> <<0, t[2], t[3]>>
                          [] d # 0 /\ d = t[3] -> <<t[1], t[2], 0>>
                          [] OTHER -> IF t[3] # 0 THEN <<t[1], t[3], 0>> ELSE <<0, t[1], 0>>
  BY DEF Sockets!Delete
<1> HIDE DEF d
<1> QED
  BY <1>1, <1>2, <1>3, <1>4 DEF OrderedTree, Sockets!Nodes, TreeType

\* The order of a tree is that of the remote ports of its members.
LEMMA SameOrder ==
  ASSUME NEW S, NEW T, NEW t \in TreeType, OrderedTree(S, t),
         \A x \in Sockets!Nodes(t) : T[x].rp = S[x].rp
  PROVE  OrderedTree(T, t)
<1>1. t[1] \in 0 .. 3 /\ t[2] \in 0 .. 3 /\ t[3] \in 0 .. 3
  BY DEF TreeType
<1>2. (t[2] # 0 => t[2] \in Sockets!Nodes(t)) /\ (t[1] # 0 => t[1] \in Sockets!Nodes(t)) /\ (t[3] # 0 => t[3] \in Sockets!Nodes(t))
  BY <1>1 DEF Sockets!Nodes
<1> QED
  BY <1>1, <1>2 DEF OrderedTree

\* A tree of one socket is ordered, whatever its remote port.
LEMMA AloneOrder ==
  ASSUME NEW S, NEW T, NEW t \in TreeType, OrderedTree(S, t), NEW s \in Sockets!Socks,
         \A x \in Sockets!Socks : S[x].rp \in Int, Sockets!Nodes(t) \subseteq {s}
  PROVE  OrderedTree(T, t) /\ t \in {Sockets!Empty, <<0, s, 0>>}
<1>1. t[1] \in 0 .. 3 /\ t[2] \in 0 .. 3 /\ t[3] \in 0 .. 3 /\ t = <<t[1], t[2], t[3]>>
  BY DEF TreeType
<1>2. t[1] \in {0, s} /\ t[2] \in {0, s} /\ t[3] \in {0, s}
  BY <1>1 DEF Sockets!Nodes
<1>3. S[s].rp \in Int
  OBVIOUS
<1>4. t[1] = 0 /\ t[3] = 0
  BY <1>2, <1>3 DEF OrderedTree
<1> QED
  BY <1>1, <1>2, <1>4 DEF OrderedTree, Sockets!Empty

LEMMA NodesAreSockets ==
  ASSUME NEW t \in TreeType
  PROVE  Sockets!Nodes(t) \subseteq Sockets!Socks
BY DEF TreeType, Sockets!Nodes, Sockets!Socks

\* What the tables see of a socket.
SameIn(S, T, x) == /\ T[x].proto = S[x].proto /\ T[x].lp = S[x].lp
                   /\ T[x].rp = S[x].rp /\ T[x].bound = S[x].bound

LEMMA SortedSame ==
  ASSUME NEW S, NEW T, NEW tb \in [{"udp", "tcp"} -> [Ports -> TreeType]],
         SortedTables(S, tb), \A x \in Sockets!Socks : SameIn(S, T, x)
  PROVE  SortedTables(T, tb)
<1> SUFFICES ASSUME NEW p \in {"udp", "tcp"}, NEW n \in Ports
             PROVE  OrderedTree(T, tb[p][n]) /\ \A s \in Sockets!Nodes(tb[p][n]) : Member(T, p, n, s)
  BY DEF SortedTables
<1>1. tb[p][n] \in TreeType /\ Sockets!Nodes(tb[p][n]) \subseteq Sockets!Socks
  BY NodesAreSockets
<1>2. OrderedTree(S, tb[p][n]) /\ \A s \in Sockets!Nodes(tb[p][n]) : Member(S, p, n, s)
  BY DEF SortedTables
<1>3. OrderedTree(T, tb[p][n])
  BY <1>1, <1>2, SameOrder DEF SameIn
<1> QED
  BY <1>1, <1>2, <1>3 DEF SameIn, Member

\* One socket changes: it was in no table, or keeps its place in it.
LEMMA SortedChange ==
  ASSUME NEW S, NEW T, NEW tb \in [{"udp", "tcp"} -> [Ports -> TreeType]],
         SortedTables(S, tb), NEW s \in Sockets!Socks, \A x \in Sockets!Socks : S[x].rp \in Int,
         \A x \in Sockets!Socks : x # s => SameIn(S, T, x),
         \/ ~S[s].bound
         \/ /\ T[s].proto = S[s].proto /\ T[s].lp = S[s].lp /\ T[s].bound = S[s].bound
            /\ T[s].rp = S[s].rp \/ Sockets!Nodes(tb[S[s].proto][S[s].lp]) \subseteq {s}
  PROVE  SortedTables(T, tb)
<1> SUFFICES ASSUME NEW p \in {"udp", "tcp"}, NEW n \in Ports
             PROVE  OrderedTree(T, tb[p][n]) /\ \A u \in Sockets!Nodes(tb[p][n]) : Member(T, p, n, u)
  BY DEF SortedTables
<1>1. tb[p][n] \in TreeType /\ Sockets!Nodes(tb[p][n]) \subseteq Sockets!Socks
  BY NodesAreSockets
<1>2. OrderedTree(S, tb[p][n]) /\ \A u \in Sockets!Nodes(tb[p][n]) : Member(S, p, n, u)
  BY DEF SortedTables
<1>3. CASE \A u \in Sockets!Nodes(tb[p][n]) : T[u].rp = S[u].rp
  <2>1. OrderedTree(T, tb[p][n])
    BY <1>1, <1>2, <1>3, SameOrder
  <2> QED
    BY <1>1, <1>2, <2>1 DEF SameIn, Member
<1>4. CASE s \in Sockets!Nodes(tb[p][n]) /\ T[s].rp # S[s].rp
  <2>1. p = S[s].proto /\ n = S[s].lp /\ S[s].bound
    BY <1>2, <1>4 DEF Member
  <2>2. Sockets!Nodes(tb[p][n]) \subseteq {s}
    BY <1>4, <2>1
  <2>3. OrderedTree(T, tb[p][n])
    BY <1>1, <1>2, <2>2, AloneOrder
  <2> QED
    BY <1>2, <2>1, <2>2, <2>3 DEF Member
<1> QED
  BY <1>1, <1>3, <1>4 DEF SameIn

\* pico_socket_add: a socket that was in no table, or the only one of its tree.
AddedTo(R, S, T, tb, s, new) ==
  /\ \A x \in Sockets!Socks : S[x].rp \in Int /\ R[x].rp \in Int
  /\ \A x \in Sockets!Socks : x # s => SameIn(R, S, x) /\ SameIn(R, T, x)
  /\ T[s].proto \in {"udp", "tcp"} /\ T[s].lp \in Ports /\ T[s].bound
  /\ \/ ~R[s].bound /\ T[s].rp = S[s].rp
     \/ Sockets!Nodes(tb[T[s].proto][T[s].lp]) \subseteq {s}
  /\ R[s].bound => R[s].proto = T[s].proto /\ R[s].lp = T[s].lp
  /\ new = [tb EXCEPT ![T[s].proto][T[s].lp] = Sockets!Insert(S, @, s)]

LEMMA SortedAdd ==
  ASSUME NEW S, NEW T, NEW tb \in [{"udp", "tcp"} -> [Ports -> TreeType]], NEW R,
         NEW s \in Sockets!Socks, NEW new, SortedTables(R, tb), AddedTo(R, S, T, tb, s, new)
  PROVE  new \in [{"udp", "tcp"} -> [Ports -> TreeType]] /\ SortedTables(T, new)
<1>0. /\ \A x \in Sockets!Socks : S[x].rp \in Int /\ R[x].rp \in Int
      /\ \A x \in Sockets!Socks : x # s => SameIn(R, S, x) /\ SameIn(R, T, x)
      /\ T[s].proto \in {"udp", "tcp"} /\ T[s].lp \in Ports /\ T[s].bound
      /\ \/ ~R[s].bound /\ T[s].rp = S[s].rp
         \/ Sockets!Nodes(tb[T[s].proto][T[s].lp]) \subseteq {s}
      /\ R[s].bound => R[s].proto = T[s].proto /\ R[s].lp = T[s].lp
      /\ new = [tb EXCEPT ![T[s].proto][T[s].lp] = Sockets!Insert(S, @, s)]
  BY DEF AddedTo
<1> DEFINE q == T[s].proto
           m == T[s].lp
           t == tb[q][m]
           i == Sockets!Insert(S, t, s)
<1>1. t \in TreeType /\ Sockets!Nodes(t) \subseteq Sockets!Socks /\ OrderedTree(R, t) /\ \A u \in Sockets!Nodes(t) : Member(R, q, m, u)
  BY <1>0, NodesAreSockets DEF SortedTables
<1>2. i \in TreeType /\ OrderedTree(T, i) /\ Sockets!Nodes(i) \subseteq Sockets!Nodes(t) \cup {s}
  <2>1. CASE ~R[s].bound /\ T[s].rp = S[s].rp
    <3>1. s \notin Sockets!Nodes(t)
      BY <1>0, <1>1, <2>1 DEF Member
    <3>2. \A x \in Sockets!Nodes(t) : S[x].rp = R[x].rp
      BY <1>0, <1>1, <3>1 DEF SameIn
    <3>3. OrderedTree(S, t)
      BY <1>0, <1>1, <3>2, SameOrder
    <3>4. i \in TreeType /\ OrderedTree(S, i) /\ Sockets!Nodes(i) \subseteq Sockets!Nodes(t) \cup {s}
      BY <1>0, <1>1, <3>1, <3>3, InsertOrdered
    <3>5. \A x \in Sockets!Nodes(i) : T[x].rp = S[x].rp
      BY <1>0, <1>1, <2>1, <3>4 DEF SameIn
    <3> HIDE DEF i
    <3>6. OrderedTree(T, i)
      BY <1>0, <3>4, <3>5, SameOrder
    <3> QED
      BY <1>0, <3>4, <3>6
  <2>2. CASE Sockets!Nodes(t) \subseteq {s}
    <3>1. t \in {Sockets!Empty, <<0, s, 0>>}
      BY <1>0, <1>1, <2>2, AloneOrder
    <3>2. s \in 1 .. 3 /\ S[s].rp \in Int
      BY <1>0 DEF Sockets!Socks
    <3>3. i = <<0, s, 0>>
      <4>1. CASE t = Sockets!Empty
        BY <1>0, <4>1 DEF Sockets!Insert, Sockets!Empty
      <4>2. CASE t = <<0, s, 0>>
        <5>1. Sockets!Find(S, t, s) = s
          BY <1>0, <3>2, <4>2 DEF Sockets!Find, Sockets!Cmp
        <5> QED
          BY <1>0, <3>2, <4>2, <5>1 DEF Sockets!Insert
      <4> QED
        BY <1>0, <3>1, <4>1, <4>2
    <3>4. <<0, s, 0>> \in TreeType /\ Sockets!Nodes(<<0, s, 0>>) = {s}
      BY <1>0, <3>2 DEF TreeType, Sockets!Nodes
    <3>5. OrderedTree(T, <<0, s, 0>>)
      BY <1>0, <3>2 DEF OrderedTree
    <3> QED
      BY <1>0, <3>3, <3>4, <3>5
  <2> QED
    BY <1>0, <2>1, <2>2
<1> HIDE DEF i
<1>3. new = [tb EXCEPT ![q][m] = i]
  BY <1>0 DEF i
<1>4. /\ new \in [{"udp", "tcp"} -> [Ports -> TreeType]]
      /\ new[q][m] = i
      /\ \A p \in {"udp", "tcp"}, n \in Ports : p # q \/ n # m => new[p][n] = tb[p][n]
  BY <1>0, <1>2, <1>3
<1>5. ASSUME NEW p \in {"udp", "tcp"}, NEW n \in Ports
      PROVE  OrderedTree(T, new[p][n]) /\ \A u \in Sockets!Nodes(new[p][n]) : Member(T, p, n, u)
  <2>1. CASE p = q /\ n = m
    <3>1. Member(T, q, m, s)
      BY <1>0 DEF Member
    <3>2. \A u \in Sockets!Nodes(t) : u = s \/ Member(T, q, m, u)
      BY <1>0, <1>1 DEF Member, SameIn
    <3> QED
      BY <1>2, <1>4, <2>1, <3>1, <3>2
  <2>2. CASE p # q \/ n # m
    <3>1. tb[p][n] \in TreeType /\ Sockets!Nodes(tb[p][n]) \subseteq Sockets!Socks
      BY <1>0, NodesAreSockets
    <3>2. OrderedTree(R, tb[p][n]) /\ \A u \in Sockets!Nodes(tb[p][n]) : Member(R, p, n, u)
      BY <1>0 DEF SortedTables
    <3>3. s \notin Sockets!Nodes(tb[p][n])
      BY <1>0, <2>2, <3>2 DEF Member
    <3>4. \A x \in Sockets!Nodes(tb[p][n]) : SameIn(R, T, x)
      BY <1>0, <3>1, <3>3
    <3>5. OrderedTree(T, tb[p][n])
      BY <1>0, <3>1, <3>2, <3>4, SameOrder DEF SameIn
    <3> QED
      BY <1>0, <1>4, <2>2, <3>2, <3>4, <3>5 DEF SameIn, Member
  <2> QED
    BY <1>0, <2>1, <2>2
<1> QED
  BY <1>0, <1>4, <1>5 DEF SortedTables

\* pico_socket_del: whoever leaves the table, the socket is not in it.
DeletedFrom(S, T, tb, s, new) ==
  /\ \A x \in Sockets!Socks : S[x].rp \in Int
  /\ \A x \in Sockets!Socks : x # s => SameIn(S, T, x)
  /\ S[s].proto \in {"udp", "tcp"} /\ S[s].lp \in Ports
  /\ new = [tb EXCEPT ![S[s].proto][S[s].lp] = Sockets!Delete(S, @, s)]

LEMMA SortedDelete ==
  ASSUME NEW S, NEW T, NEW tb \in [{"udp", "tcp"} -> [Ports -> TreeType]],
         SortedTables(S, tb), NEW s \in Sockets!Socks, NEW new, DeletedFrom(S, T, tb, s, new)
  PROVE  new \in [{"udp", "tcp"} -> [Ports -> TreeType]] /\ SortedTables(T, new)
<1>0. /\ \A x \in Sockets!Socks : S[x].rp \in Int
      /\ \A x \in Sockets!Socks : x # s => SameIn(S, T, x)
      /\ S[s].proto \in {"udp", "tcp"} /\ S[s].lp \in Ports
      /\ new = [tb EXCEPT ![S[s].proto][S[s].lp] = Sockets!Delete(S, @, s)]
  BY DEF DeletedFrom
<1> DEFINE q == S[s].proto
           m == S[s].lp
           t == tb[q][m]
           i == Sockets!Delete(S, t, s)
<1>1. t \in TreeType /\ Sockets!Nodes(t) \subseteq Sockets!Socks /\ OrderedTree(S, t) /\ \A u \in Sockets!Nodes(t) : Member(S, q, m, u)
  BY <1>0, NodesAreSockets DEF SortedTables
<1>2. i \in TreeType /\ OrderedTree(S, i) /\ Sockets!Nodes(i) \subseteq Sockets!Nodes(t) \ {s}
  BY <1>0, <1>1, DeleteOrdered
<1> HIDE DEF i
<1>3. new = [tb EXCEPT ![q][m] = i]
  BY <1>0 DEF i
<1>4. /\ new \in [{"udp", "tcp"} -> [Ports -> TreeType]]
      /\ new[q][m] = i
      /\ \A p \in {"udp", "tcp"}, n \in Ports : p # q \/ n # m => new[p][n] = tb[p][n]
  BY <1>0, <1>2, <1>3
<1>5. ASSUME NEW p \in {"udp", "tcp"}, NEW n \in Ports
      PROVE  OrderedTree(T, new[p][n]) /\ \A u \in Sockets!Nodes(new[p][n]) : Member(T, p, n, u)
  <2>1. /\ new[p][n] \in TreeType /\ OrderedTree(S, new[p][n]) /\ s \notin Sockets!Nodes(new[p][n])
        /\ \A u \in Sockets!Nodes(new[p][n]) : Member(S, p, n, u)
    <3>1. CASE p = q /\ n = m
      BY <1>0, <1>1, <1>2, <1>4, <3>1
    <3>2. CASE p # q \/ n # m
      BY <1>0, <1>4, <3>2 DEF SortedTables, Member
    <3> QED
      BY <3>1, <3>2
  <2>2. \A x \in Sockets!Nodes(new[p][n]) : SameIn(S, T, x)
    <3>1. Sockets!Nodes(new[p][n]) \subseteq Sockets!Socks
      BY <2>1, NodesAreSockets
    <3> QED
      BY <1>0, <2>1, <3>1
  <2>3. OrderedTree(T, new[p][n])
    BY <2>1, <2>2, SameOrder DEF SameIn
  <2>4. \A x \in Sockets!Nodes(new[p][n]) : Member(T, p, n, x)
    BY <2>1, <2>2 DEF SameIn, Member
  <2> QED
    BY <2>3, <2>4
<1> QED
  BY <1>4, <1>5 DEF SortedTables

LEMMA ChildrenFinite ==
  ASSUME NEW S, NEW l
  PROVE  IsFiniteSet(Children(S, l)) /\ Cardinality(Children(S, l)) \in Nat
<1>1. IsFiniteSet(Sockets!Socks)
  <2>1. PICK a \in Int, b \in Int : a = 1 /\ b = 3
    OBVIOUS
  <2>2. IsFiniteSet(a .. b)
    BY FS_Interval
  <2> QED
    BY <2>1, <2>2 DEF Sockets!Socks
<1>2. IsFiniteSet(Children(S, l))
  BY <1>1, FS_Subset DEF Children
<1> QED
  BY <1>2, FS_CardinalityType

\* One socket changes, and is the child of the same socket as before.
ChangedAt(S, T, s) ==
  /\ \A x \in Sockets!Socks : x # s => T[x] = S[x]
  /\ \A l \in Sockets!Socks : (T[s].parent = l /\ T[s].life = "open")
                                <=> (S[s].parent = l /\ S[s].life = "open")
  /\ T[s].parent \in {S[s].parent, 0}

LEMMA CountedChange ==
  ASSUME NEW S, NEW T, NEW s \in Sockets!Socks, Counted(S), ChangedAt(S, T, s), CountedAt(T, s)
  PROVE  Counted(T)
<1> SUFFICES ASSUME NEW l \in Sockets!Socks, l # s PROVE CountedAt(T, l)
  BY DEF Counted
<1>1. Children(T, l) = Children(S, l)
  BY DEF Children, ChangedAt
<1>2. T[l] = S[l] /\ CountedAt(S, l)
  BY DEF Counted, ChangedAt
<1>3. l # 0 /\ \A c \in Sockets!Socks : S[c].parent # l => T[c].parent # l
  BY DEF Sockets!Socks, ChangedAt
<1> QED
  BY <1>1, <1>2, <1>3 DEF CountedAt

\* What the counts are when a listener has one child less or one more.
LEMMA ChildGone ==
  ASSUME NEW S, NEW T, NEW l \in Sockets!Socks, NEW c \in Sockets!Socks, c \in Children(S, l),
         Children(T, l) = Children(S, l) \ {c}
  PROVE  Cardinality(Children(T, l)) = Cardinality(Children(S, l)) - 1
BY ChildrenFinite, FS_RemoveElement

LEMMA ChildCome ==
  ASSUME NEW S, NEW T, NEW l \in Sockets!Socks, NEW c \in Sockets!Socks, c \notin Children(S, l),
         Children(T, l) = Children(S, l) \cup {c}
  PROVE  Cardinality(Children(T, l)) = Cardinality(Children(S, l)) + 1
BY ChildrenFinite, FS_AddElement

LEMMA SocketInitially ==
  ASSUME Numbered, Sockets!Init
  PROVE  SocketInv
<1>1. Sockets!Nothing \in SocketRecords
  BY DEF Numbered, Sockets!Nothing, SocketRecords
<1>2. Sockets!Empty \in TreeType /\ Sockets!Nodes(Sockets!Empty) = {}
  BY DEF Sockets!Empty, TreeType, Sockets!Nodes
<1>3. SocketTypes
  BY <1>1, <1>2 DEF Sockets!Init, SocketTypes
<1>4. SortedTables(socks, tables)
  BY <1>2 DEF Sockets!Init, SortedTables, OrderedTree, Sockets!Empty
<1>5. \A s \in Sockets!Socks : socks[s] = Sockets!Nothing /\ s # 0
  BY DEF Sockets!Init, Sockets!Socks
<1>6. Alive(Sockets!Nothing) /\ Sockets!Nothing.parent = 0 /\ Sockets!Nothing.tcp = "none" /\ Sockets!Nothing.pend = 0
  BY DEF Alive, Sockets!Nothing
<1>7. LivingSockets(socks) /\ Counted(socks)
  BY <1>5, <1>6 DEF LivingSockets, Counted, CountedAt
<1> QED
  BY <1>3, <1>4, <1>7 DEF SocketInv

\* One socket changes, and no table.
LEMMA StepOfOne ==
  ASSUME SocketInv, NEW s \in Sockets!Socks, NEW r \in SocketRecords,
         socks' = [socks EXCEPT ![s] = r], UNCHANGED tables,
         \/ ~socks[s].bound
         \/ /\ r.proto = socks[s].proto /\ r.lp = socks[s].lp /\ r.bound = socks[s].bound
            /\ r.rp = socks[s].rp \/ Sockets!Nodes(Sockets!Tree(s)) \subseteq {s},
         Alive(r), r.parent \in {socks[s].parent, 0},
         \A l \in Sockets!Socks : (r.parent = l /\ r.life = "open")
                                    <=> (socks[s].parent = l /\ socks[s].life = "open"),
         CountedAt(socks', s)
  PROVE  SocketInv'
<1>1. /\ socks \in [Sockets!Socks -> SocketRecords] /\ tables \in [{"udp", "tcp"} -> [Ports -> TreeType]]
      /\ SortedTables(socks, tables) /\ LivingSockets(socks) /\ Counted(socks)
  BY DEF SocketInv, SocketTypes
<1>2. /\ socks' \in [Sockets!Socks -> SocketRecords] /\ socks'[s] = r
      /\ \A x \in Sockets!Socks : x # s => socks'[x] = socks[x]
  BY <1>1
<1>3. SocketTypes'
  BY <1>1, <1>2 DEF SocketTypes
<1>4. SortedTables(socks', tables)
  <2>1. \A x \in Sockets!Socks : socks[x].rp \in Int
    BY <1>1 DEF SocketRecords
  <2>2. \A x \in Sockets!Socks : x # s => SameIn(socks, socks', x)
    BY <1>2 DEF SameIn
  <2>3. \/ ~socks[s].bound
        \/ /\ socks'[s].proto = socks[s].proto /\ socks'[s].lp = socks[s].lp /\ socks'[s].bound = socks[s].bound
           /\ socks'[s].rp = socks[s].rp \/ Sockets!Nodes(tables[socks[s].proto][socks[s].lp]) \subseteq {s}
    BY <1>2 DEF Sockets!Tree
  <2> QED
    BY <1>1, <2>1, <2>2, <2>3, SortedChange
<1>5. LivingSockets(socks')
  <2>1. s # 0 /\ socks[s].parent # s
    BY <1>1 DEF LivingSockets, Sockets!Socks
  <2> QED
    BY <1>1, <1>2, <2>1 DEF LivingSockets
<1>6. Counted(socks')
  <2>1. ChangedAt(socks, socks', s)
    BY <1>2 DEF ChangedAt
  <2> QED
    BY <1>1, <2>1, CountedChange
<1> QED
  BY <1>3, <1>4, <1>5, <1>6 DEF SocketInv

\* One socket changes on its way into a table; S is what it is when it is
\* compared with those that are there.
LEMMA StepOfAdd ==
  ASSUME Numbered, SocketInv, NEW s \in Sockets!Socks, NEW v \in SocketRecords, NEW r \in SocketRecords,
         tables' = [tables EXCEPT ![r.proto][r.lp] = Sockets!Insert([socks EXCEPT ![s] = v], @, s)],
         socks' = [socks EXCEPT ![s] = r],
         r.proto \in {"udp", "tcp"}, r.lp \in Ports, r.bound,
         \/ ~socks[s].bound /\ v.rp = r.rp
         \/ Sockets!Nodes(tables[r.proto][r.lp]) \subseteq {s},
         socks[s].bound => socks[s].proto = r.proto /\ socks[s].lp = r.lp,
         Alive(r), r.parent = socks[s].parent, r.life = socks[s].life,
         r.tcp # "listen", socks[s].tcp # "listen", r.pend = socks[s].pend
  PROVE  SocketInv'
<1> DEFINE S == [socks EXCEPT ![s] = v]
<1>1. /\ socks \in [Sockets!Socks -> SocketRecords] /\ tables \in [{"udp", "tcp"} -> [Ports -> TreeType]]
      /\ SortedTables(socks, tables) /\ LivingSockets(socks) /\ Counted(socks)
  BY DEF SocketInv, SocketTypes
<1>2. /\ socks' \in [Sockets!Socks -> SocketRecords] /\ socks'[s] = r /\ S \in [Sockets!Socks -> SocketRecords] /\ S[s] = v
      /\ \A x \in Sockets!Socks : x # s => socks'[x] = socks[x] /\ S[x] = socks[x]
  BY <1>1
<1>3. \A x \in Sockets!Socks : S[x].rp \in Int /\ socks[x].rp \in Int
  BY <1>1, <1>2 DEF SocketRecords
<1>4. \A x \in Sockets!Socks : x # s => SameIn(socks, S, x) /\ SameIn(socks, socks', x)
  BY <1>2 DEF SameIn
<1>5. tables' = [tables EXCEPT ![socks'[s].proto][socks'[s].lp] = Sockets!Insert(S, @, s)]
  BY <1>2
<1>6. AddedTo(socks, S, socks', tables, s, tables')
  <2>1. /\ socks'[s].proto \in {"udp", "tcp"} /\ socks'[s].lp \in Ports /\ socks'[s].bound
        /\ \/ ~socks[s].bound /\ socks'[s].rp = S[s].rp
           \/ Sockets!Nodes(tables[socks'[s].proto][socks'[s].lp]) \subseteq {s}
        /\ socks[s].bound => socks[s].proto = socks'[s].proto /\ socks[s].lp = socks'[s].lp
    BY <1>2
  <2> QED
    BY <1>3, <1>4, <1>5, <2>1 DEF AddedTo
<1> HIDE DEF S
<1>10. tables' \in [{"udp", "tcp"} -> [Ports -> TreeType]] /\ SortedTables(socks', tables')
  <2>1. s \in Sockets!Socks
    OBVIOUS
  <2> QED
    BY ONLY <1>1, <1>6, <2>1, SortedAdd
<1>7. LivingSockets(socks')
  BY <1>1, <1>2 DEF LivingSockets
<1>8. CountedAt(socks', s)
  <2>1. CountedAt(socks, s) /\ socks[s].parent # s
    BY <1>1 DEF Counted, LivingSockets
  <2>2. socks[s].life \in {"none", "open"} => \A c \in Sockets!Socks : socks[c].parent # s
    BY <2>1 DEF CountedAt
  <2>3. socks'[s].life \in {"none", "open"} => \A c \in Sockets!Socks : socks'[c].parent # s
    BY <1>2, <2>1, <2>2
  <2> QED
    BY <1>2, <2>1, <2>3 DEF CountedAt
<1>9. Counted(socks')
  <2>1. ChangedAt(socks, socks', s)
    BY <1>2 DEF ChangedAt
  <2> QED
    BY <1>1, <1>8, <2>1, CountedChange
<1> QED
  BY <1>2, <1>7, <1>9, <1>10 DEF SocketInv, SocketTypes

\* A call that changes none of what the counts and the tables rest on.
LEMMA StepOfFields ==
  ASSUME SocketInv, NEW s \in Sockets!Socks, NEW r \in SocketRecords,
         socks' = [socks EXCEPT ![s] = r], UNCHANGED tables,
         r.proto = socks[s].proto, r.bound = socks[s].bound, r.life = socks[s].life,
         r.parent = socks[s].parent, r.pend = socks[s].pend, r.gc = socks[s].gc,
         r.backlog = socks[s].backlog,
         \/ ~socks[s].bound
         \/ r.lp = socks[s].lp /\ (r.rp = socks[s].rp \/ Sockets!Nodes(Sockets!Tree(s)) \subseteq {s}),
         \/ r.tcp = socks[s].tcp
         \/ r.tcp # "listen" /\ socks[s].tcp # "listen" /\ socks[s].life = "open"
  PROVE  SocketInv'
<1>1. socks \in [Sockets!Socks -> SocketRecords] /\ Alive(socks[s]) /\ socks[s].parent # s /\ CountedAt(socks, s)
  BY DEF SocketInv, SocketTypes, LivingSockets, Counted
<1>2. socks'[s] = r /\ \A x \in Sockets!Socks : x # s => socks'[x] = socks[x]
  BY <1>1
<1>3. Alive(r)
  BY <1>1 DEF Alive
<1>4. CountedAt(socks', s)
  <2>1. Children(socks', s) = Children(socks, s)
    BY <1>1, <1>2 DEF Children
  <2>2. (\A c \in Sockets!Socks : socks[c].parent # s) => \A c \in Sockets!Socks : socks'[c].parent # s
    BY <1>1, <1>2
  <2> QED
    BY <1>1, <1>2, <2>1, <2>2 DEF CountedAt
<1> QED
  BY <1>3, <1>4, StepOfOne

LEMMA SockFields ==
  ASSUME NEW r \in SocketRecords
  PROVE  /\ \A x \in {"none", "syn_sent", "syn_recv", "established", "listen", "closing"} : [r EXCEPT !.tcp = x] \in SocketRecords
         /\ \A x \in Addrs \cup {Sockets!Home, "any"} : [r EXCEPT !.la = x] \in SocketRecords
         /\ \A x \in Ports \cup {0} : [r EXCEPT !.lp = x] \in SocketRecords
         /\ \A x \in Remotes : [r EXCEPT !.ra = x] \in SocketRecords
         /\ \A x \in Int : [r EXCEPT !.rp = x] \in SocketRecords
         /\ \A x \in Int : [r EXCEPT !.pend = x] \in SocketRecords
         /\ \A x \in Int : [r EXCEPT !.backlog = x] \in SocketRecords
         /\ \A x \in Sockets!Socks \cup {0} : [r EXCEPT !.parent = x] \in SocketRecords
         /\ \A x \in BOOLEAN : [r EXCEPT !.bound = x] \in SocketRecords
         /\ \A x \in BOOLEAN : [r EXCEPT !.conn = x] \in SocketRecords
         /\ \A x \in 0 .. MaxQueue : [r EXCEPT !.queue = x] \in SocketRecords
<1>1. \A x \in {"none", "syn_sent", "syn_recv", "established", "listen", "closing"} : [r EXCEPT !.tcp = x] \in SocketRecords
  BY DEF SocketRecords
<1>2. \A x \in Addrs \cup {Sockets!Home, "any"} : [r EXCEPT !.la = x] \in SocketRecords
  BY DEF SocketRecords
<1>3. \A x \in Ports \cup {0} : [r EXCEPT !.lp = x] \in SocketRecords
  BY DEF SocketRecords
<1>4. \A x \in Remotes : [r EXCEPT !.ra = x] \in SocketRecords
  BY DEF SocketRecords
<1>5. \A x \in Int : [r EXCEPT !.rp = x] \in SocketRecords
  BY DEF SocketRecords
<1>6. \A x \in Int : [r EXCEPT !.pend = x] \in SocketRecords
  BY DEF SocketRecords
<1>7. \A x \in Int : [r EXCEPT !.backlog = x] \in SocketRecords
  BY DEF SocketRecords
<1>8. \A x \in Sockets!Socks \cup {0} : [r EXCEPT !.parent = x] \in SocketRecords
  BY DEF SocketRecords
<1>9. \A x \in BOOLEAN : [r EXCEPT !.bound = x] \in SocketRecords
  BY DEF SocketRecords
<1>10. \A x \in BOOLEAN : [r EXCEPT !.conn = x] \in SocketRecords
  BY DEF SocketRecords
<1>11. \A x \in 0 .. MaxQueue : [r EXCEPT !.queue = x] \in SocketRecords
  BY DEF SocketRecords
<1> QED
  BY <1>1, <1>2, <1>3, <1>4, <1>5, <1>6, <1>7, <1>8, <1>9, <1>10, <1>11

LEMMA OpenStep ==
  ASSUME Numbered, SocketInv, NEW s \in Sockets!Socks, NEW proto \in {"udp", "tcp"}, Sockets!Open(s, proto)
  PROVE  SocketInv'
<1> DEFINE r == [Sockets!Nothing EXCEPT !.proto = proto, !.life = "open"]
<1>1. /\ socks[s].life = "none" /\ socks' = [socks EXCEPT ![s] = r] /\ UNCHANGED tables
  BY DEF Sockets!Open
<1>2. socks \in [Sockets!Socks -> SocketRecords] /\ Alive(socks[s]) /\ CountedAt(socks, s) /\ s # 0
  BY DEF SocketInv, SocketTypes, LivingSockets, Counted, Sockets!Socks
<1>3. r \in SocketRecords /\ Alive(r) /\ r.parent = 0 /\ r.tcp = "none" /\ r.pend = 0
  <2>1. Sockets!Nothing \in SocketRecords /\ proto \in {"udp", "tcp"}
    BY DEF Numbered, Sockets!Nothing, SocketRecords
  <2>2. r = [[Sockets!Nothing EXCEPT !.proto = proto] EXCEPT !.life = "open"]
    BY DEF Sockets!Nothing
  <2>3. [Sockets!Nothing EXCEPT !.proto = proto] \in SocketRecords
    BY <2>1 DEF SocketRecords
  <2>4. r \in SocketRecords
    BY <2>2, <2>3 DEF SocketRecords
  <2>5. /\ r.parent = 0 /\ r.tcp = "none" /\ r.pend = 0 /\ r.bound = FALSE /\ r.life = "open"
        /\ r.proto = proto /\ r.gc = 0 /\ proto # "none"
    BY <2>1 DEF Sockets!Nothing
  <2> HIDE DEF r
  <2> QED
    BY <2>4, <2>5 DEF Alive
<1> HIDE DEF r
<1>4. ~socks[s].bound /\ socks[s].parent = 0 /\ socks[s].tcp = "none"
  BY <1>1, <1>2 DEF Alive
<1>5. CountedAt(socks', s)
  BY <1>1, <1>2, <1>3, <1>4 DEF CountedAt
<1>6. \A l \in Sockets!Socks : l # 0
  BY DEF Sockets!Socks
<1> QED
  BY <1>1, <1>3, <1>4, <1>5, <1>6, StepOfOne

LEMMA BindStep ==
  ASSUME Numbered, SocketInv, NEW s \in Sockets!Socks, NEW a \in Addrs, NEW p \in Ports, Sockets!Bind(s, a, p)
  PROVE  SocketInv'
<1> DEFINE v == [[socks[s] EXCEPT !.la = a] EXCEPT !.lp = p]
           r == [v EXCEPT !.bound = TRUE]
<1>1. /\ socks \in [Sockets!Socks -> SocketRecords] /\ Alive(socks[s])
      /\ socks[s].life = "open" /\ ~socks[s].bound
      /\ tables \in [{"udp", "tcp"} -> [Ports -> TreeType]]
  BY DEF Sockets!Bind, Sockets!Mine, Numbered, SocketInv, SocketTypes, LivingSockets
<1>2. /\ v \in SocketRecords /\ r \in SocketRecords /\ v.rp = r.rp /\ r.proto = socks[s].proto /\ r.lp = p /\ r.bound
      /\ r.parent = socks[s].parent /\ r.life = socks[s].life /\ r.tcp = socks[s].tcp
      /\ r.pend = socks[s].pend /\ r.gc = socks[s].gc
  <2>1. [socks[s] EXCEPT !.la = a] \in SocketRecords
    BY <1>1, SockFields
  <2>2. v \in SocketRecords
    BY <2>1, SockFields
  <2>3. r \in SocketRecords
    BY <2>2, SockFields
  <2> QED
    BY <1>1, <2>2, <2>3 DEF SocketRecords
<1>3. /\ tables' = [tables EXCEPT ![r.proto][r.lp] = Sockets!Insert([socks EXCEPT ![s] = v], @, s)]
      /\ socks' = [socks EXCEPT ![s] = r]
  <2> DEFINE S == [socks EXCEPT ![s].la = a, ![s].lp = p]
  <2>1. S = [socks EXCEPT ![s] = v] /\ S[s] = v /\ [S EXCEPT ![s].bound = TRUE] = [socks EXCEPT ![s] = r]
    BY <1>1 DEF SocketRecords
  <2>2. Sockets!Add(S, s)
    BY DEF Sockets!Bind
  <2> HIDE DEF S
  <2>3. r.proto = v.proto /\ r.lp = v.lp
    BY <1>1 DEF SocketRecords
  <2> QED
    BY <2>1, <2>2, <2>3 DEF Sockets!Add
<1>4. /\ r.proto \in {"udp", "tcp"} /\ Alive(r) /\ socks[s].tcp # "listen"
  BY <1>1, <1>2 DEF Alive, SocketRecords, Numbered
<1> HIDE DEF v, r
<1> QED
  BY <1>1, <1>2, <1>3, <1>4, StepOfAdd

\* The fields of a socket, with their ranges.
LEMMA SocketFieldTypes ==
  ASSUME NEW r \in SocketRecords
  PROVE  /\ r.proto \in {"none", "udp", "tcp"} /\ r.life \in {"none", "open", "zombie", "gone"}
         /\ r.bound \in BOOLEAN /\ r.conn \in BOOLEAN
         /\ r.tcp \in {"none", "syn_sent", "syn_recv", "established", "listen", "closing"}
         /\ r.lp \in Ports \cup {0} /\ r.rp \in Int /\ r.parent \in Sockets!Socks \cup {0}
         /\ r.pend \in Int /\ r.backlog \in Int /\ r.queue \in 0 .. MaxQueue /\ r.gc \in 0 .. 1
BY DEF SocketRecords

\* What every step starts from.
LEMMA SocketFacts ==
  ASSUME SocketInv, NEW s \in Sockets!Socks
  PROVE  /\ socks \in [Sockets!Socks -> SocketRecords] /\ socks[s] \in SocketRecords
         /\ tables \in [{"udp", "tcp"} -> [Ports -> TreeType]]
         /\ SortedTables(socks, tables) /\ LivingSockets(socks) /\ Counted(socks)
         /\ Alive(socks[s]) /\ socks[s].parent # s /\ CountedAt(socks, s)
         /\ s # 0
BY DEF SocketInv, SocketTypes, LivingSockets, Counted, Sockets!Socks

LEMMA RecvStep ==
  ASSUME Numbered, SocketInv, NEW s \in Sockets!Socks, Sockets!Recv(s)
  PROVE  SocketInv'
<1> DEFINE r == [socks[s] EXCEPT !.queue = socks[s].queue - 1]
<1>1. socks \in [Sockets!Socks -> SocketRecords] /\ socks[s] \in SocketRecords
  BY SocketFacts
<1>2. socks' = [socks EXCEPT ![s] = r] /\ UNCHANGED tables
  BY DEF Sockets!Recv
<1>3. socks[s].queue - 1 \in 0 .. MaxQueue
  BY <1>1, SocketFieldTypes DEF Sockets!Recv, Numbered
<1>4. r \in SocketRecords
  BY <1>1, <1>3, SockFields
<1>5. /\ r.proto = socks[s].proto /\ r.bound = socks[s].bound /\ r.life = socks[s].life
      /\ r.parent = socks[s].parent /\ r.pend = socks[s].pend /\ r.gc = socks[s].gc
      /\ r.backlog = socks[s].backlog /\ r.lp = socks[s].lp /\ r.rp = socks[s].rp
      /\ r.tcp = socks[s].tcp
  BY <1>1 DEF SocketRecords
<1> HIDE DEF r
<1> QED
  BY <1>2, <1>4, <1>5, StepOfFields

LEMMA DatagramStep ==
  ASSUME Numbered, SocketInv, NEW p \in Ports, NEW a, Sockets!Datagram(p, a)
  PROVE  SocketInv'
<1> DEFINE s == Sockets!First(tables["udp"][p])
           r == [socks[s] EXCEPT !.queue = socks[s].queue + 1]
<1>0. s \in Sockets!Socks
  <2>1. tables["udp"][p] \in TreeType
    BY DEF SocketInv, SocketTypes
  <2> QED
    BY <2>1 DEF Sockets!Datagram, Sockets!First, TreeType, Sockets!Socks
<1>1. socks \in [Sockets!Socks -> SocketRecords] /\ socks[s] \in SocketRecords
  BY <1>0, SocketFacts
<1>2. socks' = [socks EXCEPT ![s] = r] /\ UNCHANGED tables /\ socks[s].queue < MaxQueue
  BY DEF Sockets!Datagram
<1> HIDE DEF s
<1>3. socks[s].queue + 1 \in 0 .. MaxQueue
  BY <1>1, <1>2, SocketFieldTypes DEF Numbered
<1>4. r \in SocketRecords
  BY <1>1, <1>3, SockFields
<1>5. /\ r.proto = socks[s].proto /\ r.bound = socks[s].bound /\ r.life = socks[s].life
      /\ r.parent = socks[s].parent /\ r.pend = socks[s].pend /\ r.gc = socks[s].gc
      /\ r.backlog = socks[s].backlog /\ r.lp = socks[s].lp /\ r.rp = socks[s].rp
      /\ r.tcp = socks[s].tcp
  BY <1>1 DEF SocketRecords
<1> HIDE DEF r
<1> QED
  BY <1>0, <1>2, <1>4, <1>5, StepOfFields

LEMMA EstablishStep ==
  ASSUME Numbered, SocketInv, NEW s \in Sockets!Socks, Sockets!Establish(s)
  PROVE  SocketInv'
<1> DEFINE r == [socks[s] EXCEPT !.tcp = "established"]
<1>1. socks \in [Sockets!Socks -> SocketRecords] /\ socks[s] \in SocketRecords /\ Alive(socks[s])
  BY SocketFacts
<1>2. /\ socks' = [socks EXCEPT ![s] = r] /\ UNCHANGED tables
      /\ socks[s].tcp \in {"syn_sent", "syn_recv"}
  BY DEF Sockets!Establish
<1>3. socks[s].life = "open" /\ socks[s].tcp # "listen"
  BY <1>1, <1>2 DEF Alive
<1>4. r \in SocketRecords
  BY <1>1, SockFields
<1>5. /\ r.proto = socks[s].proto /\ r.bound = socks[s].bound /\ r.life = socks[s].life
      /\ r.parent = socks[s].parent /\ r.pend = socks[s].pend /\ r.gc = socks[s].gc
      /\ r.backlog = socks[s].backlog /\ r.lp = socks[s].lp /\ r.rp = socks[s].rp
      /\ r.tcp # "listen"
  BY <1>1 DEF SocketRecords
<1> HIDE DEF r
<1> QED
  BY <1>2, <1>3, <1>4, <1>5, StepOfFields

\* A connection shut down for writing.
LEMMA ClosingStep ==
  ASSUME Numbered, SocketInv, NEW s \in Sockets!Socks, socks[s].tcp = "established",
         socks' = [socks EXCEPT ![s].tcp = "closing"], UNCHANGED tables
  PROVE  SocketInv'
<1> DEFINE r == [socks[s] EXCEPT !.tcp = "closing"]
<1>1. socks \in [Sockets!Socks -> SocketRecords] /\ socks[s] \in SocketRecords /\ Alive(socks[s])
  BY SocketFacts
<1>2. socks' = [socks EXCEPT ![s] = r]
  OBVIOUS
<1>3. socks[s].life = "open" /\ socks[s].tcp # "listen"
  BY <1>1 DEF Alive
<1>4. r \in SocketRecords
  BY <1>1, SockFields
<1>5. /\ r.proto = socks[s].proto /\ r.bound = socks[s].bound /\ r.life = socks[s].life
      /\ r.parent = socks[s].parent /\ r.pend = socks[s].pend /\ r.gc = socks[s].gc
      /\ r.backlog = socks[s].backlog /\ r.lp = socks[s].lp /\ r.rp = socks[s].rp
      /\ r.tcp # "listen"
  BY <1>1 DEF SocketRecords
<1> HIDE DEF r
<1> QED
  BY <1>2, <1>3, <1>4, <1>5, StepOfFields

LEMMA ListenStep ==
  ASSUME Numbered, SocketInv, NEW s \in Sockets!Socks, Sockets!Listen(s, 2)
  PROVE  SocketInv'
<1> DEFINE v == [socks[s] EXCEPT !.tcp = "listen"]
           r == [v EXCEPT !.backlog = 2]
<1>1. socks \in [Sockets!Socks -> SocketRecords] /\ socks[s] \in SocketRecords /\ Alive(socks[s]) /\ CountedAt(socks, s)
  BY SocketFacts
<1>2. /\ socks' = [socks EXCEPT ![s] = r] /\ UNCHANGED tables
      /\ socks[s].life = "open" /\ socks[s].parent = 0 /\ socks[s].bound
  BY <1>1 DEF Sockets!Listen, Sockets!Mine, SocketRecords
<1>3. r \in SocketRecords
  <2>1. v \in SocketRecords
    BY <1>1, SockFields
  <2>2. 2 \in Int
    OBVIOUS
  <2> HIDE DEF v
  <2> QED
    BY <2>1, <2>2, SockFields
<1>4. /\ r.proto = socks[s].proto /\ r.bound = socks[s].bound /\ r.life = socks[s].life
      /\ r.parent = socks[s].parent /\ r.pend = socks[s].pend /\ r.gc = socks[s].gc
      /\ r.backlog = 2 /\ r.lp = socks[s].lp /\ r.rp = socks[s].rp /\ r.tcp = "listen"
  BY <1>1 DEF SocketRecords
<1> HIDE DEF v, r
<1>5. Alive(r)
  BY <1>1, <1>2, <1>4 DEF Alive
<1>6. socks'[s] = r /\ \A x \in Sockets!Socks : x # s => socks'[x] = socks[x]
  BY <1>1, <1>2
<1>7. CountedAt(socks', s)
  <2>1. Children(socks', s) = Children(socks, s)
    BY <1>1, <1>2, <1>4, <1>6 DEF Children
  <2>2. CASE socks[s].tcp = "listen"
    BY <1>1, <1>4, <1>6, <2>1, <2>2 DEF CountedAt, Alive
  <2>3. CASE socks[s].tcp # "listen"
    <3>1. socks[s].pend = 0 /\ \A c \in Sockets!Socks : socks[c].parent # s
      BY <1>1, <1>2, <2>3 DEF CountedAt
    <3>2. Children(socks', s) = {}
      BY <2>1, <3>1 DEF Children
    <3>3. Cardinality(Children(socks', s)) = 0
      BY <3>2, FS_EmptySet
    <3> QED
      BY <1>4, <1>6, <3>1, <3>3 DEF CountedAt
  <2> QED
    BY <2>2, <2>3
<1> QED
  BY <1>2, <1>3, <1>4, <1>5, <1>7, StepOfOne

\* The first child in the tree is handed to the application, and counts no more.
LEMMA AcceptStep ==
  ASSUME Numbered, SocketInv, NEW l \in Sockets!Socks, Sockets!Accept(l)
  PROVE  SocketInv'
<1>1. /\ socks \in [Sockets!Socks -> SocketRecords] /\ tables \in [{"udp", "tcp"} -> [Ports -> TreeType]]
      /\ SortedTables(socks, tables) /\ LivingSockets(socks) /\ Counted(socks)
  BY SocketFacts
<1>2. PICK c \in Sockets!Acceptable(l) : socks' = [socks EXCEPT ![c].parent = 0, ![l].pend = @ - 1]
  BY DEF Sockets!Accept
<1>3. /\ UNCHANGED tables /\ socks[l].life = "open" /\ socks[l].parent = 0
      /\ socks[l].bound /\ socks[l].tcp = "listen"
  BY DEF Sockets!Accept, Sockets!Mine
<1>4. c \in Sockets!Socks /\ c # l /\ socks[c].parent = l /\ socks[c].tcp = "established" /\ l # 0
  <2>1. /\ socks[l].proto \in {"none", "udp", "tcp"} /\ socks[l].proto # "none" /\ socks[l].lp \in Ports
    BY <1>1, <1>3, SocketFacts, SocketFieldTypes DEF Alive
  <2>2. Sockets!Tree(l) \in TreeType
    BY <1>1, <2>1 DEF Sockets!Tree
  <2> QED
    BY <1>2, <1>3, <2>2, NodesAreSockets DEF Sockets!Acceptable, Sockets!Socks
<1> DEFINE r == [socks[c] EXCEPT !.parent = 0]
           m == [socks[l] EXCEPT !.pend = socks[l].pend - 1]
<1>5. /\ socks'[c] = r /\ socks'[l] = m /\ DOMAIN socks' = Sockets!Socks
      /\ socks' = [x \in Sockets!Socks |-> IF x = c THEN r ELSE IF x = l THEN m ELSE socks[x]]
  BY <1>1, <1>2, <1>4
<1>6. r \in SocketRecords /\ m \in SocketRecords
  <2>1. socks[c] \in SocketRecords /\ socks[l] \in SocketRecords
    BY <1>1, <1>4
  <2>2. socks[l].pend - 1 \in Int /\ 0 \in Sockets!Socks \cup {0}
    BY <2>1, SocketFieldTypes
  <2> QED
    BY <2>1, <2>2, SockFields
<1>7. /\ r.proto = socks[c].proto /\ r.lp = socks[c].lp /\ r.rp = socks[c].rp /\ r.bound = socks[c].bound
      /\ r.tcp = "established" /\ r.life = socks[c].life /\ r.gc = socks[c].gc
      /\ r.parent = 0 /\ r.pend = socks[c].pend
  BY <1>1, <1>4 DEF SocketRecords
<1>8. /\ m.proto = socks[l].proto /\ m.lp = socks[l].lp /\ m.rp = socks[l].rp /\ m.bound = socks[l].bound
      /\ m.tcp = "listen" /\ m.life = "open" /\ m.gc = socks[l].gc
      /\ m.parent = 0 /\ m.pend = socks[l].pend - 1 /\ m.backlog = socks[l].backlog
  <2>1. socks[l] \in SocketRecords
    BY <1>1
  <2> QED
    BY <1>3, <2>1 DEF SocketRecords
<1> HIDE DEF r, m
<1>9. /\ socks' \in [Sockets!Socks -> SocketRecords]
      /\ \A x \in Sockets!Socks : x # c /\ x # l => socks'[x] = socks[x]
  BY <1>1, <1>5, <1>6
<1>10. SocketTypes'
  BY <1>1, <1>3, <1>9 DEF SocketTypes
<1>11. SortedTables(socks', tables')
  <2>1. \A x \in Sockets!Socks : SameIn(socks, socks', x)
    BY <1>4, <1>5, <1>7, <1>8, <1>9 DEF SameIn
  <2> QED
    BY <1>1, <1>3, <2>1, SortedSame
<1>12. socks[c].life = "open" /\ socks[c].pend = 0 /\ (\A x \in Sockets!Socks : socks[x].parent # c)
  <2>1. Alive(socks[c]) /\ CountedAt(socks, c)
    BY <1>4, SocketFacts
  <2>2. socks[c].life = "open"
    BY <1>4, <2>1 DEF Alive
  <2> QED
    BY <1>4, <2>1, <2>2 DEF CountedAt
<1>13. LivingSockets(socks')
  <2>1. Alive(socks[c]) /\ Alive(socks[l])
    BY <1>4, SocketFacts
  <2>2. Alive(r) /\ r.parent # c
    BY <1>4, <1>7, <1>12, <2>1 DEF Alive, Sockets!Socks
  <2>3. Alive(m) /\ m.parent # l
    BY <1>3, <1>4, <1>8, <2>1 DEF Alive
  <2> QED
    BY <1>1, <1>4, <1>5, <1>9, <2>2, <2>3 DEF LivingSockets
<1>14. Counted(socks')
  <2> SUFFICES ASSUME NEW x \in Sockets!Socks PROVE CountedAt(socks', x)
    BY DEF Counted
  <2>1. CountedAt(socks, x) /\ x # 0
    BY SocketFacts
  <2>2. \A y \in Sockets!Socks : /\ socks'[y].life = socks[y].life
                                 /\ socks'[y].parent = IF y = c THEN 0 ELSE socks[y].parent
    BY <1>3, <1>4, <1>5, <1>7, <1>8, <1>9
  <2>3. CASE x = l
    <3>1. Children(socks', l) = Children(socks, l) \ {c}
      BY <1>4, <2>2 DEF Children
    <3>2. c \in Children(socks, l)
      BY <1>4, <1>12 DEF Children
    <3>3. /\ Cardinality(Children(socks', l)) = Cardinality(Children(socks, l)) - 1
          /\ Cardinality(Children(socks, l)) \in Nat
      BY <1>4, <3>1, <3>2, ChildGone, ChildrenFinite
    <3>4. socks[l].backlog \in Int /\ socks[l].pend \in Int
      BY <1>1, SocketFieldTypes
    <3>5. socks[l].pend = Cardinality(Children(socks, l)) /\ socks[l].pend <= socks[l].backlog
      BY <1>3, <2>1, <2>3 DEF CountedAt
    <3>6. /\ socks'[l].tcp = "listen" /\ socks'[l].pend = Cardinality(Children(socks', l))
          /\ socks'[l].pend <= socks'[l].backlog
      BY <1>5, <1>8, <3>3, <3>4, <3>5
    <3>7. CountedAt(socks', l)
      BY <3>6 DEF CountedAt
    <3> QED
      BY <2>3, <3>7
  <2>4. CASE x = c
    <3>1. socks'[c].tcp # "listen" /\ socks'[c].pend = 0
      BY <1>5, <1>7, <1>12
    <3>2. \A y \in Sockets!Socks : socks'[y].parent # c
      BY <1>12, <2>1, <2>2, <2>4
    <3> QED
      BY <2>4, <3>1, <3>2 DEF CountedAt
  <2>5. CASE x # l /\ x # c
    <3>1. socks'[x] = socks[x] /\ Children(socks', x) = Children(socks, x)
      BY <1>4, <1>9, <2>1, <2>2, <2>5 DEF Children
    <3>2. (\A y \in Sockets!Socks : socks[y].parent # x) => \A y \in Sockets!Socks : socks'[y].parent # x
      BY <2>1, <2>2
    <3> QED
      BY <2>1, <3>1, <3>2 DEF CountedAt
  <2> QED
    BY <2>3, <2>4, <2>5
<1> QED
  BY <1>3, <1>10, <1>11, <1>13, <1>14 DEF SocketInv

\* A deletion frees no place twice: the socket is open and in the tables.
LEMMA DelStep ==
  ASSUME Numbered, SocketInv, NEW s \in Sockets!Socks, Sockets!Del(socks, s),
         socks[s].life = "open", socks[s].bound
  PROVE  SocketInv'
<1>1. /\ socks \in [Sockets!Socks -> SocketRecords] /\ tables \in [{"udp", "tcp"} -> [Ports -> TreeType]]
      /\ SortedTables(socks, tables) /\ LivingSockets(socks) /\ Counted(socks)
      /\ socks[s] \in SocketRecords /\ Alive(socks[s]) /\ CountedAt(socks, s) /\ socks[s].parent # s /\ s # 0
  BY SocketFacts
<1>2. CASE tables[socks[s].proto][socks[s].lp] = Sockets!Empty
  <2>1. UNCHANGED <<socks, tables>>
    BY <1>2 DEF Sockets!Del
  <2> QED
    BY <2>1 DEF SocketInv, SocketTypes
<1>3. CASE tables[socks[s].proto][socks[s].lp] # Sockets!Empty
  <2> DEFINE dad == socks[s].parent
             z == Sockets!Zombie(socks, s)
             T == [socks EXCEPT ![s] = z]
  <2>1. /\ tables' = [tables EXCEPT ![socks[s].proto][socks[s].lp] = Sockets!Delete(socks, @, s)]
        /\ socks' = IF dad # 0 THEN [T EXCEPT ![dad].pend = @ - 1] ELSE T
    BY <1>3 DEF Sockets!Del
  <2>2. /\ socks[s].proto \in {"udp", "tcp"} /\ socks[s].lp \in Ports /\ socks[s].gc = 0
    BY <1>1, SocketFieldTypes DEF Alive
  <2>3. /\ z.proto = socks[s].proto /\ z.lp = socks[s].lp /\ z.rp = socks[s].rp
        /\ z.parent = dad /\ z.life = "zombie" /\ z.gc = 1 /\ z.bound = FALSE /\ z.tcp = "none"
        /\ z.pend = 0
    BY <2>2 DEF Sockets!Zombie, Sockets!Nothing
  <2>4. z \in SocketRecords
    <3> DEFINE a == [Sockets!Nothing EXCEPT !.proto = socks[s].proto]
               b == [a EXCEPT !.lp = socks[s].lp]
               d == [b EXCEPT !.rp = socks[s].rp]
               e == [d EXCEPT !.parent = dad]
               f == [e EXCEPT !.life = "zombie"]
               g == [f EXCEPT !.gc = 1]
    <3>1. dad \in Sockets!Socks \cup {0} /\ socks[s].rp \in Int
      BY <1>1, SocketFieldTypes
    <3>2. Sockets!Nothing \in SocketRecords
      BY DEF Numbered, Sockets!Nothing, SocketRecords
    <3>3. a \in SocketRecords
      BY <2>2, <3>2 DEF SocketRecords
    <3>4. b \in SocketRecords
      <4> HIDE DEF a
      <4> QED
        BY <2>2, <3>3, SockFields
    <3>5. d \in SocketRecords
      <4> HIDE DEF b
      <4> QED
        BY <3>1, <3>4, SockFields
    <3>6. e \in SocketRecords
      <4> HIDE DEF d
      <4> QED
        BY <3>1, <3>5, SockFields
    <3>7. f \in SocketRecords
      <4> HIDE DEF e
      <4> QED
        BY <3>6 DEF SocketRecords
    <3>8. g \in SocketRecords
      <4> HIDE DEF f
      <4> QED
        BY <3>7 DEF SocketRecords
    <3>9. z = g
      BY <2>2 DEF Sockets!Zombie, Sockets!Nothing
    <3> QED
      BY <3>8, <3>9
  <2> DEFINE m == [socks[dad] EXCEPT !.pend = socks[dad].pend - 1]
  <2>5. dad \in Sockets!Socks \cup {0} /\ dad # s
    BY <1>1, SocketFieldTypes
  <2> HIDE DEF z
  <2>6. socks' = [x \in Sockets!Socks |-> IF x = s THEN z ELSE IF x = dad THEN m ELSE socks[x]]
    <3>0. \A x \in Sockets!Socks : x # 0
      BY DEF Sockets!Socks
    <3>1. CASE dad = 0
      BY <1>1, <2>1, <3>0, <3>1
    <3>2. CASE dad # 0
      BY <1>1, <2>1, <2>5, <3>2
    <3> QED
      BY <3>1, <3>2
  <2>7. dad \in Sockets!Socks => /\ m \in SocketRecords /\ m.proto = socks[dad].proto /\ m.lp = socks[dad].lp
                                 /\ m.rp = socks[dad].rp /\ m.bound = socks[dad].bound
                                 /\ m.tcp = socks[dad].tcp /\ m.life = socks[dad].life /\ m.gc = socks[dad].gc
                                 /\ m.parent = socks[dad].parent /\ m.pend = socks[dad].pend - 1
                                 /\ m.backlog = socks[dad].backlog
    <3> SUFFICES ASSUME dad \in Sockets!Socks
                 PROVE  /\ m \in SocketRecords /\ m.proto = socks[dad].proto /\ m.lp = socks[dad].lp
                        /\ m.rp = socks[dad].rp /\ m.bound = socks[dad].bound
                        /\ m.tcp = socks[dad].tcp /\ m.life = socks[dad].life /\ m.gc = socks[dad].gc
                        /\ m.parent = socks[dad].parent /\ m.pend = socks[dad].pend - 1
                        /\ m.backlog = socks[dad].backlog
      OBVIOUS
    <3>1. socks[dad] \in SocketRecords
      BY <1>1
    <3>2. socks[dad].pend - 1 \in Int
      BY <3>1, SocketFieldTypes
    <3>3. m \in SocketRecords
      BY <3>1, <3>2, SockFields
    <3> QED
      BY <3>1, <3>3 DEF SocketRecords
  <2> HIDE DEF m
  <2>8. /\ socks' \in [Sockets!Socks -> SocketRecords] /\ socks'[s] = z
        /\ dad \in Sockets!Socks => socks'[dad] = m
        /\ \A x \in Sockets!Socks : x # s /\ x # dad => socks'[x] = socks[x]
    BY <1>1, <2>4, <2>5, <2>6, <2>7
  <2>9. tables' \in [{"udp", "tcp"} -> [Ports -> TreeType]] /\ SortedTables(socks', tables')
    <3>1. \A x \in Sockets!Socks : socks[x].rp \in Int
      BY <1>1, SocketFieldTypes
    <3>2. \A x \in Sockets!Socks : x # s => SameIn(socks, socks', x)
      BY <2>7, <2>8 DEF SameIn
    <3>3. DeletedFrom(socks, socks', tables, s, tables')
      BY <2>1, <2>2, <3>1, <3>2 DEF DeletedFrom
    <3>4. s \in Sockets!Socks
      OBVIOUS
    <3> QED
      BY ONLY <1>1, <3>3, <3>4, SortedDelete
  <2>10. LivingSockets(socks')
    <3>1. Alive(z) /\ z.parent # s
      BY <2>2, <2>3, <2>5 DEF Alive
    <3>2. ASSUME dad \in Sockets!Socks PROVE Alive(m) /\ m.parent # dad
      <4>1. Alive(socks[dad]) /\ socks[dad].parent # dad
        BY <3>2, SocketFacts
      <4>2. socks[dad].life # "none"
        <5>1. CountedAt(socks, dad)
          BY <3>2, SocketFacts
        <5>2. socks[dad].life = "none" => socks[dad].tcp # "listen"
          BY <4>1 DEF Alive
        <5> QED
          BY <5>1, <5>2 DEF CountedAt
      <4> QED
        BY <2>7, <3>2, <4>1, <4>2 DEF Alive
    <3> QED
      BY <1>1, <2>5, <2>8, <3>1, <3>2 DEF LivingSockets
  <2>11. Counted(socks')
    <3> SUFFICES ASSUME NEW x \in Sockets!Socks PROVE CountedAt(socks', x)
      BY DEF Counted
    <3>1. CountedAt(socks, x) /\ x # 0
      BY SocketFacts
    <3>2. \A y \in Sockets!Socks : /\ socks'[y].parent = socks[y].parent
                                   /\ y # s => socks'[y].life = socks[y].life
      BY <2>3, <2>7, <2>8
    <3>3. (\A y \in Sockets!Socks : socks[y].parent # x) => \A y \in Sockets!Socks : socks'[y].parent # x
      BY <3>2
    <3>4. CASE x = s
      BY <2>3, <2>8, <3>4 DEF CountedAt
    <3>5. CASE x = dad /\ x # s
      <4>1. Children(socks', x) = Children(socks, x) \ {s} /\ s \in Children(socks, x)
        BY <2>3, <2>8, <3>2, <3>5 DEF Children
      <4>2. /\ Cardinality(Children(socks', x)) = Cardinality(Children(socks, x)) - 1
            /\ Cardinality(Children(socks, x)) \in Nat
        BY <4>1, ChildGone, ChildrenFinite
      <4>3. socks[x].backlog \in Int /\ socks[x].pend \in Int
        BY <1>1, SocketFieldTypes
      <4>4. /\ socks'[x].tcp = socks[x].tcp /\ socks'[x].pend = socks[x].pend - 1
            /\ socks'[x].backlog = socks[x].backlog /\ socks'[x].life = socks[x].life
        BY <2>7, <2>8, <3>5
      <4>5. CASE socks[x].tcp = "listen"
        <5>1. socks[x].pend = Cardinality(Children(socks, x)) /\ socks[x].pend <= socks[x].backlog
          BY <3>1, <4>5 DEF CountedAt
        <5>2. /\ socks'[x].tcp = "listen" /\ socks'[x].pend = Cardinality(Children(socks', x))
              /\ socks'[x].pend <= socks'[x].backlog
          BY <4>2, <4>3, <4>4, <4>5, <5>1
        <5> QED
          BY <5>2 DEF CountedAt
      <4>6. CASE socks[x].tcp # "listen"
        BY <3>1, <3>5, <4>4, <4>6 DEF CountedAt
      <4> QED
        BY <4>5, <4>6
    <3>6. CASE x # dad /\ x # s
      <4>1. socks'[x] = socks[x]
        BY <2>8, <3>6
      <4>2. Children(socks', x) = Children(socks, x)
        BY <2>3, <2>8, <3>2, <3>6 DEF Children
      <4> QED
        BY <3>1, <3>3, <4>1, <4>2 DEF CountedAt
    <3> QED
      BY <3>4, <3>5, <3>6
  <2> QED
    BY <2>8, <2>9, <2>10, <2>11 DEF SocketInv, SocketTypes
<1> QED
  BY <1>2, <1>3

\* An unbound socket, or a deleted one whose timer fires, is freed.
LEMMA FreeStep ==
  ASSUME Numbered, SocketInv, NEW s \in Sockets!Socks, NEW r \in SocketRecords,
         socks' = [socks EXCEPT ![s] = r], UNCHANGED tables,
         r.proto = socks[s].proto, r.life = "gone", r.bound = FALSE, r.tcp = "none",
         r.gc = 0, r.parent = 0, ~socks[s].bound, socks[s].life # "none",
         socks[s].life = "open" => socks[s].parent = 0
  PROVE  SocketInv'
<1>1. /\ socks \in [Sockets!Socks -> SocketRecords] /\ socks[s] \in SocketRecords /\ Alive(socks[s])
  BY SocketFacts
<1>2. Alive(r) /\ \A l \in Sockets!Socks : l # 0
  BY <1>1 DEF Alive, Sockets!Socks
<1>3. CountedAt(socks', s)
  BY <1>1 DEF CountedAt
<1> QED
  BY <1>2, <1>3, StepOfOne

LEMMA GoneRecord ==
  ASSUME Numbered, NEW x \in {"none", "udp", "tcp"}
  PROVE  /\ [Sockets!Nothing EXCEPT !.proto = x, !.life = "gone"] \in SocketRecords
         /\ [Sockets!Nothing EXCEPT !.proto = x, !.life = "gone", !.gc = 0] \in SocketRecords
<1> DEFINE a == [Sockets!Nothing EXCEPT !.proto = x]
           b == [a EXCEPT !.life = "gone"]
           d == [b EXCEPT !.gc = 0]
<1>1. Sockets!Nothing \in SocketRecords /\ 0 \in 0 .. 1
  BY DEF Numbered, Sockets!Nothing, SocketRecords
<1>2. a \in SocketRecords
  BY <1>1 DEF SocketRecords
<1>3. b \in SocketRecords
  <2> HIDE DEF a
  <2> QED
    BY <1>2 DEF SocketRecords
<1>4. d \in SocketRecords
  <2> HIDE DEF b
  <2> QED
    BY <1>1, <1>3 DEF SocketRecords
<1>5. b = [Sockets!Nothing EXCEPT !.proto = x, !.life = "gone"]
  BY DEF Sockets!Nothing
<1>6. d = [Sockets!Nothing EXCEPT !.proto = x, !.life = "gone", !.gc = 0]
  BY DEF Sockets!Nothing
<1> QED
  BY <1>3, <1>4, <1>5, <1>6

LEMMA CollectStep ==
  ASSUME Numbered, SocketInv, NEW s \in Sockets!Socks, Sockets!Collect(s)
  PROVE  SocketInv'
<1>1. socks[s] \in SocketRecords /\ Alive(socks[s])
  BY SocketFacts
<1>2. socks[s].gc = 1
  BY <1>1, SocketFieldTypes DEF Sockets!Collect
<1>3. socks[s].life = "zombie" /\ ~socks[s].bound /\ socks[s].gc - 1 = 0
  BY <1>1, <1>2 DEF Alive
<1> DEFINE r == [Sockets!Nothing EXCEPT !.proto = socks[s].proto, !.life = "gone", !.gc = 0]
<1>4. socks' = [socks EXCEPT ![s] = r] /\ UNCHANGED tables
  BY <1>3 DEF Sockets!Collect
<1>5. r \in SocketRecords
  BY <1>1, SocketFieldTypes, GoneRecord
<1>6. /\ r.proto = socks[s].proto /\ r.life = "gone" /\ r.bound = FALSE /\ r.tcp = "none"
      /\ r.gc = 0 /\ r.parent = 0
  BY DEF Sockets!Nothing
<1> HIDE DEF r
<1> QED
  BY <1>3, <1>4, <1>5, <1>6, FreeStep

LEMMA ShutdownStep ==
  ASSUME Numbered, SocketInv, NEW s \in Sockets!Socks, NEW mode, Sockets!Shutdown(s, mode), socks[s].parent = 0
  PROVE  SocketInv'
<1>1. socks[s].life = "open"
  BY DEF Sockets!Shutdown, Sockets!MayShut
<1>2. CASE ~socks[s].bound
  <2> DEFINE r == [Sockets!Nothing EXCEPT !.proto = socks[s].proto, !.life = "gone"]
  <2>1. socks' = [socks EXCEPT ![s] = r] /\ UNCHANGED tables
    BY <1>1, <1>2 DEF Sockets!Shutdown
  <2>2. r \in SocketRecords
    BY SocketFacts, SocketFieldTypes, GoneRecord
  <2>3. /\ r.proto = socks[s].proto /\ r.life = "gone" /\ r.bound = FALSE /\ r.tcp = "none"
        /\ r.gc = 0 /\ r.parent = 0
    BY DEF Sockets!Nothing
  <2> HIDE DEF r
  <2> QED
    BY <1>1, <1>2, <2>1, <2>2, <2>3, FreeStep
<1>3. CASE socks[s].bound /\ socks[s].proto = "udp"
  <2>1. Sockets!Del(socks, s)
    BY <1>3 DEF Sockets!Shutdown
  <2> QED
    BY <1>1, <1>3, <2>1, DelStep
<1>4. CASE socks[s].bound /\ socks[s].proto # "udp"
  <2>1. /\ socks[s].tcp = "established" /\ UNCHANGED tables
        /\ socks' = [socks EXCEPT ![s].tcp = "closing"]
    BY <1>4 DEF Sockets!Shutdown
  <2> QED
    BY <2>1, ClosingStep
<1> QED
  BY <1>2, <1>3, <1>4

LEMMA CloseStep ==
  ASSUME Numbered, SocketInv, NEW s \in Sockets!Socks, Sockets!Close(s)
  PROVE  SocketInv'
<1>1. CASE socks[s].tcp = "listen"
  <2>1. Alive(socks[s])
    BY SocketFacts
  <2>2. Sockets!Del(socks, s) /\ socks[s].life = "open" /\ socks[s].bound
    BY <1>1, <2>1 DEF Sockets!Close, Alive
  <2> QED
    BY <2>2, DelStep
<1>2. CASE socks[s].tcp # "listen"
  BY <1>2, ShutdownStep DEF Sockets!Close
<1> QED
  BY <1>1, <1>2

LEMMA UserShutdownStep ==
  ASSUME Numbered, SocketInv, NEW s \in Sockets!Socks, NEW mode, Sockets!UserShutdown(s, mode)
  PROVE  SocketInv'
BY ShutdownStep DEF Sockets!UserShutdown

LEMMA TcpEndStep ==
  ASSUME Numbered, SocketInv, NEW s \in Sockets!Socks, Sockets!TcpEnd(s)
  PROVE  SocketInv'
BY DelStep DEF Sockets!TcpEnd

LEMMA CloneRecord ==
  ASSUME Numbered, NEW a \in Addrs, NEW p \in Ports, NEW ra \in Remotes, NEW rp \in Int,
         NEW l \in Sockets!Socks
  PROVE  [Sockets!Nothing EXCEPT !.proto = "tcp", !.life = "open", !.conn = TRUE,
            !.tcp = "syn_recv", !.la = a, !.lp = p, !.ra = ra, !.rp = rp, !.parent = l] \in SocketRecords
<1> DEFINE b == [Sockets!Nothing EXCEPT !.proto = "tcp"]
           d == [b EXCEPT !.life = "open"]
           e == [d EXCEPT !.conn = TRUE]
           f == [e EXCEPT !.tcp = "syn_recv"]
           g == [f EXCEPT !.la = a]
           h == [g EXCEPT !.lp = p]
           i == [h EXCEPT !.ra = ra]
           j == [i EXCEPT !.rp = rp]
           k == [j EXCEPT !.parent = l]
<1>1. Sockets!Nothing \in SocketRecords
  BY DEF Numbered, Sockets!Nothing, SocketRecords
<1>2. b \in SocketRecords
  BY <1>1 DEF SocketRecords
<1>3. d \in SocketRecords
  <2> HIDE DEF b
  <2> QED
    BY <1>2 DEF SocketRecords
<1>4. e \in SocketRecords
  <2> HIDE DEF d
  <2> QED
    BY <1>3, SockFields
<1>5. f \in SocketRecords
  <2> HIDE DEF e
  <2> QED
    BY <1>4, SockFields
<1>6. g \in SocketRecords
  <2> HIDE DEF f
  <2> QED
    BY <1>5, SockFields
<1>7. h \in SocketRecords
  <2> HIDE DEF g
  <2> QED
    BY <1>6, SockFields
<1>8. i \in SocketRecords
  <2> HIDE DEF h
  <2> QED
    BY <1>7, SockFields
<1>9. j \in SocketRecords
  <2> HIDE DEF i
  <2> QED
    BY <1>8, SockFields
<1>10. k \in SocketRecords
  <2> HIDE DEF j
  <2> QED
    BY <1>9, SockFields
<1>11. k = [Sockets!Nothing EXCEPT !.proto = "tcp", !.life = "open", !.conn = TRUE,
              !.tcp = "syn_recv", !.la = a, !.lp = p, !.ra = ra, !.rp = rp, !.parent = l]
  BY DEF Sockets!Nothing
<1> QED
  BY <1>10, <1>11

\* A SYN that the listener has room for makes a child, in the table at once.
LEMMA SynStep ==
  ASSUME Numbered, SocketInv, NEW p \in Ports, NEW a \in Addrs, NEW ra \in Remotes,
         NEW rp \in Numbers, Sockets!Syn(p, a, ra, rp)
  PROVE  SocketInv'
<1>1. /\ socks \in [Sockets!Socks -> SocketRecords] /\ tables \in [{"udp", "tcp"} -> [Ports -> TreeType]]
      /\ SortedTables(socks, tables) /\ LivingSockets(socks) /\ Counted(socks)
  BY DEF SocketInv, SocketTypes
<1> DEFINE New(x) == [Sockets!Nothing EXCEPT !.proto = "tcp", !.life = "open", !.conn = TRUE,
                        !.tcp = "syn_recv", !.la = a, !.lp = p, !.ra = ra, !.rp = rp,
                        !.parent = x]
<1>2. PICK l \in Sockets!FirstMatch(p, a, ra, rp), c \in Sockets!Socks :
        /\ socks[l].tcp = "listen" /\ Sockets!Room(l) /\ socks[c].life = "none"
        /\ Sockets!Add([socks EXCEPT ![l].pend = @ + 1, ![c] = New(l)], c)
  BY DEF Sockets!Syn
<1> DEFINE v == New(l)
           m == [socks[l] EXCEPT !.pend = socks[l].pend + 1]
           r == [v EXCEPT !.bound = TRUE]
           S == [x \in Sockets!Socks |-> IF x = c THEN v ELSE IF x = l THEN m ELSE socks[x]]
<1>3. l \in Sockets!Socks /\ tables["tcp"][p] \in TreeType
  BY <1>1, NodesAreSockets DEF Sockets!FirstMatch
<1>4. /\ socks[l] \in SocketRecords /\ Alive(socks[l]) /\ CountedAt(socks, l) /\ l # 0
      /\ socks[c] \in SocketRecords /\ Alive(socks[c]) /\ CountedAt(socks, c) /\ c # 0
  BY <1>3, SocketFacts
<1>5. /\ socks[l].life = "open" /\ socks[l].bound /\ l # c /\ socks[l].parent = 0
      /\ ~socks[c].bound /\ socks[c].parent = 0 /\ socks[c].pend = 0
      /\ \A x \in Sockets!Socks : socks[x].parent # c
  <2>1. socks[l].life = "open" /\ socks[l].bound /\ socks[l].parent = 0
    BY <1>2, <1>4 DEF Alive
  <2>2. ~socks[c].bound /\ socks[c].parent = 0 /\ socks[c].pend = 0 /\ socks[c].tcp # "listen"
    BY <1>2, <1>4 DEF Alive
  <2>3. \A x \in Sockets!Socks : socks[x].parent # c
    BY <1>2, <1>4, <2>2 DEF CountedAt
  <2> QED
    BY <1>2, <2>1, <2>2, <2>3
<1>6. v \in SocketRecords
  BY <1>3, CloneRecord DEF Numbered
<1>7. /\ v.proto = "tcp" /\ v.lp = p /\ v.rp = rp /\ v.bound = FALSE
  BY DEF Sockets!Nothing
<1>8. /\ r.proto = "tcp" /\ r.lp = p /\ r.rp = rp /\ r.bound /\ r.life = "open" /\ r.tcp = "syn_recv"
      /\ r.parent = l /\ r.pend = 0 /\ r.gc = 0
  BY DEF Sockets!Nothing
<1>9. r \in SocketRecords
  <2> HIDE DEF v
  <2> QED
    BY <1>6, SockFields
<1>10. /\ m \in SocketRecords /\ m.proto = socks[l].proto /\ m.lp = socks[l].lp /\ m.rp = socks[l].rp
       /\ m.bound = socks[l].bound /\ m.tcp = socks[l].tcp /\ m.life = socks[l].life
       /\ m.gc = socks[l].gc /\ m.parent = socks[l].parent /\ m.pend = socks[l].pend + 1
       /\ m.backlog = socks[l].backlog
  <2>1. socks[l].pend + 1 \in Int
    BY <1>4, SocketFieldTypes
  <2>2. m \in SocketRecords
    BY <1>4, <2>1, SockFields
  <2> QED
    BY <1>4, <2>2 DEF SocketRecords
<1> HIDE DEF v, m
<1>11. [socks EXCEPT ![l].pend = @ + 1, ![c] = v] = S
  BY <1>1, <1>3, <1>5 DEF m
<1>12. Sockets!Add(S, c)
  BY <1>2, <1>11 DEF v
<1>13. S \in [Sockets!Socks -> SocketRecords] /\ S[c] = v /\ S[l] = m /\ \A x \in Sockets!Socks : x # c /\ x # l => S[x] = socks[x]
  BY <1>1, <1>3, <1>5, <1>6, <1>10
<1> HIDE DEF S
<1>14. /\ tables' = [tables EXCEPT !["tcp"][p] = Sockets!Insert(S, @, c)]
       /\ socks' = [S EXCEPT ![c] = r]
  BY <1>7, <1>12, <1>13 DEF Sockets!Add
<1> HIDE DEF r
<1>15. /\ socks' \in [Sockets!Socks -> SocketRecords] /\ socks'[c] = r /\ socks'[l] = m
       /\ \A x \in Sockets!Socks : x # c /\ x # l => socks'[x] = socks[x]
  BY <1>3, <1>5, <1>9, <1>13, <1>14
<1>16. tables' \in [{"udp", "tcp"} -> [Ports -> TreeType]] /\ SortedTables(socks', tables')
  <2>1. \A x \in Sockets!Socks : S[x].rp \in Int /\ socks[x].rp \in Int
    BY <1>1, <1>13, SocketFieldTypes
  <2>2. \A x \in Sockets!Socks : x # c => SameIn(socks, S, x) /\ SameIn(socks, socks', x)
    BY <1>5, <1>10, <1>13, <1>15 DEF SameIn
  <2>3. AddedTo(socks, S, socks', tables, c, tables')
    BY <1>5, <1>7, <1>8, <1>13, <1>14, <1>15, <2>1, <2>2 DEF AddedTo
  <2>4. c \in Sockets!Socks
    OBVIOUS
  <2> QED
    BY ONLY <1>1, <2>3, <2>4, SortedAdd
<1>17. LivingSockets(socks')
  <2>1. Alive(r) /\ r.parent # c
    BY <1>4, <1>5, <1>8 DEF Alive, Numbered
  <2>2. Alive(m) /\ m.parent # l
    BY <1>4, <1>5, <1>10 DEF Alive
  <2> QED
    BY <1>1, <1>15, <2>1, <2>2 DEF LivingSockets
<1>18. Counted(socks')
  <2> SUFFICES ASSUME NEW x \in Sockets!Socks PROVE CountedAt(socks', x)
    BY DEF Counted
  <2>1. CountedAt(socks, x) /\ x # 0
    BY SocketFacts
  <2>2. \A y \in Sockets!Socks : y # c => socks'[y].parent = socks[y].parent /\ socks'[y].life = socks[y].life
    BY <1>10, <1>15
  <2>3. CASE x = c
    <3>1. \A y \in Sockets!Socks : socks'[y].parent # c
      BY <1>5, <1>8, <1>15, <2>2
    <3> QED
      BY <1>8, <1>15, <2>3, <3>1 DEF CountedAt
  <2>4. CASE x = l
    <3>1. Children(socks', l) = Children(socks, l) \cup {c} /\ c \notin Children(socks, l)
      BY <1>4, <1>5, <1>8, <1>15, <2>2 DEF Children
    <3>2. /\ Cardinality(Children(socks', l)) = Cardinality(Children(socks, l)) + 1
          /\ Cardinality(Children(socks, l)) \in Nat
      BY <1>3, <3>1, ChildCome, ChildrenFinite
    <3>3. socks[l].backlog \in Int /\ socks[l].pend \in Int
      BY <1>4, SocketFieldTypes
    <3>4. socks[l].pend = Cardinality(Children(socks, l)) /\ socks[l].pend < socks[l].backlog
      BY <1>2, <1>4 DEF CountedAt, Sockets!Room
    <3>5. /\ socks'[l].tcp = "listen" /\ socks'[l].pend = Cardinality(Children(socks', l))
          /\ socks'[l].pend <= socks'[l].backlog
      BY <1>2, <1>10, <1>15, <3>2, <3>3, <3>4
    <3>6. CountedAt(socks', l)
      BY <3>5 DEF CountedAt
    <3> QED
      BY <2>4, <3>6
  <2>5. CASE x # c /\ x # l
    <3>1. socks'[x] = socks[x]
      BY <1>15, <2>5
    <3>2. Children(socks', x) = Children(socks, x)
      BY <1>5, <1>8, <1>15, <2>1, <2>2, <2>5 DEF Children
    <3>3. (\A y \in Sockets!Socks : socks[y].parent # x) => \A y \in Sockets!Socks : socks'[y].parent # x
      BY <1>8, <1>15, <2>2, <2>5
    <3> QED
      BY <2>1, <3>1, <3>2, <3>3 DEF CountedAt
  <2> QED
    BY <2>3, <2>4, <2>5
<1> QED
  BY <1>15, <1>16, <1>17, <1>18 DEF SocketInv, SocketTypes

LEMMA ConnectStep ==
  ASSUME Numbered, SocketInv, NEW s \in Sockets!Socks, NEW ra \in Remotes, NEW rp \in Numbers,
         Sockets!Connect(s, ra, rp)
  PROVE  SocketInv'
<1>1. /\ socks \in [Sockets!Socks -> SocketRecords] /\ socks[s] \in SocketRecords /\ Alive(socks[s])
      /\ tables \in [{"udp", "tcp"} -> [Ports -> TreeType]] /\ rp \in Int
  BY SocketFacts DEF Numbered
<1>2. /\ socks[s].life = "open" /\ socks[s].tcp # "listen"
      /\ socks[s].bound => Sockets!Nodes(Sockets!Tree(s)) \subseteq {s}
  BY DEF Sockets!Connect, Sockets!Mine, Sockets!MayMove, Numbered
<1> DEFINE After(p) == [socks EXCEPT ![s].rp = rp, ![s].ra = ra, ![s].lp = p]
           Joined(S) == [S EXCEPT ![s].la = Sockets!Home, ![s].conn = TRUE,
                          ![s].tcp = IF S[s].proto = "tcp" THEN "syn_sent" ELSE "none"]
<1>3. PICK p \in Sockets!HighPort(s) : \/ socks' = After(p) /\ UNCHANGED tables
                                       \/ Sockets!Add(Joined(After(p)), s)
  BY DEF Sockets!Connect
<1>4. p \in Ports /\ (socks[s].bound => p = socks[s].lp)
  BY <1>1, <1>3, SocketFieldTypes DEF Sockets!HighPort, Alive
<1> DEFINE a == [socks[s] EXCEPT !.rp = rp]
           b == [a EXCEPT !.ra = ra]
           u == [b EXCEPT !.lp = p]
<1>5. u \in SocketRecords
  <2>1. a \in SocketRecords
    BY <1>1, SockFields
  <2>2. b \in SocketRecords
    <3> HIDE DEF a
    <3> QED
      BY <2>1, SockFields
  <2> HIDE DEF b
  <2> QED
    BY <1>4, <2>2, SockFields
<1>6. /\ u.proto = socks[s].proto /\ u.lp = p /\ u.rp = rp /\ u.bound = socks[s].bound
      /\ u.life = socks[s].life /\ u.tcp = socks[s].tcp /\ u.parent = socks[s].parent
      /\ u.pend = socks[s].pend /\ u.gc = socks[s].gc /\ u.backlog = socks[s].backlog
  BY <1>1 DEF SocketRecords
<1>7. After(p) = [socks EXCEPT ![s] = u]
  BY <1>1
<1> HIDE DEF u, After
<1>8. CASE socks' = After(p) /\ UNCHANGED tables
  BY <1>2, <1>4, <1>5, <1>6, <1>7, <1>8, StepOfFields
<1>9. CASE Sockets!Add(Joined(After(p)), s)
  <2> DEFINE t == IF u.proto = "tcp" THEN "syn_sent" ELSE "none"
             d == [u EXCEPT !.la = Sockets!Home]
             e == [d EXCEPT !.conn = TRUE]
             v == [e EXCEPT !.tcp = t]
             r == [v EXCEPT !.bound = TRUE]
  <2>1. t \in {"none", "syn_sent"}
    OBVIOUS
  <2> HIDE DEF t
  <2>2. v \in SocketRecords
    <3>1. d \in SocketRecords
      BY <1>5, SockFields
    <3>2. e \in SocketRecords
      <4> HIDE DEF d
      <4> QED
        BY <3>1, SockFields
    <3> HIDE DEF e
    <3> QED
      BY <2>1, <3>2, SockFields
  <2>3. r \in SocketRecords
    <3> HIDE DEF v
    <3> QED
      BY <2>2, SockFields
  <2>4. /\ v.proto = u.proto /\ v.lp = u.lp /\ v.rp = u.rp
        /\ r.proto = u.proto /\ r.lp = u.lp /\ r.rp = u.rp /\ r.bound = TRUE
        /\ r.life = u.life /\ r.tcp = t /\ r.parent = u.parent
        /\ r.pend = u.pend /\ r.gc = u.gc
    BY <1>5 DEF SocketRecords
  <2>5. Joined(After(p)) = [socks EXCEPT ![s] = v]
    BY <1>1, <1>5, <1>7 DEF t
  <2> HIDE DEF v
  <2>6. /\ tables' = [tables EXCEPT ![v.proto][v.lp] = Sockets!Insert([socks EXCEPT ![s] = v], @, s)]
        /\ socks' = [socks EXCEPT ![s] = r]
    BY <1>1, <1>9, <2>5 DEF Sockets!Add
  <2> HIDE DEF r
  <2>7. Alive(r) /\ r.proto \in {"udp", "tcp"} /\ r.tcp # "listen"
    BY <1>1, <1>2, <1>4, <1>6, <2>1, <2>4, SocketFieldTypes DEF Alive, Numbered
  <2>8. \/ ~socks[s].bound /\ v.rp = r.rp
        \/ Sockets!Nodes(tables[r.proto][r.lp]) \subseteq {s}
    BY <1>2, <1>4, <1>6, <2>4 DEF Sockets!Tree
  <2>9. socks[s].bound => socks[s].proto = r.proto /\ socks[s].lp = r.lp
    BY <1>4, <1>6, <2>4
  <2> QED
    BY <1>2, <1>4, <1>6, <2>2, <2>3, <2>4, <2>6, <2>7, <2>8, <2>9, StepOfAdd
<1> QED
  BY <1>3, <1>8, <1>9

LEMMA SendToStep ==
  ASSUME Numbered, SocketInv, NEW s \in Sockets!Socks, NEW rp \in Numbers, Sockets!SendTo(s, rp)
  PROVE  SocketInv'
<1>1. /\ socks \in [Sockets!Socks -> SocketRecords] /\ socks[s] \in SocketRecords /\ Alive(socks[s])
      /\ tables \in [{"udp", "tcp"} -> [Ports -> TreeType]] /\ rp \in Int
  BY SocketFacts DEF Numbered
<1>2. /\ socks[s].life = "open" /\ socks[s].proto = "udp"
      /\ socks[s].bound => Sockets!Nodes(Sockets!Tree(s)) \subseteq {s}
  BY DEF Sockets!SendTo, Sockets!Mine, Sockets!MayMove, Numbered
<1>3. socks[s].tcp # "listen" \/ socks[s].bound
  BY <1>1 DEF Alive
<1> DEFINE Sent(S) == IF S[s].conn THEN S ELSE [S EXCEPT ![s].rp = rp]
           S0 == [socks EXCEPT ![s].la = IF socks[s].conn THEN @ ELSE Sockets!Home]
           la == IF socks[s].conn THEN socks[s].la ELSE Sockets!Home
           to == IF socks[s].conn THEN socks[s].rp ELSE rp
           u == [socks[s] EXCEPT !.la = la]
<1>4. la \in Addrs \cup {Sockets!Home, "any"} /\ to \in Int
  BY <1>1 DEF SocketRecords
<1>5. S0 = [socks EXCEPT ![s] = u]
  BY <1>1
<1> HIDE DEF la, to
<1>6. u \in SocketRecords
  BY <1>1, <1>4, SockFields
<1>7. CASE socks[s].bound
  <2> DEFINE r == [u EXCEPT !.rp = to]
  <2>1. socks' = Sent(S0) /\ UNCHANGED tables
    BY <1>7 DEF Sockets!SendTo
  <2>2. r \in SocketRecords
    <3> HIDE DEF u
    <3> QED
      BY <1>4, <1>6, SockFields
  <2>3. /\ r.proto = socks[s].proto /\ r.bound = socks[s].bound /\ r.life = socks[s].life
        /\ r.parent = socks[s].parent /\ r.pend = socks[s].pend /\ r.gc = socks[s].gc
        /\ r.backlog = socks[s].backlog /\ r.lp = socks[s].lp /\ r.tcp = socks[s].tcp
    BY <1>1 DEF SocketRecords
  <2>4. Sent(S0) = [socks EXCEPT ![s] = r]
    BY <1>1, <1>5 DEF to, SocketRecords
  <2> HIDE DEF r
  <2> QED
    BY <1>2, <1>7, <2>1, <2>2, <2>3, <2>4, StepOfFields
<1>8. CASE ~socks[s].bound
  <2> DEFINE H(p) == [S0 EXCEPT ![s].lp = p]
  <2>1. PICK p \in Ports : /\ Sockets!Nodes(tables["udp"][p]) = {}
                           /\ tables' = [tables EXCEPT !["udp"][p] = Sockets!Insert(H(p), @, s)]
                           /\ socks' = Sent([H(p) EXCEPT ![s].bound = TRUE])
    BY <1>8 DEF Sockets!SendTo, Numbered
  <2> DEFINE v == [u EXCEPT !.lp = p]
             w == [v EXCEPT !.bound = TRUE]
             r == [w EXCEPT !.rp = to]
  <2>2. v \in SocketRecords /\ r \in SocketRecords
    <3>1. v \in SocketRecords
      <4> HIDE DEF u
      <4> QED
        BY <1>6, SockFields
    <3>2. w \in SocketRecords
      <4> HIDE DEF v
      <4> QED
        BY <3>1, SockFields
    <3>3. r \in SocketRecords
      <4> HIDE DEF w
      <4> QED
        BY <1>4, <3>2, SockFields
    <3> QED
      BY <3>1, <3>3
  <2>3. /\ r.proto = "udp" /\ r.bound = TRUE /\ r.life = "open" /\ r.lp = p
        /\ r.parent = socks[s].parent /\ r.pend = socks[s].pend /\ r.gc = socks[s].gc
        /\ r.tcp = socks[s].tcp
    BY <1>1, <1>2 DEF SocketRecords
  <2>4. H(p) = [socks EXCEPT ![s] = v]
    BY <1>1, <1>5
  <2>5. Sent([H(p) EXCEPT ![s].bound = TRUE]) = [socks EXCEPT ![s] = r]
    <3>1. v.conn = socks[s].conn /\ v.rp = socks[s].rp
      BY <1>1 DEF SocketRecords
    <3>2. [H(p) EXCEPT ![s].bound = TRUE] = [socks EXCEPT ![s] = w]
      BY <1>1, <2>4
    <3>3. w.conn = socks[s].conn /\ w.rp = socks[s].rp /\ w \in SocketRecords
      BY <1>1, <2>2 DEF SocketRecords
    <3>4. [w EXCEPT !.rp = w.rp] = w
      <4> HIDE DEF w
      <4> QED
        BY <3>3 DEF SocketRecords
    <3>5. [socks EXCEPT ![s] = w][s] = w
      BY <1>1
    <3>6. [[socks EXCEPT ![s] = w] EXCEPT ![s].rp = rp] = [socks EXCEPT ![s] = [w EXCEPT !.rp = rp]]
      <4> HIDE DEF w
      <4> QED
        BY <1>1
    <3> HIDE DEF w, H
    <3>7. CASE socks[s].conn
      BY <3>2, <3>3, <3>4, <3>5, <3>7 DEF to
    <3>8. CASE ~socks[s].conn
      BY <3>2, <3>3, <3>5, <3>6, <3>8 DEF to
    <3> QED
      BY <3>7, <3>8
  <2> HIDE DEF v, r, H
  <2>6. Alive(r) /\ r.tcp # "listen" /\ socks[s].tcp # "listen"
    <3>1. p # 0 /\ socks[s].tcp # "listen" /\ socks[s].gc = 0
      BY <1>1, <1>2, <1>3, <1>8, SocketFieldTypes DEF Alive, Numbered
    <3> QED
      BY <2>3, <3>1 DEF Alive
  <2> QED
    BY <1>2, <1>8, <2>1, <2>2, <2>3, <2>4, <2>5, <2>6, StepOfAdd
<1> QED
  BY <1>7, <1>8

LEMMA SocketStep ==
  ASSUME Numbered, SocketInv, Sockets!Next \/ UNCHANGED Sockets!vars
  PROVE  SocketInv'
<1>1. CASE UNCHANGED Sockets!vars
  BY <1>1 DEF Sockets!vars, SocketInv, SocketTypes
<1>2. ASSUME NEW s \in Sockets!Socks,
             \/ \E proto \in {"udp", "tcp"} : Sockets!Open(s, proto)
             \/ \E a \in Addrs, p \in Ports : Sockets!Bind(s, a, p)
             \/ \E ra \in Remotes, rp \in Numbers : Sockets!Connect(s, ra, rp)
             \/ Sockets!Listen(s, 2) \/ Sockets!Accept(s) \/ Sockets!Recv(s) \/ Sockets!Close(s)
             \/ \E rp \in Numbers : Sockets!SendTo(s, rp)
             \/ \E mode \in {{"rd"}, {"wr"}} : Sockets!UserShutdown(s, mode)
             \/ Sockets!Establish(s) \/ Sockets!TcpEnd(s) \/ Sockets!Collect(s)
      PROVE  SocketInv'
  BY <1>2, OpenStep, BindStep, ConnectStep, ListenStep, AcceptStep, RecvStep, CloseStep,
     SendToStep, UserShutdownStep, EstablishStep, TcpEndStep, CollectStep
<1>3. ASSUME NEW p \in Ports, NEW a \in Addrs \ {"any"},
             \/ Sockets!Datagram(p, a)
             \/ \E ra \in Remotes, rp \in Numbers : Sockets!Syn(p, a, ra, rp)
      PROVE  SocketInv'
  BY <1>3, DatagramStep, SynStep
<1> QED
  BY <1>1, <1>2, <1>3 DEF Sockets!Next

LEMMA SocketSafe ==
  ASSUME SocketInv
  PROVE  Sockets!TypeOK /\ Sockets!PendingAreChildren /\ Sockets!NothingDangles
<1>1. \A s \in Sockets!Socks : socks[s] \in SocketRecords /\ Alive(socks[s]) /\ CountedAt(socks, s)
  BY SocketFacts
<1>2. Sockets!TypeOK
  BY <1>1, SocketFieldTypes DEF Sockets!TypeOK, Alive
<1>3. Sockets!PendingAreChildren
  BY <1>1, SameCardinality DEF Sockets!PendingAreChildren, CountedAt, Children
<1>4. Sockets!NothingDangles
  BY <1>1 DEF Sockets!NothingDangles, SocketInv, SortedTables, Member, Alive
<1> QED
  BY <1>2, <1>3, <1>4

-----------------------------------------------------------------------------
(* Ipv4Routes: routes and links                                            *)

\* A metric has some number of bits, and no gateway has the address of everybody.
Metered == /\ \E n \in Nat : Metrics \subseteq 0 .. n
           /\ Routes!Broadcast \notin Gateways

MaxMetric == CHOOSE n \in Nat : n > 0 /\ Metrics \subseteq 0 .. n

LEMMA MetricsEnd ==
  ASSUME Metered
  PROVE  MaxMetric \in Nat /\ MaxMetric > 0 /\ Metrics \subseteq 0 .. MaxMetric
<1>1. PICK n \in Nat : Metrics \subseteq 0 .. n
  BY DEF Metered
<1>2. n + 1 \in Nat /\ n + 1 > 0 /\ Metrics \subseteq 0 .. (n + 1)
  BY <1>1
<1> QED
  BY <1>2 DEF MaxMetric

\* No two routes have one network and one metric.
Tidy(table, present) ==
  /\ \A r \in table : r.link \in present /\ r.metric \in 0 .. MaxMetric
  /\ \A r, s \in table : r.dest = s.dest /\ r.metric = s.metric => r = s

RoutesInv == /\ Tidy(routes, links)
             /\ {bcastLink, mcastLink} \subseteq links \cup {Routes!None}

LEMMA GreatestMetric ==
  ASSUME Metered, NEW present, NEW table, Tidy(table, present), NEW C \in SUBSET table, C # {}
  PROVE  \E r \in C : \A s \in C : s.metric <= r.metric
<1> DEFINE S == {MaxMetric - r.metric : r \in C}
<1>1. S \in SUBSET Nat /\ S # {}
  BY MetricsEnd DEF Tidy
<1>2. PICK n \in S : \A m \in S : ~(m < n)
  <2> HIDE DEF S
  <2> QED
    BY <1>1, LeastOf
<1>3. PICK r \in C : n = MaxMetric - r.metric
  BY <1>2
<1>4. ASSUME NEW s \in C PROVE s.metric <= r.metric
  <2>1. ~(MaxMetric - s.metric < MaxMetric - r.metric)
    BY <1>2, <1>3
  <2>2. s.metric \in Int /\ r.metric \in Int
    BY DEF Tidy
  <2> QED
    BY <2>1, <2>2, MetricsEnd
<1> QED
  BY <1>4

LEMMA BestRoute ==
  ASSUME Metered, NEW present, NEW table, Tidy(table, present), NEW a, a # Routes!Broadcast, Routes!Matches(table, a) # {}
  PROVE  /\ Routes!RouteFind(table, a) \in Routes!Matches(table, a)
         /\ \A s \in Routes!Matches(table, a) \ {Routes!RouteFind(table, a)} : Routes!Before(Routes!RouteFind(table, a), s)
<1> DEFINE M == Routes!Matches(table, a)
           C == IF \E r \in M : r.dest = Routes!NetworkOf(a) THEN {r \in M : r.dest = Routes!NetworkOf(a)} ELSE M
<1>1. M \subseteq table /\ \A r \in M : r.dest \in {Routes!Anywhere, Routes!NetworkOf(a)}
  BY DEF Routes!Matches
<1>2. C \in SUBSET table /\ C # {} /\ C \subseteq M
  BY <1>1
<1>3. PICK r \in C : \A s \in C : s.metric <= r.metric
  <2> HIDE DEF C
  <2> QED
    BY <1>2, GreatestMetric
<1>4. ASSUME NEW s \in M \ {r} PROVE Routes!Before(r, s)
  <2>1. r \in M /\ r \in table /\ s \in table
    BY <1>1, <1>2
  <2>2. CASE s.dest = r.dest
    <3>1. s \in C
      BY <1>1, <2>2
    <3>2. s.metric <= r.metric /\ s.metric # r.metric
      BY <1>3, <3>1, <2>1, <2>2 DEF Tidy
    <3>3. r.metric > s.metric
      BY <2>1, <3>2 DEF Tidy
    <3> QED
      BY <2>2, <3>3 DEF Routes!Before
  <2>3. CASE s.dest # r.dest
    <3>1. r.dest = Routes!NetworkOf(a) /\ r.dest # Routes!Anywhere /\ s.dest = Routes!Anywhere
      BY <1>1, <2>3
    <3> QED
      BY <3>1 DEF Routes!Before, Routes!Prefix
  <2> QED
    BY <2>2, <2>3
<1>5. r \in M
  BY <1>2
<1>6. Routes!RouteFind(table, a) = CHOOSE q \in M : \A s \in M \ {q} : Routes!Before(q, s)
  BY DEF Routes!RouteFind
<1> HIDE DEF M, C
<1>7. Routes!RouteFind(table, a) \in M /\ \A s \in M \ {Routes!RouteFind(table, a)} : Routes!Before(Routes!RouteFind(table, a), s)
  BY <1>4, <1>5, <1>6
<1> QED
  BY <1>7 DEF M

LEMMA RouteFields ==
  ASSUME NEW dest, NEW gateway, NEW metric, NEW link
  PROVE  /\ Routes!Route(dest, gateway, metric, link).dest = dest
         /\ Routes!Route(dest, gateway, metric, link).gateway = gateway
         /\ Routes!Route(dest, gateway, metric, link).metric = metric
         /\ Routes!Route(dest, gateway, metric, link).link = link
BY DEF Routes!Route

LEMMA AddedTidy ==
  ASSUME Metered, NEW present, NEW table, Tidy(table, present), NEW dest, NEW gateway, gateway # Routes!Broadcast,
         NEW metric \in 0 .. MaxMetric, NEW link, gateway = Routes!None => link \in present
  PROVE  Tidy(Routes!Added(table, dest, gateway, metric, link), present)
<1> DEFINE via == IF gateway = Routes!None THEN link ELSE Routes!RouteFind(table, gateway).link
           new == Routes!Route(dest, gateway, metric, via)
<1>1. CASE Routes!Added(table, dest, gateway, metric, link) = table
  BY <1>1
<1>2. CASE Routes!Added(table, dest, gateway, metric, link) # table
  <2>1. /\ ~Routes!Taken(table, dest, metric)
        /\ Routes!Added(table, dest, gateway, metric, link) = table \cup {new}
        /\ gateway # Routes!None => Routes!Matches(table, gateway) # {}
    BY <1>2 DEF Routes!Added, Routes!Reached
  <2>2. via \in present
    BY <2>1, BestRoute DEF Tidy, Routes!Matches
  <2>3. new.dest = dest /\ new.metric = metric /\ new.link = via
    BY RouteFields
  <2> HIDE DEF new, via
  <2> QED
    BY <2>1, <2>2, <2>3 DEF Tidy, Routes!Taken
<1> QED
  BY <1>1, <1>2

LEMMA RoutesInitially ==
  ASSUME Routes!Init
  PROVE  RoutesInv
BY DEF Routes!Init, RoutesInv, Tidy

LEMMA RoutesStep ==
  ASSUME Metered, RoutesInv, Routes!Next \/ UNCHANGED Routes!vars
  PROVE  RoutesInv'
<1>1. CASE UNCHANGED <<links, routes, bcastLink, mcastLink>>
  BY <1>1 DEF RoutesInv, Tidy
<1>2. ASSUME NEW l \in Locals4, Routes!LinkAdd(l) PROVE RoutesInv'
  <2> DEFINE table == IF mcastLink = Routes!None THEN Routes!Added(routes, Routes!McastNet, Routes!None, 1, l) ELSE routes
  <2>1. Tidy(routes, links')
    BY <1>2 DEF Routes!LinkAdd, RoutesInv, Tidy
  <2>2. l \in links' /\ 1 \in 0 .. MaxMetric /\ Routes!None # Routes!Broadcast
    BY <1>2, MetricsEnd DEF Routes!LinkAdd, Routes!None, Routes!Broadcast
  <2>3. Tidy(table, links')
    BY <2>1, <2>2, AddedTidy
  <2>4. routes' = Routes!Added(table, NetOf4[l], Routes!None, 1, l)
    BY <1>2 DEF Routes!LinkAdd
  <2> HIDE DEF table
  <2>5. Tidy(routes', links')
    BY <2>2, <2>3, <2>4, AddedTidy
  <2>6. {bcastLink', mcastLink'} \subseteq links' \cup {Routes!None}
    BY <1>2 DEF Routes!LinkAdd, RoutesInv
  <2> QED
    BY <2>5, <2>6 DEF RoutesInv
<1>3. ASSUME NEW l \in Locals4, Routes!LinkDel(l) PROVE RoutesInv'
  <2>1. /\ links' = links \ {l} /\ routes' \subseteq routes
        /\ \A r \in routes' : r.link # l
    BY <1>3 DEF Routes!LinkDel, Routes!Without
  <2>2. Tidy(routes', links')
    BY <2>1 DEF RoutesInv, Tidy
  <2>3. {bcastLink', mcastLink'} \subseteq links' \cup {Routes!None}
    BY <1>3 DEF Routes!LinkDel, RoutesInv
  <2> QED
    BY <2>2, <2>3 DEF RoutesInv
<1>4. ASSUME NEW d \in Routes!Networks, NEW m \in Metrics, NEW g, NEW l, g # Routes!Broadcast,
             Routes!RouteAdd(d, g, m, l)
      PROVE  RoutesInv'
  <2>1. Tidy(routes', links)
    BY <1>4, AddedTidy, MetricsEnd DEF Routes!RouteAdd, RoutesInv
  <2> QED
    BY <1>4, <2>1 DEF Routes!RouteAdd, RoutesInv
<1>5. ASSUME NEW r \in routes, Routes!RouteDel(r) PROVE RoutesInv'
  BY <1>5 DEF Routes!RouteDel, RoutesInv, Tidy
<1>6. Routes!None # Routes!Broadcast /\ \A g \in Gateways : g # Routes!Broadcast
  BY DEF Routes!None, Routes!Broadcast, Metered
<1> QED
  BY <1>1, <1>2, <1>3, <1>4, <1>5, <1>6 DEF Routes!Next, Routes!vars, Routes!Push, Routes!Rebound, Routes!Receive

LEMMA RoutesMean ==
  ASSUME RoutesInv
  PROVE  Routes!NoStaleLink
BY DEF RoutesInv, Tidy, Routes!NoStaleLink

\* The networks.  Every link has one of its own, and neither of them nor the network
\* of a host is one of those that stand for many; nobody has an address that does.
Networked ==
  /\ \A k, l \in Locals4 : NetOf4[k] = NetOf4[l] => k = l
  /\ \A l \in Locals4 : NetOf4[l] \notin {Routes!Anywhere, Routes!McastNet}
  /\ {Routes!Broadcast, Routes!Group} \cap (Hosts4 \cup Gateways) = {}

\* To the network of a link there is one route, with no gateway.
Direct(table, present) ==
  /\ \A r \in table, l \in Locals4 : r.dest = NetOf4[l] => r.link = l /\ r.gateway = Routes!None
  /\ \A l \in present : \E r \in table : r.dest = NetOf4[l]

WayInv == /\ RoutesInv
          /\ links \subseteq Locals4 /\ Direct(routes, links)
          /\ forwards \in {0, 1}

LEMMA AddedDirect ==
  ASSUME NEW present, NEW table, Direct(table, present), NEW dest, NEW gateway, NEW metric, NEW link,
         \A l \in Locals4 : dest # NetOf4[l]
  PROVE  Direct(Routes!Added(table, dest, gateway, metric, link), present)
<1> DEFINE via == IF gateway = Routes!None THEN link ELSE Routes!RouteFind(table, gateway).link
           new == Routes!Route(dest, gateway, metric, via)
<1>1. CASE Routes!Added(table, dest, gateway, metric, link) = table
  BY <1>1
<1>2. CASE Routes!Added(table, dest, gateway, metric, link) # table
  <2>1. Routes!Added(table, dest, gateway, metric, link) = table \cup {new}
    BY <1>2 DEF Routes!Added
  <2>2. new.dest = dest
    BY RouteFields
  <2> HIDE DEF new, via
  <2> QED
    BY <2>1, <2>2 DEF Direct
<1> QED
  BY <1>1, <1>2

LEMMA WayInitially ==
  ASSUME Routes!Init
  PROVE  WayInv
BY RoutesInitially DEF Routes!Init, WayInv, Direct

LEMMA WayStep ==
  ASSUME Metered, Networked, WayInv, Routes!Next \/ UNCHANGED Routes!vars
  PROVE  WayInv'
<1> USE DEF WayInv
<1>0. RoutesInv'
  BY RoutesStep
<1>1. CASE UNCHANGED <<links, routes, forwards>>
  BY <1>0, <1>1 DEF Direct
<1>2. ASSUME NEW l \in Locals4, Routes!LinkAdd(l) PROVE WayInv'
  <2> DEFINE table == IF mcastLink = Routes!None THEN Routes!Added(routes, Routes!McastNet, Routes!None, 1, l) ELSE routes
             new == Routes!Route(NetOf4[l], Routes!None, 1, l)
  <2>1. links' = links \cup {l} /\ l \notin links /\ forwards' = forwards
    BY <1>2 DEF Routes!LinkAdd
  <2>2. \A k \in Locals4 : Routes!McastNet # NetOf4[k]
    BY DEF Networked
  <2>3. Direct(table, links)
    BY <2>2, AddedDirect
  <2>4. \A r \in table : r.dest # NetOf4[l]
    <3>1. \A r \in routes : r.dest # NetOf4[l]
      BY <2>1 DEF Direct, RoutesInv, Tidy
    <3>2. CASE table = routes
      BY <3>1, <3>2
    <3>3. CASE table # routes
      <4>1. table = routes \cup {Routes!Route(Routes!McastNet, Routes!None, 1, l)}
        BY <3>3 DEF Routes!Added
      <4> HIDE DEF table
      <4> QED
        BY <3>1, <4>1, <2>2, RouteFields
    <3> QED
      BY <3>2, <3>3
  <2>5. routes' = table \cup {new}
    <3>1. routes' = Routes!Added(table, NetOf4[l], Routes!None, 1, l)
      BY <1>2 DEF Routes!LinkAdd
    <3> HIDE DEF table
    <3>2. ~Routes!Taken(table, NetOf4[l], 1)
      BY <2>4 DEF Routes!Taken
    <3> QED
      BY <3>1, <3>2 DEF Routes!Added
  <2>6. new.dest = NetOf4[l] /\ new.link = l /\ new.gateway = Routes!None
    BY RouteFields
  <2> HIDE DEF table, new
  <2>7. Direct(routes', links')
    BY <2>1, <2>3, <2>5, <2>6 DEF Direct, Networked
  <2> QED
    BY <1>0, <2>1, <2>7
<1>3. ASSUME NEW l \in Locals4, Routes!LinkDel(l) PROVE WayInv'
  <2>1. links' = links \ {l} /\ forwards' = forwards
    BY <1>3 DEF Routes!LinkDel
  <2>2. routes' \subseteq routes
    BY <1>3 DEF Routes!LinkDel, Routes!Without
  <2>3. \A r \in routes : r.dest # Routes!McastNet /\ r.link # l => r \in routes'
    BY <1>3 DEF Routes!LinkDel, Routes!Without
  <2>4. \A k \in links' : \E r \in routes' : r.dest = NetOf4[k]
    BY <2>1, <2>3 DEF Direct, Networked
  <2>5. Direct(routes', links')
    BY <2>2, <2>4 DEF Direct
  <2> QED
    BY <1>0, <2>1, <2>5
<1>4. ASSUME NEW d \in Routes!Networks, NEW m, NEW g, NEW l, Routes!RouteAdd(d, g, m, l) PROVE WayInv'
  <2>1. \A k \in Locals4 : d # NetOf4[k]
    BY DEF Routes!Networks, Networked
  <2>2. Direct(routes', links)
    BY <1>4, <2>1, AddedDirect DEF Routes!RouteAdd
  <2> QED
    BY <1>0, <1>4, <2>2 DEF Routes!RouteAdd
<1>5. ASSUME NEW r \in routes, Routes!RouteDel(r) PROVE WayInv'
  <2>1. \A k \in Locals4 : r.dest # NetOf4[k]
    BY <1>5 DEF Routes!RouteDel, Routes!Networks, Networked
  <2>2. Direct(routes', links)
    BY <1>5, <2>1 DEF Routes!RouteDel, Direct
  <2> QED
    BY <1>0, <1>5, <2>2 DEF Routes!RouteDel
<1>6. ASSUME NEW f, NEW ttl, Routes!Receive(f, ttl) PROVE WayInv'
  <2>1. UNCHANGED <<links, routes>>
    BY <1>6 DEF Routes!Receive
  <2>2. forwards' \in {0, 1}
    BY <1>6 DEF Routes!Receive, Routes!Forward, Routes!Forwardable, Routes!Repeated
  <2> QED
    BY <1>0, <2>1, <2>2 DEF Direct
<1> QED
  BY <1>1, <1>2, <1>3, <1>4, <1>5, <1>6 DEF Routes!Next, Routes!vars, Routes!Push, Routes!Rebound

LEMMA WayMeans ==
  ASSUME Metered, Networked, WayInv
  PROVE  Routes!NeighboursAreReached /\ Routes!ForwardedOnce
<1>1. Routes!ForwardedOnce
  BY DEF WayInv, Routes!ForwardedOnce
<1>2. ASSUME NEW l \in links, NEW a \in Hosts4 \cup Gateways, NetOf4[a] = NetOf4[l]
      PROVE  /\ Routes!Reached(routes, a)
             /\ \E r \in Routes!Matches(routes, a) : /\ r.dest = NetOf4[l] /\ r.gateway = Routes!None
                                                     /\ NetOf4[r.link] = NetOf4[l]
             /\ Routes!RouteFind(routes, a).dest = NetOf4[l]
  <2>1. Routes!NetworkOf(a) = NetOf4[l] /\ a # Routes!Broadcast /\ l \in Locals4
    BY <1>2 DEF Routes!NetworkOf, Networked, WayInv
  <2>2. PICK r \in routes : r.dest = NetOf4[l]
    BY <1>2 DEF WayInv, Direct
  <2>3. r \in Routes!Matches(routes, a) /\ r.gateway = Routes!None /\ r.link = l
    BY <2>1, <2>2 DEF Routes!Matches, WayInv, Direct
  <2> DEFINE b == Routes!RouteFind(routes, a)
  <2>4. b \in Routes!Matches(routes, a) /\ \A s \in Routes!Matches(routes, a) \ {b} : Routes!Before(b, s)
    BY <2>1, <2>3, BestRoute DEF WayInv, RoutesInv
  <2> HIDE DEF b
  <2>5. b.dest = NetOf4[l]
    <3>1. CASE b = r
      BY <3>1, <2>2
    <3>2. CASE b # r
      <4>1. Routes!Before(b, r) /\ b.dest \in {Routes!Anywhere, NetOf4[l]}
        BY <2>1, <2>3, <2>4, <3>2 DEF Routes!Matches
      <4>2. r.dest \notin {Routes!Anywhere, Routes!McastNet}
        BY <2>1, <2>2 DEF Networked
      <4> QED
        BY <2>2, <4>1, <4>2 DEF Routes!Before, Routes!Prefix
    <3> QED
      BY <3>1, <3>2
  <2> QED
    BY <2>2, <2>3, <2>5 DEF Routes!Reached, b
<1> QED
  BY <1>1, <1>2 DEF Routes!NeighboursAreReached

-----------------------------------------------------------------------------
(* Ipv6Routes: routes, addresses and lifetimes                             *)

\* Prefixes that routers announce and addresses from where they do it; whole numbers
\* of seconds; a prefix for every global address of the host, and what the user
\* routes is none of them.
Announcing ==
  /\ \A a \in Routers : Routes6!NetworkOf(a) = Routes6!LinkLocal
  /\ \A p \in Announced : Routes6!GlobalNet(p)
  /\ Lifetimes \subseteq Nat /\ TwoHours \in Nat /\ Forever \in Nat
  /\ Routes6!None \notin Locals6 \cup Others /\ Routes6!Group \notin Locals6 \cup Others
  /\ Others \cap Locals6 = {} /\ Routers \subseteq Others
  /\ \A k, l \in Locals6 : Routes6!IsGlobal(k) /\ NetOf6[k] = NetOf6[l] => k = l
  /\ \A l \in Locals6 : NetOf6[l] \notin Routed \cup {Routes6!McastNet, Routes6!Anywhere}

\* What the tables are: routes of links there are, one for a prefix and a metric, to
\* a global prefix through a global address, to that of an address through it; and
\* lifetimes that are not over.
IsState(s) == s = [links |-> s.links, tentative |-> s.tentative, expire |-> s.expire,
                   routes |-> s.routes, mcast |-> s.mcast]
LinkedRoutes(table, present) ==
  /\ \A r \in table : r.link \in present /\ r.metric \in {1, 10}
  /\ \A r, t \in table : r.dest = t.dest /\ r.metric = t.metric => r = t
  /\ \A r \in table : Routes6!GlobalNet(r.dest) \/ r.metric = 10 => Routes6!IsGlobal(r.link)
  /\ \A r \in table, k \in Locals6 :
       Routes6!IsGlobal(k) /\ r.dest = NetOf6[k] => r.link = k /\ r.gateway = Routes6!None
LivesOn(s, time) ==
  /\ s.expire \in [Locals6 -> Nat]
  /\ \A l \in Locals6 : s.expire[l] = 0 \/ (l \in s.links /\ s.expire[l] >= time)
GoodState(s, time) == /\ IsState(s) /\ s.links \subseteq Locals6
                      /\ LinkedRoutes(s.routes, s.links) /\ LivesOn(s, time)
Served(table, present) == \A l \in present : Routes6!IsGlobal(l) => \E r \in table : r.dest = NetOf6[l]

AddressesInv == now6 \in Nat /\ GoodState(Routes6!State, now6) /\ Served(routes6, links6)

LEMMA BestRoute6 ==
  ASSUME NEW present, NEW table, LinkedRoutes(table, present), NEW a, Routes6!Matches(table, a) # {}
  PROVE  /\ Routes6!RouteFind(table, a) \in Routes6!Matches(table, a)
         /\ \A s \in Routes6!Matches(table, a) \ {Routes6!RouteFind(table, a)} : Routes6!Before(Routes6!RouteFind(table, a), s)
<1> DEFINE M == Routes6!Matches(table, a)
           C == IF \E r \in M : r.dest = Routes6!NetworkOf(a) THEN {r \in M : r.dest = Routes6!NetworkOf(a)} ELSE M
<1>1. M \subseteq table /\ \A r \in M : r.dest \in {Routes6!Anywhere, Routes6!NetworkOf(a)}
  BY DEF Routes6!Matches
<1>2. C \in SUBSET table /\ C # {} /\ C \subseteq M
  BY <1>1
<1>3. \E r \in C : \A s \in C : s.metric <= r.metric
  <2>1. \A r \in C : r.metric \in {1, 10}
    BY <1>2 DEF LinkedRoutes
  <2> HIDE DEF C
  <2>2. CASE \E r \in C : r.metric = 10
    BY <2>1, <2>2
  <2>3. CASE \A r \in C : r.metric = 1
    BY <1>2, <2>3
  <2> QED
    BY <2>1, <2>2, <2>3
<1>4. PICK r \in C : \A s \in C : s.metric <= r.metric
  BY <1>3
<1>5. ASSUME NEW s \in M \ {r} PROVE Routes6!Before(r, s)
  <2>1. r \in M /\ r \in table /\ s \in table
    BY <1>1, <1>2
  <2>2. CASE s.dest = r.dest
    <3>1. s \in C
      BY <1>1, <2>2
    <3>2. s.metric <= r.metric /\ s.metric # r.metric
      BY <1>4, <3>1, <2>1, <2>2 DEF LinkedRoutes
    <3>3. r.metric > s.metric
      BY <2>1, <3>2 DEF LinkedRoutes
    <3> QED
      BY <2>2, <3>3 DEF Routes6!Before
  <2>3. CASE s.dest # r.dest
    <3>1. r.dest = Routes6!NetworkOf(a) /\ r.dest # Routes6!Anywhere /\ s.dest = Routes6!Anywhere
      BY <1>1, <2>3
    <3> QED
      BY <3>1 DEF Routes6!Before, Routes6!Prefix
  <2> QED
    BY <2>2, <2>3
<1>6. r \in M
  BY <1>2
<1>7. Routes6!RouteFind(table, a) = CHOOSE q \in M : \A s \in M \ {q} : Routes6!Before(q, s)
  BY DEF Routes6!RouteFind
<1> HIDE DEF M, C
<1>8. Routes6!RouteFind(table, a) \in M /\ \A s \in M \ {Routes6!RouteFind(table, a)} : Routes6!Before(Routes6!RouteFind(table, a), s)
  BY <1>5, <1>6, <1>7
<1> QED
  BY <1>8 DEF M

LEMMA RouteFields6 ==
  ASSUME NEW dest, NEW gateway, NEW metric, NEW link
  PROVE  /\ Routes6!Route(dest, gateway, metric, link).dest = dest
         /\ Routes6!Route(dest, gateway, metric, link).gateway = gateway
         /\ Routes6!Route(dest, gateway, metric, link).metric = metric
         /\ Routes6!Route(dest, gateway, metric, link).link = link
BY DEF Routes6!Route

\* Tables with other routes.
LEMMA RoutesOnly ==
  ASSUME NEW s, IsState(s), NEW table
  PROVE  /\ IsState([s EXCEPT !.routes = table])
         /\ [s EXCEPT !.routes = table].routes = table
         /\ [s EXCEPT !.routes = table].links = s.links
         /\ [s EXCEPT !.routes = table].tentative = s.tentative
         /\ [s EXCEPT !.routes = table].expire = s.expire
         /\ [s EXCEPT !.routes = table].mcast = s.mcast
<1> DEFINE n == [links |-> s.links, tentative |-> s.tentative, expire |-> s.expire,
                 routes |-> table, mcast |-> s.mcast]
<1>1. [s EXCEPT !.routes = table] = n
  BY DEF IsState
<1>2. /\ n.routes = table /\ n.links = s.links /\ n.tentative = s.tentative
      /\ n.expire = s.expire /\ n.mcast = s.mcast
  OBVIOUS
<1>3. IsState(n)
  BY <1>2 DEF IsState
<1> QED
  BY <1>1, <1>2, <1>3

\* The link of a new route is one there is, and to a global prefix a global one.
LEMMA ScopedLink ==
  ASSUME NEW s, NEW time, GoodState(s, time), NEW dest, NEW gateway, NEW link,
         link \in s.links \cup {Routes6!None}, Routes6!Scoped(s.links, dest, Routes6!ViaLink(s.routes, gateway, link)) # Routes6!None
  PROVE  /\ Routes6!Scoped(s.links, dest, Routes6!ViaLink(s.routes, gateway, link)) \in s.links
         /\ Routes6!GlobalNet(dest) => Routes6!IsGlobal(Routes6!Scoped(s.links, dest, Routes6!ViaLink(s.routes, gateway, link)))
<1> DEFINE via == Routes6!ViaLink(s.routes, gateway, link)
<1>1. via \in s.links \cup {Routes6!None}
  <2>1. CASE gateway # Routes6!None /\ Routes6!Reached(s.routes, gateway)
    <3>1. Routes6!RouteFind(s.routes, gateway) \in s.routes
      BY <2>1, BestRoute6 DEF GoodState, Routes6!Reached, Routes6!Matches
    <3> QED
      BY <3>1 DEF Routes6!ViaLink, GoodState, LinkedRoutes
  <2>2. CASE ~(gateway # Routes6!None /\ Routes6!Reached(s.routes, gateway))
    BY <2>2 DEF Routes6!ViaLink
  <2> QED
    BY <2>1, <2>2
<1> HIDE DEF via
<1>2. CASE via = Routes6!None \/ ~Routes6!GlobalNet(dest) \/ Routes6!IsGlobal(via)
  BY <1>1, <1>2 DEF Routes6!Scoped, via
<1>3. CASE ~(via = Routes6!None \/ ~Routes6!GlobalNet(dest) \/ Routes6!IsGlobal(via))
  <2> DEFINE G == Routes6!Globals(s.links, DevOf6[via])
  <2>1. Routes6!Scoped(s.links, dest, via) = CHOOSE l \in G : TRUE
    BY <1>3 DEF Routes6!Scoped, via
  <2>2. G # {} /\ \A l \in G : l \in s.links /\ Routes6!IsGlobal(l)
    BY <1>3 DEF Routes6!Scoped, via, Routes6!Globals
  <2> HIDE DEF G
  <2>3. Routes6!Scoped(s.links, dest, via) \in G
    BY <2>1, <2>2
  <2> QED
    BY <2>2, <2>3 DEF via
<1> QED
  BY <1>2, <1>3

\* A route is added: the conditions that a new route must meet.
MayRoute(s, dest, gateway, metric, link) ==
  /\ link \in s.links \cup {Routes6!None} /\ metric \in {1, 10}
  /\ metric = 10 => Routes6!IsGlobal(link) /\ ~Routes6!Reached(s.routes, gateway)
  /\ \A k \in Locals6 : Routes6!IsGlobal(k) /\ dest = NetOf6[k] => link = k /\ gateway = Routes6!None

LEMMA AddedGood ==
  ASSUME Announcing, NEW s, NEW time, GoodState(s, time), NEW dest, NEW gateway, NEW metric, NEW link,
         MayRoute(s, dest, gateway, metric, link)
  PROVE  /\ GoodState(Routes6!Added(s, dest, gateway, metric, link), time)
         /\ Routes6!Added(s, dest, gateway, metric, link).links = s.links
         /\ s.routes \subseteq Routes6!Added(s, dest, gateway, metric, link).routes
<1> DEFINE via == Routes6!Scoped(s.links, dest, Routes6!ViaLink(s.routes, gateway, link))
           new == Routes6!Route(dest, gateway, metric, via)
           added == [s EXCEPT !.routes = @ \cup {new}]
<1>1. CASE Routes6!Added(s, dest, gateway, metric, link) = s
  BY <1>1
<1>2. CASE Routes6!Added(s, dest, gateway, metric, link) # s
  <2>1. /\ via # Routes6!None /\ \A r \in s.routes : r.dest = dest => r.metric # metric
        /\ Routes6!Added(s, dest, gateway, metric, link) = added
    BY <1>2 DEF Routes6!Added
  <2>2. IsState(s)
    BY DEF GoodState
  <2>3. /\ IsState(added) /\ added.routes = s.routes \cup {new} /\ added.links = s.links
        /\ added.expire = s.expire
    BY <2>2, RoutesOnly
  <2>4. via \in s.links /\ (Routes6!GlobalNet(dest) => Routes6!IsGlobal(via))
    BY <2>1, ScopedLink DEF MayRoute
  <2>5. metric = 10 => via = link
    BY DEF MayRoute, Routes6!ViaLink, Routes6!Scoped
  <2>6. ASSUME NEW k \in Locals6, Routes6!IsGlobal(k), dest = NetOf6[k] PROVE via = k /\ gateway = Routes6!None
    BY <2>6 DEF MayRoute, Routes6!ViaLink, Routes6!Scoped
  <2>7. new.dest = dest /\ new.gateway = gateway /\ new.metric = metric /\ new.link = via
    BY RouteFields6
  <2> HIDE DEF new, via, added
  <2>8. LinkedRoutes(added.routes, added.links)
    <3>1. \A r \in added.routes : r.link \in added.links /\ r.metric \in {1, 10}
      BY <2>3, <2>4, <2>7 DEF GoodState, LinkedRoutes, MayRoute
    <3>2. \A r, t \in added.routes : r.dest = t.dest /\ r.metric = t.metric => r = t
      BY <2>1, <2>3, <2>7 DEF GoodState, LinkedRoutes
    <3>3. \A r \in added.routes : Routes6!GlobalNet(r.dest) \/ r.metric = 10 => Routes6!IsGlobal(r.link)
      BY <2>3, <2>4, <2>5, <2>7 DEF GoodState, LinkedRoutes, MayRoute
    <3>4. \A r \in added.routes, k \in Locals6 :
            Routes6!IsGlobal(k) /\ r.dest = NetOf6[k] => r.link = k /\ r.gateway = Routes6!None
      BY <2>3, <2>6, <2>7 DEF GoodState, LinkedRoutes
    <3> QED
      BY <3>1, <3>2, <3>3, <3>4 DEF LinkedRoutes
  <2>9. LivesOn(added, time)
    BY <2>3 DEF GoodState, LivesOn
  <2> QED
    BY <2>1, <2>3, <2>8, <2>9 DEF GoodState
<1> QED
  BY <1>1, <1>2

LEMMA AddedThere ==
  ASSUME Announcing, NEW s, IsState(s), NEW l \in Locals6
  PROVE  \E r \in Routes6!Added(s, NetOf6[l], Routes6!None, 1, l).routes : r.dest = NetOf6[l]
<1>1. l # Routes6!None /\ (Routes6!GlobalNet(NetOf6[l]) <=> Routes6!IsGlobal(l))
  BY DEF Announcing, Routes6!IsGlobal, Routes6!NetworkOf
<1>2. Routes6!Scoped(s.links, NetOf6[l], Routes6!ViaLink(s.routes, Routes6!None, l)) = l
  BY <1>1 DEF Routes6!Scoped, Routes6!ViaLink
<1> DEFINE new == Routes6!Route(NetOf6[l], Routes6!None, 1, l)
<1>3. CASE \E r \in s.routes : r.dest = NetOf6[l] /\ r.metric = 1
  BY <1>3 DEF Routes6!Added
<1>4. CASE ~\E r \in s.routes : r.dest = NetOf6[l] /\ r.metric = 1
  <2>1. Routes6!Added(s, NetOf6[l], Routes6!None, 1, l) = [s EXCEPT !.routes = @ \cup {new}]
    BY <1>1, <1>2, <1>4 DEF Routes6!Added
  <2>2. new.dest = NetOf6[l]
    BY RouteFields6
  <2>3. [s EXCEPT !.routes = @ \cup {new}].routes = s.routes \cup {new}
    BY RoutesOnly
  <2> HIDE DEF new
  <2> QED
    BY <2>1, <2>2, <2>3
<1> QED
  BY <1>3, <1>4

LEMMA LinkAddedGood ==
  ASSUME Announcing, NEW s, NEW time, GoodState(s, time), NEW l \in Locals6, Served(s.routes, s.links)
  PROVE  /\ GoodState(Routes6!LinkAdded(s, l), time)
         /\ Routes6!LinkAdded(s, l).links = s.links \cup {l}
         /\ Served(Routes6!LinkAdded(s, l).routes, Routes6!LinkAdded(s, l).links)
<1> DEFINE new == [s EXCEPT !.links = @ \cup {l}, !.tentative = @ \cup {l}]
           default == [new EXCEPT !.mcast = l]
           first == IF new.mcast # Routes6!None THEN new
                    ELSE Routes6!Added([new EXCEPT !.mcast = l], Routes6!McastNet, Routes6!None, 1, l)
           second == Routes6!Added(first, NetOf6[l], Routes6!None, 1, l)
<1>1. /\ new = [links |-> s.links \cup {l}, tentative |-> s.tentative \cup {l},
                expire |-> s.expire, routes |-> s.routes, mcast |-> s.mcast]
      /\ default = [links |-> s.links \cup {l}, tentative |-> s.tentative \cup {l},
                    expire |-> s.expire, routes |-> s.routes, mcast |-> l]
  <2> DEFINE a == [s EXCEPT !.links = s.links \cup {l}]
             b == [a EXCEPT !.tentative = s.tentative \cup {l}]
             c == [b EXCEPT !.mcast = l]
  <2>1. a = [links |-> s.links \cup {l}, tentative |-> s.tentative,
             expire |-> s.expire, routes |-> s.routes, mcast |-> s.mcast]
    BY DEF GoodState, IsState
  <2>2. new = b
    BY <2>1 DEF GoodState, IsState
  <2> HIDE DEF a
  <2>3. b = [links |-> s.links \cup {l}, tentative |-> s.tentative \cup {l},
             expire |-> s.expire, routes |-> s.routes, mcast |-> s.mcast]
    BY <2>1
  <2> HIDE DEF b
  <2>4. c = [links |-> s.links \cup {l}, tentative |-> s.tentative \cup {l},
             expire |-> s.expire, routes |-> s.routes, mcast |-> l]
    BY <2>3
  <2> HIDE DEF new
  <2> QED
    BY <2>2, <2>3, <2>4
<1>2. /\ IsState(new) /\ new.links = s.links \cup {l} /\ new.expire = s.expire /\ new.routes = s.routes
      /\ IsState(default) /\ default.links = s.links \cup {l}
      /\ default.expire = s.expire /\ default.routes = s.routes
  BY <1>1 DEF IsState
<1> HIDE DEF new, default
<1>3. GoodState(new, time) /\ GoodState(default, time)
  BY <1>2 DEF GoodState, LinkedRoutes, LivesOn
<1>4. MayRoute(default, Routes6!McastNet, Routes6!None, 1, l)
  BY <1>2 DEF MayRoute, Announcing
<1>5. GoodState(first, time) /\ first.links = s.links \cup {l} /\ s.routes \subseteq first.routes
  <2>1. CASE new.mcast # Routes6!None
    <3>1. first = new
      BY <2>1
    <3> QED
      BY <1>2, <1>3, <3>1
  <2>2. CASE new.mcast = Routes6!None
    <3>1. first = Routes6!Added(default, Routes6!McastNet, Routes6!None, 1, l)
      BY <2>2 DEF default
    <3> HIDE DEF first
    <3> QED
      BY <1>2, <1>3, <1>4, <3>1, AddedGood
  <2> QED
    BY <2>1, <2>2
<1> HIDE DEF first
<1>6. MayRoute(first, NetOf6[l], Routes6!None, 1, l)
  BY <1>5 DEF MayRoute, Announcing
<1>7. GoodState(second, time) /\ second.links = s.links \cup {l} /\ first.routes \subseteq second.routes
  BY <1>5, <1>6, AddedGood
<1>8. \E r \in second.routes : r.dest = NetOf6[l]
  BY <1>5, AddedThere DEF GoodState
<1> HIDE DEF second
<1>9. MayRoute(second, Routes6!McastNet, Routes6!None, 1, l)
  BY <1>7 DEF MayRoute, Announcing
<1> DEFINE third == Routes6!Added(second, Routes6!McastNet, Routes6!None, 1, l)
<1>10. GoodState(third, time) /\ third.links = s.links \cup {l} /\ second.routes \subseteq third.routes
  BY <1>7, <1>9, AddedGood
<1>11. Routes6!LinkAdded(s, l) = third
  BY DEF Routes6!LinkAdded, second, first, new
<1> HIDE DEF third
<1>12. Served(third.routes, third.links)
  BY <1>5, <1>7, <1>8, <1>10 DEF Served
<1> QED
  BY <1>10, <1>11, <1>12

LEMMA LinksDeletedGood ==
  ASSUME NEW s, NEW time \in Nat, NEW later \in Nat, GoodState(s, time), Served(s.routes, s.links), NEW gone,
         \A l \in s.links : s.expire[l] > 0 /\ s.expire[l] < later => l \in gone
  PROVE  /\ GoodState(Routes6!LinksDeleted(s, gone), later)
         /\ Served(Routes6!LinksDeleted(s, gone).routes, Routes6!LinksDeleted(s, gone).links)
<1> DEFINE over == [l \in Locals6 |-> IF l \in gone THEN 0 ELSE s.expire[l]]
           n == [links |-> s.links \ gone, tentative |-> s.tentative \ gone, expire |-> over,
                 routes |-> Routes6!Without(s.routes, gone), mcast |-> s.mcast]
<1>1. Routes6!LinksDeleted(s, gone) = n
  <2> DEFINE rest == Routes6!Without(s.routes, gone)
             m == [links |-> s.links \ gone, tentative |-> s.tentative \ gone, expire |-> over,
                   routes |-> rest, mcast |-> s.mcast]
             a == [s EXCEPT !.links = s.links \ gone]
             b == [a EXCEPT !.tentative = s.tentative \ gone]
             c == [b EXCEPT !.routes = rest]
             d == [c EXCEPT !.expire = over]
  <2>1. Routes6!LinksDeleted(s, gone) = d /\ m = n
    BY DEF Routes6!LinksDeleted
  <2>2. a = [links |-> s.links \ gone, tentative |-> s.tentative, expire |-> s.expire,
             routes |-> s.routes, mcast |-> s.mcast]
    BY DEF GoodState, IsState
  <2> HIDE DEF a, rest, over, n
  <2>3. b = [links |-> s.links \ gone, tentative |-> s.tentative \ gone, expire |-> s.expire,
             routes |-> s.routes, mcast |-> s.mcast]
    BY <2>2
  <2> HIDE DEF b
  <2>4. c = [links |-> s.links \ gone, tentative |-> s.tentative \ gone, expire |-> s.expire,
             routes |-> rest, mcast |-> s.mcast]
    BY <2>3
  <2> HIDE DEF c
  <2>5. d = m
    BY <2>4
  <2> QED
    BY <2>1, <2>5
<1>2. /\ n.links = s.links \ gone /\ n.expire = over /\ n.routes = Routes6!Without(s.routes, gone)
      /\ IsState(n)
  BY DEF IsState
<1> HIDE DEF n
<1>3. LinkedRoutes(n.routes, n.links)
  BY <1>2 DEF GoodState, LinkedRoutes, Routes6!Without
<1>4. LivesOn(n, later)
  <2>1. over \in [Locals6 -> Nat]
    BY DEF GoodState, LivesOn
  <2>2. ASSUME NEW l \in Locals6, over[l] # 0 PROVE l \in n.links /\ over[l] >= later
    BY <1>2, <2>2 DEF GoodState, LivesOn
  <2> HIDE DEF over
  <2> QED
    BY <1>2, <2>1, <2>2 DEF LivesOn
<1>5. Served(n.routes, n.links)
  BY <1>2 DEF GoodState, LinkedRoutes, Served, Routes6!Without
<1> QED
  BY <1>1, <1>2, <1>3, <1>4, <1>5 DEF GoodState

LEMMA LifetimeSetGood ==
  ASSUME Announcing, NEW s, now6 \in Nat, GoodState(s, now6), NEW l \in s.links, NEW t \in Nat
  PROVE  /\ GoodState(Routes6!LifetimeSet(s, l, now6 + t), now6)
         /\ Routes6!LifetimeSet(s, l, now6 + t).links = s.links
         /\ Routes6!LifetimeSet(s, l, now6 + t).routes = s.routes
<1> DEFINE end == IF now6 + t > Forever THEN 0
                  ELSE IF now6 + t > now6 + TwoHours \/ now6 + t > s.expire[l] THEN now6 + t
                  ELSE now6 + TwoHours
           ex == [s.expire EXCEPT ![l] = end]
           n == [links |-> s.links, tentative |-> s.tentative, expire |-> ex,
                 routes |-> s.routes, mcast |-> s.mcast]
<1>1. Routes6!LifetimeSet(s, l, now6 + t) = n
  BY DEF Routes6!LifetimeSet, GoodState, IsState
<1>2. /\ n.links = s.links /\ n.expire = ex /\ n.routes = s.routes /\ IsState(n)
  BY DEF IsState
<1> HIDE DEF n
<1>3. end \in Nat /\ (end = 0 \/ end >= now6)
  BY DEF Announcing
<1> HIDE DEF end
<1>4. LivesOn(n, now6)
  BY <1>2, <1>3 DEF GoodState, LivesOn
<1> QED
  BY <1>1, <1>2, <1>4 DEF GoodState

\* The tables after a step.
LEMMA BecomesGood ==
  ASSUME NEW s, Routes6!Becomes(s), now6' \in Nat, GoodState(s, now6'), Served(s.routes, s.links)
  PROVE  AddressesInv'
<1>1. Routes6!State' = s
  BY DEF Routes6!State, Routes6!Becomes, GoodState, IsState
<1>2. Served(routes6', links6')
  BY DEF Routes6!Becomes
<1> QED
  BY <1>1, <1>2 DEF AddressesInv

LEMMA StateFields ==
  /\ Routes6!State.links = links6 /\ Routes6!State.routes = routes6 /\ Routes6!State.expire = expire6
  /\ IsState(Routes6!State)
BY DEF Routes6!State, IsState

LEMMA RoutesRemoved ==
  ASSUME AddressesInv, routes6' \subseteq routes6,
         \A l \in Locals6 : Routes6!IsGlobal(l) => \A r \in routes6 : r.dest = NetOf6[l] => r \in routes6',
         UNCHANGED <<links6, expire6, now6>>
  PROVE  AddressesInv'
<1>1. LinkedRoutes(routes6', links6')
  BY StateFields DEF AddressesInv, GoodState, LinkedRoutes
<1>2. Served(routes6', links6')
  BY StateFields DEF AddressesInv, GoodState, Served
<1>3. Routes6!State'.links = links6' /\ Routes6!State'.routes = routes6' /\ Routes6!State'.expire = expire6' /\ IsState(Routes6!State)'
  BY DEF Routes6!State, IsState
<1>4. LivesOn(Routes6!State', now6')
  BY <1>3, StateFields DEF AddressesInv, GoodState, LivesOn
<1>5. links6' \subseteq Locals6 /\ now6' \in Nat
  BY StateFields DEF AddressesInv, GoodState
<1> QED
  BY <1>1, <1>2, <1>3, <1>4, <1>5 DEF AddressesInv, GoodState

LEMMA AnnouncementStep ==
  ASSUME Announcing, AddressesInv, NEW d \in Routes6!Devices, NEW a \in Routers, NEW p \in Announced,
         NEW t \in Lifetimes, Routes6!Announcement(d, a, p, t)
  PROVE  AddressesInv'
<1>1. t \in Nat /\ now6' \in Nat /\ now6' = now6 /\ GoodState(Routes6!State, now6) /\ Served(Routes6!State.routes, Routes6!State.links)
  BY StateFields DEF Announcing, Routes6!Announcement, AddressesInv
<1>2. ASSUME NEW l \in Routes6!Configured(p), Routes6!Becomes(Routes6!LifetimeSet(Routes6!State, l, now6 + t))
      PROVE  AddressesInv'
  <2>1. l \in Routes6!State.links
    BY StateFields DEF Routes6!Configured
  <2> QED
    BY <1>1, <1>2, <2>1, LifetimeSetGood, BecomesGood
<1>3. ASSUME NEW l \in Routes6!LocalOf(d, p),
             Routes6!Becomes(Routes6!Added(Routes6!LifetimeSet(Routes6!LinkAdded(Routes6!State, l), l, now6 + t), Routes6!Anywhere, a, 10, l))
      PROVE  AddressesInv'
  <2> DEFINE linked == Routes6!LinkAdded(Routes6!State, l)
             timed == Routes6!LifetimeSet(linked, l, now6 + t)
             routed == Routes6!Added(timed, Routes6!Anywhere, a, 10, l)
  <2>1. l \in Locals6 /\ Routes6!IsGlobal(l)
    BY DEF Routes6!LocalOf, Announcing, Routes6!IsGlobal, Routes6!NetworkOf
  <2>2. GoodState(linked, now6) /\ l \in linked.links /\ Served(linked.routes, linked.links)
    BY <1>1, <2>1, LinkAddedGood
  <2> HIDE DEF linked
  <2>3. GoodState(timed, now6) /\ timed.links = linked.links /\ timed.routes = linked.routes
    BY <1>1, <2>2, LifetimeSetGood DEF AddressesInv
  <2> HIDE DEF timed
  <2>4. MayRoute(timed, Routes6!Anywhere, a, 10, l)
    BY <2>1, <2>2, <2>3 DEF MayRoute, Announcing, Routes6!Reached, Routes6!Matches
  <2>5. GoodState(routed, now6) /\ routed.links = timed.links /\ timed.routes \subseteq routed.routes
    BY <2>3, <2>4, AddedGood
  <2>6. Routes6!Becomes(routed)
    BY <1>3 DEF timed, linked
  <2> HIDE DEF routed
  <2>7. Served(routed.routes, routed.links)
    BY <2>2, <2>3, <2>5 DEF Served
  <2> QED
    BY <1>1, <2>5, <2>6, <2>7, BecomesGood
<1> QED
  BY <1>2, <1>3 DEF Routes6!Announcement

LEMMA AddressesInitially ==
  ASSUME Routes6!Init
  PROVE  AddressesInv
<1>1. now6 \in Nat /\ links6 = {} /\ routes6 = {} /\ expire6 = [l \in Locals6 |-> 0]
  BY DEF Routes6!Init
<1>2. LinkedRoutes(Routes6!State.routes, Routes6!State.links) /\ LivesOn(Routes6!State, now6) /\ Served(routes6, links6)
  BY <1>1, StateFields DEF LinkedRoutes, LivesOn, Served
<1> QED
  BY <1>1, <1>2, StateFields DEF AddressesInv, GoodState

LEMMA AddressesStep ==
  ASSUME Announcing, AddressesInv, Routes6!Next \/ UNCHANGED Routes6!vars
  PROVE  AddressesInv'
<1>0. now6 \in Nat /\ GoodState(Routes6!State, now6) /\ Served(Routes6!State.routes, Routes6!State.links)
  BY StateFields DEF AddressesInv
<1>1. CASE UNCHANGED <<links6, expire6, now6, routes6>>
  BY <1>1, RoutesRemoved
<1>2. ASSUME NEW l \in Locals6, Routes6!LinkAdd(l) PROVE AddressesInv'
  BY <1>0, <1>2, LinkAddedGood, BecomesGood DEF Routes6!LinkAdd
<1>3. ASSUME NEW gone, NEW later \in Nat, now6' = later, Routes6!Becomes(Routes6!LinksDeleted(Routes6!State, gone)),
             \A l \in links6 : expire6[l] > 0 /\ expire6[l] < later => l \in gone
      PROVE  AddressesInv'
  <2>1. \A l \in Routes6!State.links : Routes6!State.expire[l] > 0 /\ Routes6!State.expire[l] < later => l \in gone
    BY <1>3, StateFields
  <2> QED
    BY <1>0, <1>3, <2>1, LinksDeletedGood, BecomesGood
<1>4. \A l \in links6 : ~(expire6[l] > 0 /\ expire6[l] < now6)
  BY <1>0, StateFields DEF GoodState, LivesOn
<1>5. ASSUME NEW l \in Locals6, Routes6!LinkDel(l) PROVE AddressesInv'
  BY <1>0, <1>3, <1>4, <1>5 DEF Routes6!LinkDel
<1>6. ASSUME NEW d \in Routes6!Devices, Routes6!CleanupLinks(d) PROVE AddressesInv'
  BY <1>0, <1>3, <1>4, <1>6 DEF Routes6!CleanupLinks
<1>7. ASSUME Routes6!CheckLifetimes PROVE AddressesInv'
  <2>1. now6 + 1 \in Nat
    BY <1>0
  <2> QED
    BY <1>3, <1>7, <2>1 DEF Routes6!CheckLifetimes, Routes6!Expired
<1>8. ASSUME NEW d \in Routed, NEW g, NEW l, Routes6!RouteAdd(d, g, l) PROVE AddressesInv'
  <2> DEFINE s == Routes6!Added(Routes6!State, d, g, 1, l)
  <2>1. MayRoute(Routes6!State, d, g, 1, l)
    BY <1>8, StateFields DEF MayRoute, Routes6!RouteAdd, Announcing
  <2>2. GoodState(s, now6) /\ s.links = Routes6!State.links /\ Routes6!State.routes \subseteq s.routes
    BY <1>0, <2>1, AddedGood
  <2>3. Routes6!Becomes(s) /\ now6' = now6
    BY <1>8 DEF Routes6!RouteAdd
  <2> HIDE DEF s
  <2>4. Served(s.routes, s.links)
    BY <1>0, <2>2 DEF Served
  <2> QED
    BY <1>0, <2>2, <2>3, <2>4, BecomesGood
<1>9. ASSUME NEW r \in routes6, Routes6!RouteDel(r) PROVE AddressesInv'
  BY <1>9, RoutesRemoved DEF Routes6!RouteDel, Announcing
<1>10. ASSUME NEW a \in Others, Routes6!RouterDown(a) PROVE AddressesInv'
  <2>1. \A l \in Locals6 : Routes6!IsGlobal(l) => \A r \in routes6 : r.dest = NetOf6[l] => r.gateway # a
    BY <1>0, StateFields DEF GoodState, LinkedRoutes, Announcing
  <2> QED
    BY <1>10, <2>1, RoutesRemoved DEF Routes6!RouterDown
<1> QED
  BY <1>1, <1>2, <1>5, <1>6, <1>7, <1>8, <1>9, <1>10, AnnouncementStep DEF Routes6!Next, Routes6!vars, Routes6!Confirm

LEMMA AddressesMean ==
  ASSUME Announcing, AddressesInv
  PROVE  Routes6!NoStaleLink /\ Routes6!ExpiredIsGone /\ Routes6!GlobalThroughGlobal
<1>1. LinkedRoutes(routes6, links6) /\ LivesOn(Routes6!State, now6) /\ links6 \subseteq Locals6
  BY StateFields DEF AddressesInv, GoodState
<1> QED
  BY <1>1, StateFields DEF LinkedRoutes, LivesOn, Routes6!NoStaleLink, Routes6!ExpiredIsGone, Routes6!GlobalThroughGlobal

LEMMA NeighboursMean ==
  ASSUME Announcing, AddressesInv
  PROVE  Routes6!NeighboursAreReached /\ Routes6!ScopeIsKept
<1>1. LinkedRoutes(routes6, links6) /\ links6 \subseteq Locals6 /\ Served(routes6, links6)
  BY StateFields DEF AddressesInv, GoodState
<1>2. ASSUME NEW l \in links6, NEW a \in Others, Routes6!IsGlobal(l), NetOf6[a] = NetOf6[l]
      PROVE  Routes6!Reached(routes6, a) /\ Routes6!RouteFind(routes6, a).link = l /\ Routes6!NetworkOf(a) \notin {Routes6!LinkLocal, Routes6!McastNet}
  <2>1. Routes6!NetworkOf(a) = NetOf6[l] /\ Routes6!NetworkOf(l) = NetOf6[l] /\ l \in Locals6
    BY <1>1, <1>2 DEF Routes6!NetworkOf, Announcing
  <2>2. NetOf6[l] \notin {Routes6!LinkLocal, Routes6!McastNet, Routes6!Anywhere}
    BY <1>2, <2>1 DEF Routes6!IsGlobal, Routes6!GlobalNet
  <2>3. PICK r \in routes6 : r.dest = NetOf6[l]
    BY <1>1, <1>2 DEF Served
  <2>4. r \in Routes6!Matches(routes6, a) /\ r.link = l
    BY <1>1, <1>2, <2>1, <2>2, <2>3 DEF Routes6!Matches, LinkedRoutes
  <2> DEFINE b == Routes6!RouteFind(routes6, a)
  <2>5. b \in Routes6!Matches(routes6, a) /\ \A s \in Routes6!Matches(routes6, a) \ {b} : Routes6!Before(b, s)
    BY <1>1, <2>4, BestRoute6
  <2> HIDE DEF b
  <2>6. b.dest = NetOf6[l]
    <3>1. CASE b = r
      BY <3>1, <2>3
    <3>2. CASE b # r
      <4>1. Routes6!Before(b, r) /\ b.dest \in {Routes6!Anywhere, NetOf6[l]}
        BY <2>1, <2>4, <2>5, <3>2 DEF Routes6!Matches
      <4> QED
        BY <2>2, <2>3, <4>1 DEF Routes6!Before, Routes6!Prefix
    <3> QED
      BY <3>1, <3>2
  <2>7. b.link = l
    BY <1>1, <1>2, <2>1, <2>5, <2>6 DEF Routes6!Matches, LinkedRoutes
  <2> QED
    BY <2>1, <2>2, <2>4, <2>7 DEF Routes6!Reached, b
<1>3. Routes6!Ours \cap Others = {}
  BY <1>1 DEF Routes6!Ours, Announcing
<1>4. Routes6!NeighboursAreReached
  BY <1>2, <1>3 DEF Routes6!NeighboursAreReached, Routes6!Pushed, Routes6!Forwarded
<1>5. \A a : Routes6!NetworkOf(a) = Routes6!LinkLocal => ~Routes6!Reached(routes6, a)
  BY DEF Routes6!Reached, Routes6!Matches
<1>6. \A a \in Others : Routes6!NetworkOf(a) = NetOf6[a]
  BY DEF Routes6!NetworkOf, Announcing
<1>7. Routes6!ScopeIsKept
  <2>1. ASSUME NEW a \in Others, NEW d \in Routes6!Devices, NetOf6[a] = Routes6!LinkLocal
        PROVE  (\A l \in Routes6!Pushed(a, d) : DevOf6[l] = d) /\ Routes6!Pushed(a, Routes6!None) = {}
    BY <1>5, <1>6, <2>1 DEF Routes6!Pushed, Routes6!OfDevice
  <2> QED
    BY <1>5, <2>1 DEF Routes6!ScopeIsKept, Routes6!Forwarded
<1> QED
  BY <1>4, <1>7

-----------------------------------------------------------------------------
(* Arp: the frames that wait                                               *)

\* What is done to n slots, one after the other, starting from x.
Walk(w, n, x, step) == w = [i \in 0..n |-> IF i = 0 THEN x ELSE step[<<i, w[i - 1]>>]]

Walked(w, m, S, x, step) ==
  w \in [0..m -> S] /\ w[0] = x /\ \A i \in 1..m : w[i] = step[<<i, w[i - 1]>>]

LEMMA WalkExists ==
  ASSUME NEW n \in Nat, NEW S, NEW x \in S, NEW step \in [(1..n) \X S -> S]
  PROVE  \E w \in [0..n -> S] : Walk(w, n, x, step)
<1> DEFINE Bad == {m \in 0..n : ~\E w : Walked(w, m, S, x, step)}
<1>1. Bad = {}
  <2> SUFFICES ASSUME Bad # {} PROVE FALSE
    OBVIOUS
  <2>1. PICK m \in Bad : \A k \in Bad : ~(k < m)
    <3>1. Bad \in SUBSET Nat /\ Bad # {}
      OBVIOUS
    <3> HIDE DEF Bad
    <3> QED
      BY <3>1, LeastOf
  <2>2. CASE m = 0
    <3>1. Walked([i \in 0..0 |-> x], 0, S, x, step)
      BY DEF Walked
    <3> QED
      BY <2>1, <2>2, <3>1
  <2>3. CASE m # 0
    <3>1. m \in 1..n /\ m - 1 \in 0..n /\ m - 1 \notin Bad
      BY <2>1, <2>3
    <3>2. PICK w : Walked(w, m - 1, S, x, step)
      BY <3>1
    <3> USE DEF Walked
    <3> DEFINE v == [i \in 0..m |-> IF i = m THEN step[<<m, w[m - 1]>>] ELSE w[i]]
    <3>3. w[m - 1] \in S /\ step[<<m, w[m - 1]>>] \in S
      BY <3>1, <3>2
    <3>4. v \in [0..m -> S] /\ v[0] = x
      BY <3>1, <3>2, <3>3
    <3>5. ASSUME NEW i \in 1..m PROVE v[i] = step[<<i, v[i - 1]>>]
      <4>1. v[i - 1] = w[i - 1]
        BY <3>1
      <4>2. CASE i = m
        BY <4>1, <4>2
      <4>3. CASE i # m
        <5>1. i \in 1..(m - 1) /\ v[i] = w[i]
          BY <3>1, <4>3
        <5> QED
          BY <3>2, <4>1, <5>1
      <4> QED
        BY <4>2, <4>3
    <3> HIDE DEF v
    <3>6. Walked(v, m, S, x, step)
      BY <3>4, <3>5
    <3> QED
      BY <2>1, <3>6
  <2> QED
    BY <2>2, <2>3
<1>2. PICK w : Walked(w, n, S, x, step)
  BY <1>1
<1>3. w = [i \in 0..n |-> IF i = 0 THEN x ELSE step[<<i, w[i - 1]>>]]
  <2>1. \A i \in 0..n : w[i] = IF i = 0 THEN x ELSE step[<<i, w[i - 1]>>]
    BY <1>2 DEF Walked
  <2>2. w \in [0..n -> S]
    BY <1>2 DEF Walked
  <2> QED
    BY <2>1, <2>2
<1> QED
  BY <1>2, <1>3 DEF Walk, Walked

Routed4 == Pending \in Nat /\ \A d \in DOMAIN NextHops : NextHops[d] \in Neighbours

ArpWaiters == [dst : DOMAIN NextHops, failures : Nat, refused : BOOLEAN]
ArpQueues == [1..Pending -> ArpWaiters \cup {Neighbour4!NoFrame}]
ArpEntries == [status : {"reachable", "stale"}, mac : Macs \cup {0}, fresh : BOOLEAN]
ArpSendings == [q : ArpQueues, freed : BOOLEAN]

\* A frame that waits was refused by the device, or its neighbour is not known.
Settled(f, c) == f # Neighbour4!NoFrame /\ ~f.refused => ~Neighbour4!Lookup(c, NextHops[f.dst])

ArpInv == /\ cache \in [Neighbours -> ArpEntries \cup {Neighbour4!NoEntry}] /\ queued \in ArpQueues
          /\ Neighbour4!WaitingIsUnresolved

LEMMA FailedFrame ==
  ASSUME NEW f \in ArpWaiters
  PROVE  /\ [f EXCEPT !.failures = @ + 1] \in ArpWaiters
         /\ [f EXCEPT !.failures = @ + 1].dst = f.dst
BY DEF ArpWaiters

LEMMA PostponeFrame ==
  ASSUME Routed4, NEW q \in ArpQueues, NEW g \in ArpWaiters
  PROVE  /\ Neighbour4!Postpone(q, g) \in ArpQueues
         /\ \A j \in 1..Pending : Neighbour4!Postpone(q, g)[j] \in {q[j], g}
<1> DEFINE free == {i \in 1..Pending : q[i] = Neighbour4!NoFrame}
<1>1. CASE free = {}
  BY <1>1 DEF Neighbour4!Postpone
<1>2. CASE free # {}
  <2>1. free \in SUBSET Nat
    BY DEF Routed4
  <2>2. \E i \in free : \A j \in free : ~(j < i)
    <3> HIDE DEF free
    <3> QED
      BY <1>2, <2>1, LeastOf
  <2>3. \E i \in free : \A j \in free : i <= j
    BY <2>1, <2>2
  <2> DEFINE k == CHOOSE i \in free : \A j \in free : i <= j
  <2>4. Neighbour4!Postpone(q, g) = [q EXCEPT ![k] = g]
    BY <1>2 DEF Neighbour4!Postpone
  <2>5. k \in free
    <3> HIDE DEF free
    <3> QED
      BY <2>3
  <2>6. k \in 1..Pending
    BY <2>5
  <2> HIDE DEF k, free
  <2> QED
    BY <2>4, <2>6 DEF ArpQueues
<1> QED
  BY <1>1, <1>2

LEMMA UnresolvedFrame ==
  ASSUME Routed4, NEW q \in ArpQueues, NEW f \in ArpWaiters
  PROVE  /\ Neighbour4!Unresolved(q, f) \in ArpQueues
         /\ \A j \in 1..Pending : \/ Neighbour4!Unresolved(q, f)[j] \in {q[j], Neighbour4!NoFrame}
                                  \/ Neighbour4!Unresolved(q, f)[j] \in ArpWaiters /\ Neighbour4!Unresolved(q, f)[j].dst = f.dst
<1> DEFINE g == [f EXCEPT !.failures = @ + 1]
           r == Neighbour4!Retry(q, NextHops[f.dst], g.failures)
<1>1. g \in ArpWaiters /\ g.dst = f.dst
  BY FailedFrame
<1>2. r \in ArpQueues /\ \A j \in 1..Pending : r[j] \in {q[j], Neighbour4!NoFrame}
  BY DEF Neighbour4!Retry, Neighbour4!Unreachable, ArpQueues
<1>3. Neighbour4!Unresolved(q, f) = Neighbour4!Postpone(r, g)
  BY DEF Neighbour4!Unresolved
<1> HIDE DEF g, r
<1> QED
  BY <1>1, <1>2, <1>3, PostponeFrame

LEMMA SlotSettles ==
  ASSUME Routed4, NEW c, NEW busy \in BOOLEAN, NEW s \in ArpSendings, NEW i \in 1..Pending
  PROVE  /\ Neighbour4!Slot(s, i, c, busy) \in ArpSendings
         /\ ~Neighbour4!Slot(s, i, c, busy).freed =>
              /\ ~s.freed /\ Settled(Neighbour4!Slot(s, i, c, busy).q[i], c)
              /\ \A j \in 1..Pending : Settled(s.q[j], c) => Settled(Neighbour4!Slot(s, i, c, busy).q[j], c)
<1> DEFINE f == s.q[i]
           n == Neighbour4!Slot(s, i, c, busy)
<1>0. /\ s.q \in ArpQueues /\ s.freed \in BOOLEAN /\ f \in ArpWaiters \cup {Neighbour4!NoFrame}
      /\ s = [q |-> s.q, freed |-> s.freed]
  BY DEF ArpSendings, ArpQueues
<1>1. CASE s.freed \/ f = Neighbour4!NoFrame
  <2>1. n = s
    BY <1>1 DEF Neighbour4!Slot
  <2> QED
    BY <1>0, <1>1, <2>1 DEF Settled
<1>2. CASE ~s.freed /\ f # Neighbour4!NoFrame /\ Neighbour4!Lookup(c, NextHops[f.dst])
  <2> DEFINE g == IF busy THEN [f EXCEPT !.refused = TRUE] ELSE Neighbour4!NoFrame
             p == [s.q EXCEPT ![i] = g]
  <2>1. n = [s EXCEPT !.q[i] = g]
    BY <1>2 DEF Neighbour4!Slot
  <2>2. [s EXCEPT !.q[i] = g] = [s EXCEPT !.q = p]
    BY <1>0
  <2>3. g \in ArpWaiters \cup {Neighbour4!NoFrame} /\ Settled(g, c)
    BY <1>0, <1>2 DEF ArpWaiters, Settled
  <2> HIDE DEF g
  <2>4. p \in ArpQueues /\ p[i] = g /\ \A j \in 1..Pending : j # i => p[j] = s.q[j]
    BY <1>0, <2>3 DEF ArpQueues
  <2> HIDE DEF n, p
  <2>5. n = [s EXCEPT !.q = p]
    BY <2>1, <2>2
  <2>6. n.q = p /\ n.freed = s.freed /\ n \in ArpSendings
    BY <2>4, <2>5 DEF ArpSendings
  <2>7. \A j \in 1..Pending : Settled(s.q[j], c) => Settled(p[j], c)
    BY <2>3, <2>4
  <2> QED
    BY <1>2, <2>3, <2>4, <2>6, <2>7 DEF n
<1>3. CASE ~s.freed /\ f # Neighbour4!NoFrame /\ ~Neighbour4!Lookup(c, NextHops[f.dst])
  <2> DEFINE u == Neighbour4!Unresolved(s.q, f)
             p == [u EXCEPT ![i] = Neighbour4!NoFrame]
  <2>1. n = [q |-> p, freed |-> f.failures >= 3]
    BY <1>3 DEF Neighbour4!Slot
  <2>2. /\ u \in ArpQueues
        /\ \A j \in 1..Pending : \/ u[j] \in {s.q[j], Neighbour4!NoFrame}
                                 \/ u[j] \in ArpWaiters /\ u[j].dst = f.dst
    BY <1>0, <1>3, UnresolvedFrame
  <2> HIDE DEF u
  <2>3. p \in ArpQueues /\ p[i] = Neighbour4!NoFrame /\ \A j \in 1..Pending : j # i => p[j] = u[j]
    BY <2>2 DEF ArpQueues
  <2>4. \A j \in 1..Pending : Settled(s.q[j], c) => Settled(p[j], c)
    BY <1>3, <2>2, <2>3 DEF Settled
  <2>5. (f.failures >= 3) \in BOOLEAN
    OBVIOUS
  <2> HIDE DEF p, n
  <2>6. n.q = p /\ n \in ArpSendings
    BY <2>1, <2>3, <2>5 DEF ArpSendings
  <2> QED
    BY <1>3, <2>3, <2>4, <2>6 DEF n, Settled
<1> QED
  BY <1>1, <1>2, <1>3

IsTrigger(t, q, c, busy) ==
  t = [i \in 0..Pending |-> IF i = 0 THEN [q |-> q, freed |-> FALSE]
                            ELSE Neighbour4!Slot(t[i - 1], i, c, busy)]

LEMMA TriggerSlots ==
  ASSUME Pending \in Nat, NEW t, NEW q, NEW c, NEW busy, IsTrigger(t, q, c, busy)
  PROVE  t[0] = [q |-> q, freed |-> FALSE] /\ \A i \in 1..Pending : t[i] = Neighbour4!Slot(t[i - 1], i, c, busy)
<1>1. \A i \in 0..Pending : t[i] = IF i = 0 THEN [q |-> q, freed |-> FALSE]
                                   ELSE Neighbour4!Slot(t[i - 1], i, c, busy)
  <2> DEFINE F(i) == IF i = 0 THEN [q |-> q, freed |-> FALSE] ELSE Neighbour4!Slot(t[i - 1], i, c, busy)
  <2>1. t = [i \in 0..Pending |-> F(i)]
    BY DEF IsTrigger
  <2> HIDE DEF F
  <2>2. \A i \in 0..Pending : t[i] = F(i)
    BY <2>1
  <2> QED
    BY <2>2 DEF F
<1>2. 0 \in 0..Pending /\ \A i \in 1..Pending : i \in 0..Pending /\ i # 0
  OBVIOUS
<1> QED
  BY <1>1, <1>2

LEMMA TriggerSettles ==
  ASSUME Routed4, NEW c, NEW busy \in BOOLEAN, NEW q \in ArpQueues
  PROVE  /\ Neighbour4!Trigger(q, c, busy) \in ArpSendings
         /\ ~Neighbour4!Trigger(q, c, busy).freed =>
              \A j \in 1..Pending : Settled(Neighbour4!Trigger(q, c, busy).q[j], c)
<1> DEFINE x == [q |-> q, freed |-> FALSE]
           step == [y \in (1..Pending) \X ArpSendings |-> Neighbour4!Slot(y[2], y[1], c, busy)]
           t == CHOOSE t : IsTrigger(t, q, c, busy)
<1>0. Pending \in Nat
  BY DEF Routed4
<1>1. x \in ArpSendings
  BY DEF ArpSendings
<1>2. step \in [(1..Pending) \X ArpSendings -> ArpSendings]
  BY SlotSettles
<1>3. PICK w \in [0..Pending -> ArpSendings] : Walk(w, Pending, x, step)
  <2> HIDE DEF x, step
  <2> QED
    BY <1>0, <1>1, <1>2, WalkExists
<1>4. IsTrigger(w, q, c, busy)
  <2>1. \A i \in 1..Pending : w[i - 1] \in ArpSendings
    BY <1>0, <1>3
  <2>2. \A i \in 1..Pending : step[<<i, w[i - 1]>>] = Neighbour4!Slot(w[i - 1], i, c, busy)
    BY <2>1
  <2> HIDE DEF step
  <2>3. w = [i \in 0..Pending |-> IF i = 0 THEN x ELSE step[<<i, w[i - 1]>>]]
    BY <1>3 DEF Walk
  <2>4. \A i \in 0..Pending : i = 0 \/ i \in 1..Pending
    BY <1>0
  <2> QED
    BY <2>2, <2>3, <2>4 DEF IsTrigger
<1>5. Neighbour4!Trigger(q, c, busy) = t[Pending]
  BY DEF Neighbour4!Trigger, IsTrigger
<1> HIDE DEF step
<1>6. IsTrigger(t, q, c, busy)
  BY <1>4
<1> HIDE DEF t
<1>7. t[0] = x /\ \A i \in 1..Pending : t[i] = Neighbour4!Slot(t[i - 1], i, c, busy)
  BY <1>0, <1>6, TriggerSlots
<1> DEFINE Done(i) == /\ t[i] \in ArpSendings
                      /\ ~t[i].freed => \A j \in 1..i : Settled(t[i].q[j], c)
           Bad == {i \in 0..Pending : ~Done(i)}
<1>8. Bad = {}
  <2> SUFFICES ASSUME Bad # {} PROVE FALSE
    OBVIOUS
  <2>1. PICK n \in Bad : \A m \in Bad : ~(m < n)
    <3>1. Bad \in SUBSET Nat /\ Bad # {}
      BY <1>0
    <3> HIDE DEF Bad
    <3> QED
      BY <3>1, LeastOf
  <2>2. CASE n = 0
    BY <1>1, <1>7, <2>1, <2>2
  <2>3. CASE n # 0
    <3>1. n \in 1..Pending /\ n - 1 \in 0..Pending /\ n - 1 < n
      BY <1>0, <2>1, <2>3
    <3>2. Done(n - 1)
      BY <2>1, <3>1
    <3>3. t[n] = Neighbour4!Slot(t[n - 1], n, c, busy)
      BY <1>7, <3>1
    <3> DEFINE s == t[n - 1]
    <3>4. /\ t[n] \in ArpSendings
          /\ ~t[n].freed =>
               /\ ~s.freed /\ Settled(t[n].q[n], c)
               /\ \A j \in 1..Pending : Settled(s.q[j], c) => Settled(t[n].q[j], c)
      BY <3>1, <3>2, <3>3, SlotSettles
    <3>5. ASSUME ~t[n].freed, NEW j \in 1..n PROVE Settled(t[n].q[j], c)
      <4>1. CASE j = n
        BY <3>4, <3>5, <4>1
      <4>2. CASE j # n
        <5>1. j \in 1..(n - 1) /\ j \in 1..Pending
          BY <1>0, <3>1, <4>2
        <5> QED
          BY <3>2, <3>4, <3>5, <5>1
      <4> QED
        BY <4>1, <4>2
    <3> QED
      BY <2>1, <3>4, <3>5
  <2> QED
    BY <2>2, <2>3
<1>9. Pending \in 0..Pending /\ Pending \notin Bad
  BY <1>0, <1>8
<1> QED
  BY <1>5, <1>9

LEMMA AddEntryStep ==
  ASSUME Routed4, ArpInv, NEW h \in Neighbours, NEW mac \in Macs \cup {0}, NEW busy \in BOOLEAN,
         Neighbour4!AddEntry(h, mac, busy)
  PROVE  ArpInv'
<1> DEFINE c == [cache EXCEPT ![h] = Neighbour4!Reachable(mac)]
           t == Neighbour4!Trigger(queued, c, busy)
<1>1. cache' = c /\ queued' = t.q /\ freed' = t.freed
  BY DEF Neighbour4!AddEntry
<1>2. c \in [Neighbours -> ArpEntries \cup {Neighbour4!NoEntry}]
  BY DEF ArpInv, ArpEntries, Neighbour4!Reachable
<1> HIDE DEF c
<1>3. t \in ArpSendings /\ (~t.freed => \A j \in 1..Pending : Settled(t.q[j], c))
  BY TriggerSettles DEF ArpInv
<1> HIDE DEF t
<1> QED
  BY <1>1, <1>2, <1>3 DEF ArpInv, ArpSendings, Settled, Neighbour4!WaitingIsUnresolved

\* No more is known than before, and nothing else waits.
LEMMA ArpCacheStep ==
  ASSUME ArpInv, UNCHANGED <<queued, freed>>, cache' \in [Neighbours -> ArpEntries \cup {Neighbour4!NoEntry}], Routed4,
         \A h \in Neighbours : Neighbour4!Lookup(cache', h) => Neighbour4!Lookup(cache, h)
  PROVE  ArpInv'
<1>1. \A i \in 1..Pending : queued[i] # Neighbour4!NoFrame => NextHops[queued[i].dst] \in Neighbours
  BY DEF ArpInv, ArpQueues, ArpWaiters, Routed4
<1> QED
  BY <1>1 DEF ArpInv, Neighbour4!WaitingIsUnresolved

LEMMA ArpInitially ==
  ASSUME Neighbour4!Init
  PROVE  ArpInv
BY DEF Neighbour4!Init, ArpInv, Neighbour4!WaitingIsUnresolved, ArpEntries, Neighbour4!NoEntry, ArpQueues

LEMMA ArpStep ==
  ASSUME Routed4, ArpInv, Neighbour4!Next \/ UNCHANGED Neighbour4!vars
  PROVE  ArpInv'
<1>1. CASE UNCHANGED <<cache, queued, freed>>
  BY <1>1 DEF ArpInv, Neighbour4!WaitingIsUnresolved
<1>2. ASSUME NEW dst \in DOMAIN NextHops, Neighbour4!Send(dst) PROVE ArpInv'
  <2>1. CASE Neighbour4!Lookup(cache, NextHops[dst])
    BY <1>1, <1>2, <2>1 DEF Neighbour4!Send
  <2>2. CASE ~Neighbour4!Lookup(cache, NextHops[dst])
    <3> DEFINE f == Neighbour4!Frame(dst)
               u == Neighbour4!Unresolved(queued, f)
    <3>1. f \in ArpWaiters /\ f.dst = dst
      BY DEF Neighbour4!Frame, Neighbour4!NoFrame, ArpWaiters
    <3> HIDE DEF f
    <3>2. /\ u \in ArpQueues
          /\ \A j \in 1..Pending : u[j] \in {queued[j], Neighbour4!NoFrame} \/ u[j].dst = dst
      BY <3>1, UnresolvedFrame DEF ArpInv
    <3>3. queued' = u /\ cache' = cache /\ freed' = freed
      BY <1>2, <2>2 DEF Neighbour4!Send, f
    <3> HIDE DEF u
    <3> QED
      BY <2>2, <3>2, <3>3 DEF ArpInv, Neighbour4!WaitingIsUnresolved
  <2> QED
    BY <2>1, <2>2
<1>3. ASSUME NEW h \in Neighbours, Neighbour4!ArpExpire(h) PROVE ArpInv'
  <2> DEFINE a == [cache[h] EXCEPT !.fresh = FALSE]
             b == [a EXCEPT !.status = IF cache[h].fresh THEN @ ELSE "stale"]
  <2>1. cache[h] \in ArpEntries
    BY <1>3 DEF ArpInv, Neighbour4!ArpExpire, Neighbour4!NoEntry
  <2>2. a \in ArpEntries /\ a.status = cache[h].status
    BY <2>1 DEF ArpEntries
  <2> HIDE DEF a
  <2>3. b \in ArpEntries /\ (b.status = "reachable" => cache[h].status = "reachable")
    BY <2>2 DEF ArpEntries
  <2>4. cache' = [cache EXCEPT ![h] = b]
    BY <1>3 DEF Neighbour4!ArpExpire, Neighbour4!Expire, ArpInv, a
  <2> HIDE DEF b
  <2> QED
    BY <1>3, <2>3, <2>4, ArpCacheStep DEF Neighbour4!ArpExpire, ArpInv, Neighbour4!Lookup
<1>4. ASSUME NEW h \in Neighbours, NEW mac \in Macs, cache[h] # Neighbour4!NoEntry, Neighbour4!Update(h, mac),
             UNCHANGED <<queued, freed>>
      PROVE  ArpInv'
  <2> DEFINE a == [cache[h] EXCEPT !.mac = mac]
             b == [a EXCEPT !.fresh = TRUE]
  <2>1. cache[h] \in ArpEntries
    BY <1>4 DEF ArpInv, Neighbour4!ArpExpire, Neighbour4!NoEntry
  <2>2. a \in ArpEntries /\ a.status = cache[h].status
    BY <2>1 DEF ArpEntries
  <2> HIDE DEF a
  <2>3. b \in ArpEntries /\ b.status = cache[h].status
    BY <2>2 DEF ArpEntries
  <2>4. cache' = [cache EXCEPT ![h] = b]
    BY <1>4 DEF Neighbour4!Update, ArpInv, a
  <2> HIDE DEF b
  <2> QED
    BY <1>4, <2>3, <2>4, ArpCacheStep DEF ArpInv, Neighbour4!Lookup
<1>5. ASSUME NEW h \in Neighbours, NEW mac \in Macs, NEW request, NEW forMe, NEW busy \in BOOLEAN,
             Neighbour4!Receive(h, mac, request, forMe, busy)
      PROVE  ArpInv'
  <2>1. cache[h].mac \in Macs \cup {0}
    BY DEF ArpInv, ArpEntries, Neighbour4!NoEntry
  <2>2. CASE cache[h] # Neighbour4!NoEntry
    <3>1. Neighbour4!LookupEntry(h, mac, busy)
      BY <1>5, <2>2 DEF Neighbour4!Receive
    <3>2. cache[h].status \in {"reachable", "stale"}
      BY <2>2 DEF ArpInv, ArpEntries
    <3>3. CASE cache[h].status = "stale"
      <4>1. Neighbour4!AddEntry(h, cache[h].mac, busy)
        BY <3>1, <3>3 DEF Neighbour4!LookupEntry
      <4> QED
        BY <2>1, <4>1, AddEntryStep
    <3>4. CASE cache[h].status = "reachable"
      <4>1. Neighbour4!Update(h, mac) /\ UNCHANGED <<queued, freed>>
        BY <3>1, <3>4 DEF Neighbour4!LookupEntry
      <4> QED
        BY <1>4, <2>2, <4>1
    <3> QED
      BY <3>2, <3>3, <3>4
  <2>3. CASE cache[h] = Neighbour4!NoEntry
    BY <1>1, <1>5, <2>3, AddEntryStep DEF Neighbour4!Receive
  <2> QED
    BY <2>2, <2>3
<1> QED
  BY <1>1, <1>2, <1>3, <1>5 DEF Neighbour4!Next, Neighbour4!vars, Neighbour4!MoreRequests

-----------------------------------------------------------------------------
(* Ipv6Nd: the neighbours                                                  *)

Neighbourly == /\ Slots \in Nat \ {0} /\ MaxSolicit \in Nat
               /\ Neighbour6!Nobody \notin Neighbours

NdStates == {"none", "incomplete", "reachable", "stale", "delay", "probe"}
NdEntries == [state : NdStates, mac : Macs \cup {0}, failures : Nat]
NdCaches == [Neighbours -> NdEntries]
NdTables == [c : NdCaches, w : [1 .. Slots -> Neighbours \cup {Neighbour6!Nobody}], last : Nat]

AskedFor(c, w, i) == w[i] # Neighbour6!Nobody => c[w[i]].state = "incomplete"

NdInv == /\ Neighbour6!Now(ncache) \in NdTables
         /\ said \in [Neighbours -> Macs \cup {0}]
         /\ Neighbour6!WaitingIsAskedFor /\ Neighbour6!ReachableAsSaid

\* What sending changes in the cache: who is asked for stays so, and nobody becomes
\* reachable or changes the address.
AsksOn(c, d) == \A h \in Neighbours :
  /\ c[h].state = "incomplete" => d[h].state = "incomplete"
  /\ d[h].state = "reachable" => c[h].state = "reachable"
  /\ d[h].mac = c[h].mac

LEMMA StateSet ==
  ASSUME NEW n \in NdEntries, NEW st \in NdStates
  PROVE  /\ [n EXCEPT !.state = st] \in NdEntries /\ [n EXCEPT !.state = st].state = st
         /\ [n EXCEPT !.state = st].mac = n.mac
BY DEF NdEntries

LEMMA MacSet ==
  ASSUME NEW n \in NdEntries, NEW m \in Macs \cup {0}
  PROVE  /\ [n EXCEPT !.mac = m] \in NdEntries /\ [n EXCEPT !.mac = m].state = n.state
         /\ [n EXCEPT !.mac = m].mac = m
BY DEF NdEntries

LEMMA FailuresSet ==
  ASSUME NEW n \in NdEntries, NEW k \in Nat
  PROVE  /\ [n EXCEPT !.failures = k] \in NdEntries
         /\ [n EXCEPT !.failures = k].state = n.state /\ [n EXCEPT !.failures = k].mac = n.mac
BY DEF NdEntries

LEMMA DiscoveredEntry ==
  ASSUME NEW n \in NdEntries
  PROVE  /\ Neighbour6!Discovered(n) \in NdEntries
         /\ Neighbour6!Discovered(n).state = n.state /\ Neighbour6!Discovered(n).mac = n.mac
<1>1. n.failures \in Nat /\ n.failures + 1 \in Nat
  BY DEF NdEntries
<1> DEFINE k == IF n.failures > MaxSolicit THEN n.failures ELSE n.failures + 1
<1>2. k \in Nat /\ Neighbour6!Discovered(n) = [n EXCEPT !.failures = k]
  BY <1>1 DEF Neighbour6!Discovered
<1> HIDE DEF k
<1> QED
  BY <1>2, FailuresSet

LEMMA UsedEntry ==
  ASSUME NEW n \in NdEntries
  PROVE  /\ Neighbour6!Used(n) \in NdEntries /\ Neighbour6!Used(n).mac = n.mac
         /\ Neighbour6!Unresolved(n) => Neighbour6!Used(n).state = "incomplete"
         /\ Neighbour6!Used(n).state = "reachable" => n.state = "reachable"
<1>1. CASE n.state = "none"
  <2> DEFINE m == [n EXCEPT !.state = "incomplete"]
  <2>1. m \in NdEntries /\ m.state = "incomplete" /\ m.mac = n.mac
    BY StateSet DEF NdStates
  <2>2. Neighbour6!Used(n) = Neighbour6!Discovered(m)
    BY <1>1 DEF Neighbour6!Used
  <2> HIDE DEF m
  <2> QED
    BY <2>1, <2>2, DiscoveredEntry
<1>2. CASE n.state = "stale"
  <2> DEFINE m == [n EXCEPT !.state = "delay"]
  <2>1. Neighbour6!Used(n) = m
    BY <1>2 DEF Neighbour6!Used
  <2>2. m \in NdEntries /\ m.state = "delay" /\ m.mac = n.mac
    BY StateSet DEF NdStates
  <2> HIDE DEF m
  <2> QED
    BY <1>2, <2>1, <2>2 DEF Neighbour6!Unresolved
<1>3. CASE n.state \notin {"none", "stale"}
  <2>1. Neighbour6!Used(n) = n
    BY <1>3 DEF Neighbour6!Used
  <2> QED
    BY <1>3, <2>1 DEF Neighbour6!Unresolved
<1> QED
  BY <1>1, <1>2, <1>3

LEMMA ConfirmedEntry ==
  ASSUME NEW n \in NdEntries
  PROVE  Neighbour6!Confirmed(n) \in NdEntries /\ Neighbour6!Confirmed(n).mac = n.mac /\ Neighbour6!Confirmed(n).state = "reachable"
<1> DEFINE m == [n EXCEPT !.state = "reachable"]
<1>1. m \in NdEntries /\ m.state = "reachable" /\ m.mac = n.mac
  BY StateSet DEF NdStates
<1>2. Neighbour6!Confirmed(n) = [m EXCEPT !.failures = 0]
  BY DEF Neighbour6!Confirmed
<1> HIDE DEF m
<1> QED
  BY <1>1, <1>2, FailuresSet

LEMMA PostponeKeeps ==
  ASSUME Neighbourly, NEW s \in NdTables, NEW h \in Neighbours
  PROVE  /\ Neighbour6!Postpone(s, h) \in NdTables /\ Neighbour6!Postpone(s, h).c = s.c
         /\ \A j \in 1 .. Slots : Neighbour6!Postpone(s, h).w[j] \in {s.w[j], h}
<1> DEFINE free == {i \in 1 .. Slots : s.w[i] = Neighbour6!Nobody}
           slot == IF free = {} THEN (s.last % Slots) + 1
                   ELSE CHOOSE i \in free : \A j \in free : i <= j
           w == [s.w EXCEPT ![slot] = h]
           a == [s EXCEPT !.w = w]
           b == [a EXCEPT !.last = slot]
<1>1. slot \in 1 .. Slots
  <2>1. CASE free = {}
    <3>1. s.last \in Nat /\ Slots \in Nat /\ Slots > 0
      BY DEF NdTables, Neighbourly
    <3>2. s.last % Slots \in 0 .. (Slots - 1)
      BY <3>1
    <3> QED
      BY <2>1, <3>1, <3>2
  <2>2. CASE free # {}
    <3>1. free \in SUBSET Nat /\ free \subseteq 1 .. Slots
      BY DEF Neighbourly
    <3> HIDE DEF free
    <3>2. \E i \in free : \A j \in free : ~(j < i)
      BY <2>2, <3>1, LeastOf
    <3>3. \E i \in free : \A j \in free : i <= j
      BY <3>1, <3>2
    <3>4. (CHOOSE i \in free : \A j \in free : i <= j) \in free
      BY <3>3
    <3> QED
      BY <2>2, <3>1, <3>4
  <2> QED
    BY <2>1, <2>2
<1>2. Neighbour6!Postpone(s, h) = b
  BY DEF Neighbour6!Postpone, NdTables
<1> HIDE DEF slot
<1>3. w \in [1 .. Slots -> Neighbours \cup {Neighbour6!Nobody}] /\ \A j \in 1 .. Slots : w[j] \in {s.w[j], h}
  BY <1>1 DEF NdTables
<1> HIDE DEF w
<1>4. a \in NdTables /\ a.c = s.c /\ a.w = w
  BY <1>3 DEF NdTables
<1> HIDE DEF a
<1>5. slot \in Nat
  BY <1>1 DEF Neighbourly
<1>6. b \in NdTables /\ b.c = a.c /\ b.w = a.w
  BY <1>4, <1>5 DEF NdTables
<1> HIDE DEF b
<1> QED
  BY <1>2, <1>3, <1>4, <1>6

LEMMA SendKeeps ==
  ASSUME Neighbourly, NEW s \in NdTables, NEW h \in Neighbours
  PROVE  /\ Neighbour6!EthernetSend(s, h) \in NdTables /\ AsksOn(s.c, Neighbour6!EthernetSend(s, h).c)
         /\ \A j \in 1 .. Slots : AskedFor(s.c, s.w, j) =>
               AskedFor(Neighbour6!EthernetSend(s, h).c, Neighbour6!EthernetSend(s, h).w, j)
<1> DEFINE c == [s.c EXCEPT ![h] = Neighbour6!Used(s.c[h])]
           t == [s EXCEPT !.c = c]
           r == Neighbour6!EthernetSend(s, h)
<1>1. s.c \in NdCaches /\ s.c[h] \in NdEntries
  BY DEF NdTables, NdCaches
<1>2. c \in NdCaches /\ \A k \in Neighbours : c[k] = IF k = h THEN Neighbour6!Used(s.c[h]) ELSE s.c[k]
  BY <1>1, UsedEntry DEF NdCaches
<1>3. AsksOn(s.c, c)
  BY <1>1, <1>2, UsedEntry DEF AsksOn, Neighbour6!Unresolved
<1>4. r = IF Neighbour6!Unresolved(s.c[h]) THEN Neighbour6!Postpone(t, h) ELSE t
  BY DEF Neighbour6!EthernetSend, NdTables
<1>5. Neighbour6!Unresolved(s.c[h]) => c[h].state = "incomplete"
  BY <1>1, <1>2, UsedEntry
<1> HIDE DEF c
<1>6. t \in NdTables /\ t.c = c /\ t.w = s.w
  BY <1>2 DEF NdTables
<1> HIDE DEF t
<1>7. /\ r \in NdTables /\ r.c = c
      /\ \A j \in 1 .. Slots : r.w[j] = s.w[j] \/ (r.w[j] = h /\ c[h].state = "incomplete")
  BY <1>4, <1>5, <1>6, PostponeKeeps
<1> HIDE DEF r
<1>8. \A j \in 1 .. Slots : s.w[j] \in Neighbours \cup {Neighbour6!Nobody}
  BY DEF NdTables
<1>9. \A j \in 1 .. Slots : AskedFor(s.c, s.w, j) => AskedFor(r.c, r.w, j)
  BY <1>3, <1>7, <1>8 DEF AskedFor, AsksOn
<1> QED
  BY <1>3, <1>7, <1>9 DEF r

\* A slot of the walk over the frames that wait.
TrySlot(u, i) == IF u.w[i] = Neighbour6!Nobody THEN u ELSE [Neighbour6!EthernetSend(u, u.w[i]) EXCEPT !.w[i] = Neighbour6!Nobody]

LEMMA TrySlotKeeps ==
  ASSUME Neighbourly, NEW u \in NdTables, NEW i \in 1 .. Slots
  PROVE  /\ TrySlot(u, i) \in NdTables /\ AsksOn(u.c, TrySlot(u, i).c)
         /\ AskedFor(TrySlot(u, i).c, TrySlot(u, i).w, i)
         /\ \A j \in 1 .. Slots : AskedFor(u.c, u.w, j) => AskedFor(TrySlot(u, i).c, TrySlot(u, i).w, j)
<1>1. CASE u.w[i] = Neighbour6!Nobody
  BY <1>1 DEF TrySlot, AsksOn, AskedFor
<1>2. CASE u.w[i] # Neighbour6!Nobody
  <2> DEFINE s == Neighbour6!EthernetSend(u, u.w[i])
             w == [s.w EXCEPT ![i] = Neighbour6!Nobody]
             r == [s EXCEPT !.w = w]
  <2>1. u.w[i] \in Neighbours
    BY <1>2 DEF NdTables
  <2>2. /\ s \in NdTables /\ AsksOn(u.c, s.c)
        /\ \A j \in 1 .. Slots : AskedFor(u.c, u.w, j) => AskedFor(s.c, s.w, j)
    BY <2>1, SendKeeps
  <2>3. TrySlot(u, i) = [s EXCEPT !.w[i] = Neighbour6!Nobody]
    BY <1>2 DEF TrySlot
  <2> HIDE DEF s
  <2>4. [s EXCEPT !.w[i] = Neighbour6!Nobody] = r
    BY <2>2 DEF NdTables
  <2>5. w \in [1 .. Slots -> Neighbours \cup {Neighbour6!Nobody}] /\ w[i] = Neighbour6!Nobody
        /\ \A j \in 1 .. Slots : j # i => w[j] = s.w[j]
    BY <2>2 DEF NdTables
  <2> HIDE DEF w
  <2>6. r \in NdTables /\ r.c = s.c /\ r.w = w
    BY <2>2, <2>5 DEF NdTables
  <2> HIDE DEF r
  <2>7. AskedFor(r.c, r.w, i) /\ \A j \in 1 .. Slots : AskedFor(s.c, s.w, j) => AskedFor(r.c, r.w, j)
    BY <2>5, <2>6 DEF AskedFor
  <2> QED
    BY <2>2, <2>3, <2>4, <2>6, <2>7
<1> QED
  BY <1>1, <1>2

IsWalk(t, s) == t = [i \in 0 .. Slots |-> IF i = 0 THEN s ELSE TrySlot(t[i - 1], i)]

LEMMA WalkSlots ==
  ASSUME Slots \in Nat, NEW t, NEW s, IsWalk(t, s)
  PROVE  t[0] = s /\ \A i \in 1 .. Slots : t[i] = TrySlot(t[i - 1], i)
<1>1. \A i \in 0 .. Slots : t[i] = IF i = 0 THEN s ELSE TrySlot(t[i - 1], i)
  <2> DEFINE F(i) == IF i = 0 THEN s ELSE TrySlot(t[i - 1], i)
  <2>1. t = [i \in 0 .. Slots |-> F(i)]
    BY DEF IsWalk
  <2> HIDE DEF F
  <2>2. \A i \in 0 .. Slots : t[i] = F(i)
    BY <2>1
  <2> QED
    BY <2>2 DEF F
<1>2. 0 \in 0 .. Slots /\ \A i \in 1 .. Slots : i \in 0 .. Slots /\ i # 0
  OBVIOUS
<1> QED
  BY <1>1, <1>2

LEMMA TriggerAsks ==
  ASSUME Neighbourly, NEW s \in NdTables
  PROVE  /\ Neighbour6!Trigger(s) \in NdTables /\ AsksOn(s.c, Neighbour6!Trigger(s).c)
         /\ \A j \in 1 .. Slots : AskedFor(Neighbour6!Trigger(s).c, Neighbour6!Trigger(s).w, j)
<1> DEFINE step == [y \in (1..Slots) \X NdTables |-> TrySlot(y[2], y[1])]
           t == CHOOSE t : IsWalk(t, s)
<1>0. Slots \in Nat
  BY DEF Neighbourly
<1>2. step \in [(1..Slots) \X NdTables -> NdTables]
  BY TrySlotKeeps
<1>3. PICK w \in [0..Slots -> NdTables] : Walk(w, Slots, s, step)
  <2> HIDE DEF step
  <2> QED
    BY <1>0, <1>2, WalkExists
<1>4. IsWalk(w, s)
  <2>1. \A i \in 1..Slots : w[i - 1] \in NdTables
    BY <1>0, <1>3
  <2>2. \A i \in 1..Slots : step[<<i, w[i - 1]>>] = TrySlot(w[i - 1], i)
    BY <2>1
  <2> HIDE DEF step
  <2>3. w = [i \in 0..Slots |-> IF i = 0 THEN s ELSE step[<<i, w[i - 1]>>]]
    BY <1>3 DEF Walk
  <2>4. \A i \in 0..Slots : i = 0 \/ i \in 1..Slots
    BY <1>0
  <2> QED
    BY <2>2, <2>3, <2>4 DEF IsWalk
<1>5. Neighbour6!Trigger(s) = t[Slots]
  BY DEF Neighbour6!Trigger, IsWalk, TrySlot
<1> HIDE DEF step
<1>6. IsWalk(t, s)
  BY <1>4
<1> HIDE DEF t
<1>7. t[0] = s /\ \A i \in 1..Slots : t[i] = TrySlot(t[i - 1], i)
  BY <1>0, <1>6, WalkSlots
<1> DEFINE Done(i) == /\ t[i] \in NdTables /\ AsksOn(s.c, t[i].c)
                      /\ \A j \in 1..i : AskedFor(t[i].c, t[i].w, j)
           Bad == {i \in 0..Slots : ~Done(i)}
<1>8. Bad = {}
  <2> SUFFICES ASSUME Bad # {} PROVE FALSE
    OBVIOUS
  <2>1. PICK n \in Bad : \A m \in Bad : ~(m < n)
    <3>1. Bad \in SUBSET Nat /\ Bad # {}
      BY <1>0
    <3> HIDE DEF Bad
    <3> QED
      BY <3>1, LeastOf
  <2>2. CASE n = 0
    BY <1>7, <2>1, <2>2 DEF AsksOn
  <2>3. CASE n # 0
    <3>1. n \in 1..Slots /\ n - 1 \in 0..Slots /\ n - 1 < n
      BY <1>0, <2>1, <2>3
    <3>2. Done(n - 1)
      BY <2>1, <3>1
    <3>3. t[n] = TrySlot(t[n - 1], n)
      BY <1>7, <3>1
    <3> DEFINE u == t[n - 1]
    <3>4. /\ t[n] \in NdTables /\ AsksOn(u.c, t[n].c) /\ AskedFor(t[n].c, t[n].w, n)
          /\ \A j \in 1..Slots : AskedFor(u.c, u.w, j) => AskedFor(t[n].c, t[n].w, j)
      BY <3>1, <3>2, <3>3, TrySlotKeeps
    <3>5. ASSUME NEW j \in 1..n PROVE AskedFor(t[n].c, t[n].w, j)
      <4>1. CASE j = n
        BY <3>4, <4>1
      <4>2. CASE j # n
        <5>1. j \in 1..(n - 1) /\ j \in 1..Slots
          BY <1>0, <3>1, <4>2
        <5> QED
          BY <3>2, <3>4, <5>1
      <4> QED
        BY <4>1, <4>2
    <3>6. AsksOn(s.c, t[n].c)
      BY <3>2, <3>4 DEF AsksOn
    <3> QED
      BY <2>1, <3>4, <3>5, <3>6
  <2> QED
    BY <2>2, <2>3
<1>9. Slots \in 0..Slots /\ Slots \notin Bad
  BY <1>0, <1>8
<1> QED
  BY <1>5, <1>9

\* The tables after a step.
LEMMA NowFields ==
  ASSUME NEW c
  PROVE  /\ Neighbour6!Now(c).c = c /\ Neighbour6!Now(c).w = waiting /\ Neighbour6!Now(c).last = lastEnq
         /\ Neighbour6!Now(c) = [c |-> c, w |-> waiting, last |-> lastEnq]
BY DEF Neighbour6!Now

LEMMA BecomeKeeps ==
  ASSUME NEW s \in NdTables, Neighbour6!Become(s), said' \in [Neighbours -> Macs \cup {0}],
         \A j \in 1 .. Slots : AskedFor(s.c, s.w, j),
         \A h \in Neighbours : s.c[h].state = "reachable" /\ said'[h] # 0 => s.c[h].mac = said'[h]
  PROVE  NdInv'
<1>1. ncache' = s.c /\ waiting' = s.w /\ lastEnq' = s.last
  BY DEF Neighbour6!Become
<1>2. Neighbour6!Now(ncache)' = [c |-> s.c, w |-> s.w, last |-> s.last]
  BY <1>1 DEF Neighbour6!Now
<1>3. Neighbour6!Now(ncache)' \in NdTables
  BY <1>2 DEF NdTables
<1>4. Neighbour6!WaitingIsAskedFor' /\ Neighbour6!ReachableAsSaid'
  BY <1>1 DEF Neighbour6!WaitingIsAskedFor, Neighbour6!ReachableAsSaid, AskedFor
<1> QED
  BY <1>3, <1>4 DEF NdInv

LEMMA ChangedTables ==
  ASSUME NdInv, NEW h \in Neighbours, NEW n \in NdEntries
  PROVE  /\ Neighbour6!Now(Neighbour6!Changed(h, n)) \in NdTables
         /\ \A k \in Neighbours : Neighbour6!Now(Neighbour6!Changed(h, n)).c[k] = IF k = h THEN n ELSE ncache[k]
         /\ Neighbour6!Now(Neighbour6!Changed(h, n)).w = waiting
<1>1. ncache \in NdCaches /\ Neighbour6!Now(ncache) \in NdTables
  BY DEF NdInv, NdTables, Neighbour6!Now
<1>2. Neighbour6!Changed(h, n) \in NdCaches /\ \A k \in Neighbours : Neighbour6!Changed(h, n)[k] = IF k = h THEN n ELSE ncache[k]
  BY <1>1 DEF Neighbour6!Changed, NdCaches
<1> HIDE DEF Neighbour6!Changed
<1>3. waiting \in [1 .. Slots -> Neighbours \cup {Neighbour6!Nobody}] /\ lastEnq \in Nat
  BY <1>1 DEF NdTables, Neighbour6!Now
<1> QED
  BY <1>2, <1>3 DEF NdTables, Neighbour6!Now

\* A neighbour changes, who is not asked for before or still is.
LEMMA JustKeeps ==
  ASSUME NdInv, NEW h \in Neighbours, NEW n \in NdEntries, Neighbour6!Just(h, n),
         ncache[h].state = "incomplete" => n.state = "incomplete",
         NEW m \in Macs \cup {0}, said' = [said EXCEPT ![h] = m],
         n.state = "reachable" /\ m # 0 => n.mac = m
  PROVE  NdInv'
<1> DEFINE s == Neighbour6!Now(Neighbour6!Changed(h, n))
<1>1. /\ s \in NdTables /\ s.w = waiting
      /\ \A k \in Neighbours : s.c[k] = IF k = h THEN n ELSE ncache[k]
  BY ChangedTables
<1>2. Neighbour6!Become(s)
  BY DEF Neighbour6!Just
<1> HIDE DEF s
<1>3. said' \in [Neighbours -> Macs \cup {0}] /\ \A k \in Neighbours : said'[k] = IF k = h THEN m ELSE said[k]
  BY DEF NdInv
<1>4. \A j \in 1 .. Slots : waiting[j] \in Neighbours \cup {Neighbour6!Nobody}
  BY <1>1 DEF NdTables
<1>5. \A j \in 1 .. Slots : AskedFor(s.c, s.w, j)
  BY <1>1, <1>4 DEF AskedFor, NdInv, Neighbour6!WaitingIsAskedFor
<1>6. \A k \in Neighbours : s.c[k].state = "reachable" /\ said'[k] # 0 => s.c[k].mac = said'[k]
  BY <1>1, <1>3 DEF NdInv, Neighbour6!ReachableAsSaid
<1> QED
  BY <1>1, <1>2, <1>3, <1>5, <1>6, BecomeKeeps

\* A neighbour changes, and every frame is tried.
LEMMA AndTriggerKeeps ==
  ASSUME Neighbourly, NdInv, NEW h \in Neighbours, NEW n \in NdEntries, Neighbour6!AndTrigger(h, n),
         NEW m \in Macs \cup {0}, said' = [said EXCEPT ![h] = m],
         n.state = "reachable" /\ m # 0 => n.mac = m
  PROVE  NdInv'
<1> DEFINE s == Neighbour6!Now(Neighbour6!Changed(h, n))
           t == Neighbour6!Trigger(s)
<1>1. s \in NdTables /\ \A k \in Neighbours : s.c[k] = IF k = h THEN n ELSE ncache[k]
  BY ChangedTables
<1>2. Neighbour6!Become(t)
  BY DEF Neighbour6!AndTrigger
<1> HIDE DEF s
<1>3. said' \in [Neighbours -> Macs \cup {0}] /\ \A k \in Neighbours : said'[k] = IF k = h THEN m ELSE said[k]
  BY DEF NdInv
<1>4. t \in NdTables /\ AsksOn(s.c, t.c) /\ \A j \in 1 .. Slots : AskedFor(t.c, t.w, j)
  BY <1>1, TriggerAsks
<1> HIDE DEF t
<1>5. \A k \in Neighbours : t.c[k].state = "reachable" /\ said'[k] # 0 => t.c[k].mac = said'[k]
  BY <1>1, <1>3, <1>4 DEF NdInv, Neighbour6!ReachableAsSaid, AsksOn
<1> QED
  BY <1>2, <1>3, <1>4, <1>5, BecomeKeeps

LEMMA NdSendStep ==
  ASSUME Neighbourly, NdInv, NEW h \in Neighbours, Neighbour6!Send(h)
  PROVE  NdInv'
<1> DEFINE s == Neighbour6!Now(ncache)
           t == Neighbour6!EthernetSend(s, h)
<1>1. s \in NdTables /\ s.c = ncache /\ s.w = waiting
  BY NowFields DEF NdInv
<1>2. Neighbour6!Become(t) /\ said' = said
  BY DEF Neighbour6!Send
<1> HIDE DEF s
<1>3. t \in NdTables /\ AsksOn(s.c, t.c) /\ \A j \in 1 .. Slots : AskedFor(s.c, s.w, j) => AskedFor(t.c, t.w, j)
  BY <1>1, SendKeeps
<1> HIDE DEF t
<1>4. \A j \in 1 .. Slots : AskedFor(t.c, t.w, j)
  BY <1>1, <1>3 DEF NdInv, Neighbour6!WaitingIsAskedFor, AskedFor
<1>5. \A k \in Neighbours : t.c[k].state = "reachable" /\ said'[k] # 0 => t.c[k].mac = said'[k]
  BY <1>1, <1>2, <1>3 DEF NdInv, Neighbour6!ReachableAsSaid, AsksOn
<1>6. said' \in [Neighbours -> Macs \cup {0}]
  BY <1>2 DEF NdInv
<1> QED
  BY <1>2, <1>3, <1>4, <1>5, <1>6, BecomeKeeps

LEMMA IncompleteStep ==
  ASSUME Neighbourly, NdInv, NEW h \in Neighbours, NEW n \in NdEntries, NEW mac \in Macs \cup {0},
         NEW solicited \in BOOLEAN, said' = [said EXCEPT ![h] = mac], n.mac = mac,
         Neighbour6!Incomplete(h, n, solicited)
  PROVE  NdInv'
<1> DEFINE m == IF solicited THEN Neighbour6!Confirmed(n) ELSE [n EXCEPT !.state = "stale"]
<1>1. m \in NdEntries /\ m.mac = mac
  BY ConfirmedEntry, StateSet DEF NdStates
<1>2. Neighbour6!AndTrigger(h, m)
  BY DEF Neighbour6!Incomplete
<1> HIDE DEF m
<1> QED
  BY <1>1, <1>2, AndTriggerKeeps

LEMMA ReconfirmStep ==
  ASSUME Neighbourly, NdInv, NEW h \in Neighbours, NEW mac \in Macs \cup {0},
         NEW solicited \in BOOLEAN, NEW override \in BOOLEAN, said' = [said EXCEPT ![h] = mac],
         ncache[h].state # "incomplete", Neighbour6!Reconfirm(h, ncache[h], solicited, override, mac)
  PROVE  NdInv'
<1> DEFINE n == ncache[h]
           a == [n EXCEPT !.mac = mac]
           b == [a EXCEPT !.state = "stale"]
           d == [n EXCEPT !.state = "stale"]
<1>1. n \in NdEntries
  BY DEF NdInv, Neighbour6!Now, NdTables, NdCaches
<1>2. a \in NdEntries /\ a.mac = mac
  BY <1>1, MacSet
<1>3. d \in NdEntries /\ d.state = "stale"
  BY <1>1, StateSet DEF NdStates
<1>4. [n EXCEPT !.mac = mac, !.state = "stale"] = b
  OBVIOUS
<1> HIDE DEF a
<1>5. b \in NdEntries /\ b.state = "stale"
  BY <1>2, StateSet DEF NdStates
<1>6. CASE solicited /\ ~override /\ n.mac = mac
  <2>1. Neighbour6!AndTrigger(h, Neighbour6!Confirmed(n))
    BY <1>6 DEF Neighbour6!Reconfirm
  <2> HIDE DEF n
  <2> QED
    BY <1>1, <1>6, <2>1, ConfirmedEntry, AndTriggerKeeps
<1>7. CASE solicited /\ ~override /\ n.mac # mac
  <2>1. Neighbour6!Just(h, IF n.state = "reachable" THEN d ELSE n)
    BY <1>7 DEF Neighbour6!Reconfirm
  <2> QED
    BY <1>1, <1>3, <2>1, JustKeeps
<1>8. CASE solicited /\ override
  <2>1. Neighbour6!AndTrigger(h, Neighbour6!Confirmed(a))
    BY <1>8 DEF Neighbour6!Reconfirm, a
  <2> HIDE DEF n
  <2> QED
    BY <1>2, <2>1, ConfirmedEntry, AndTriggerKeeps
<1>9. CASE ~solicited /\ override
  <2>1. IF n.mac # mac THEN Neighbour6!AndTrigger(h, b) ELSE Neighbour6!Just(h, n)
    BY <1>4, <1>9 DEF Neighbour6!Reconfirm
  <2> HIDE DEF b
  <2>2. CASE n.mac # mac
    BY <1>5, <2>1, <2>2, AndTriggerKeeps
  <2>3. CASE n.mac = mac
    BY <1>1, <2>1, <2>3, JustKeeps
  <2> QED
    BY <2>2, <2>3
<1>10. CASE ~solicited /\ ~override
  <2>1. Neighbour6!Just(h, IF n.state = "reachable" /\ n.mac # mac THEN d ELSE n)
    BY <1>10 DEF Neighbour6!Reconfirm
  <2> HIDE DEF d
  <2> QED
    BY <1>1, <1>3, <2>1, JustKeeps
<1> QED
  BY <1>6, <1>7, <1>8, <1>9, <1>10

LEMMA AdvertisementStep ==
  ASSUME Neighbourly, NdInv, NEW h \in Neighbours, NEW mac \in Macs \cup {0},
         NEW solicited \in BOOLEAN, NEW override \in BOOLEAN,
         Neighbour6!Advertisement(h, solicited, override, mac)
  PROVE  NdInv'
<1> DEFINE n == ncache[h]
<1>1. n \in NdEntries /\ said' = [said EXCEPT ![h] = mac]
  BY DEF NdInv, Neighbour6!Now, NdTables, NdCaches, Neighbour6!Advertisement
<1>2. CASE n = Neighbour6!NoNeighbour
  <2>1. Neighbour6!Just(h, n) /\ n.state = "none"
    BY <1>2 DEF Neighbour6!Advertisement, Neighbour6!NoNeighbour
  <2> QED
    BY <1>1, <2>1, JustKeeps
<1>3. CASE n # Neighbour6!NoNeighbour /\ mac = 0
  <2>1. Neighbour6!NoTlla(h, n, solicited)
    BY <1>3 DEF Neighbour6!Advertisement
  <2>2. CASE solicited
    <3>1. Neighbour6!AndTrigger(h, Neighbour6!Confirmed(n))
      BY <2>1, <2>2 DEF Neighbour6!NoTlla
    <3> HIDE DEF n
    <3> QED
      BY <1>1, <1>3, <3>1, ConfirmedEntry, AndTriggerKeeps
  <2>3. CASE ~solicited
    <3>1. Neighbour6!Just(h, n)
      BY <2>1, <2>3 DEF Neighbour6!NoTlla
    <3> QED
      BY <1>1, <1>3, <3>1, JustKeeps
  <2> QED
    BY <2>2, <2>3
<1>4. CASE n # Neighbour6!NoNeighbour /\ mac # 0 /\ n.state = "incomplete"
  <2> DEFINE a == [n EXCEPT !.mac = mac]
  <2>1. a \in NdEntries /\ a.mac = mac
    BY <1>1, MacSet
  <2>2. Neighbour6!Incomplete(h, a, solicited)
    BY <1>4 DEF Neighbour6!Advertisement
  <2> HIDE DEF a
  <2> QED
    BY <1>1, <2>1, <2>2, IncompleteStep
<1>5. CASE n # Neighbour6!NoNeighbour /\ mac # 0 /\ n.state # "incomplete"
  <2>1. Neighbour6!Reconfirm(h, ncache[h], solicited, override, mac)
    BY <1>5 DEF Neighbour6!Advertisement
  <2> QED
    BY <1>1, <1>5, <2>1, ReconfirmStep
<1> QED
  BY <1>2, <1>3, <1>4, <1>5

LEMMA UnsolicitedStep ==
  ASSUME Neighbourly, NdInv, NEW h \in Neighbours, NEW mac \in Macs, Neighbour6!FromUnsolicited(h, mac)
  PROVE  NdInv'
<1> DEFINE n == ncache[h]
           a == [n EXCEPT !.mac = mac]
           b == [a EXCEPT !.state = "stale"]
<1>1. n \in NdEntries /\ said' = [said EXCEPT ![h] = mac]
  BY DEF NdInv, Neighbour6!Now, NdTables, NdCaches, Neighbour6!FromUnsolicited
<1>2. a \in NdEntries
  BY <1>1, MacSet
<1>3. [n EXCEPT !.mac = mac, !.state = "stale"] = b
  OBVIOUS
<1> HIDE DEF a
<1>4. b \in NdEntries /\ b.state = "stale"
  BY <1>2, StateSet DEF NdStates
<1>5. CASE n.mac = mac /\ n # Neighbour6!NoNeighbour
  <2>1. Neighbour6!Just(h, n)
    BY <1>5 DEF Neighbour6!FromUnsolicited
  <2> QED
    BY <1>1, <1>5, <2>1, JustKeeps
<1>6. CASE ~(n.mac = mac /\ n # Neighbour6!NoNeighbour)
  <2>1. Neighbour6!AndTrigger(h, b)
    BY <1>3, <1>6 DEF Neighbour6!FromUnsolicited
  <2> HIDE DEF b
  <2> QED
    BY <1>1, <1>4, <2>1, AndTriggerKeeps
<1> QED
  BY <1>5, <1>6

LEMMA NdElapsedStep ==
  ASSUME Neighbourly, NdInv, NEW h \in Neighbours, Neighbour6!Elapsed(h)
  PROVE  NdInv'
<1> DEFINE n == ncache[h]
<1>1. n \in NdEntries /\ said' = said /\ said \in [Neighbours -> Macs \cup {0}]
  BY DEF NdInv, Neighbour6!Now, NdTables, NdCaches, Neighbour6!Elapsed
<1>2. said[h] \in Macs \cup {0} /\ said' = [said EXCEPT ![h] = said[h]]
  BY <1>1
<1>9. n.failures \in Nat /\ MaxSolicit \in Nat
  BY <1>1 DEF NdEntries, Neighbourly
<1>10. n.failures <= MaxSolicit <=> ~(n.failures > MaxSolicit)
  BY <1>9
<1>3. CASE n.state \in {"incomplete", "probe"} /\ n.failures > MaxSolicit
  <2> DEFINE s == [c |-> Neighbour6!Changed(h, Neighbour6!NoNeighbour), w |-> Neighbour6!Without(waiting, h), last |-> lastEnq]
  <2>1. ncache' = Neighbour6!Changed(h, Neighbour6!NoNeighbour) /\ waiting' = Neighbour6!Without(waiting, h) /\ lastEnq' = lastEnq
    BY <1>3, <1>10 DEF Neighbour6!Elapsed
  <2>2. Neighbour6!NoNeighbour \in NdEntries /\ Neighbour6!NoNeighbour.state = "none"
    BY DEF Neighbour6!NoNeighbour, NdEntries, NdStates
  <2>3. /\ Neighbour6!Now(ncache) \in NdTables /\ ncache \in NdCaches /\ lastEnq \in Nat
        /\ waiting \in [1 .. Slots -> Neighbours \cup {Neighbour6!Nobody}]
    BY DEF NdInv, Neighbour6!Now, NdTables
  <2>4. /\ Neighbour6!Changed(h, Neighbour6!NoNeighbour) \in NdCaches
        /\ \A k \in Neighbours : Neighbour6!Changed(h, Neighbour6!NoNeighbour)[k] = IF k = h THEN Neighbour6!NoNeighbour ELSE ncache[k]
    BY <2>2, <2>3 DEF Neighbour6!Changed, NdCaches
  <2>5. /\ Neighbour6!Without(waiting, h) \in [1 .. Slots -> Neighbours \cup {Neighbour6!Nobody}]
        /\ \A j \in 1 .. Slots : Neighbour6!Without(waiting, h)[j] = IF waiting[j] = h THEN Neighbour6!Nobody ELSE waiting[j]
    BY <2>3 DEF Neighbour6!Without
  <2>6. s \in NdTables
    BY <2>3, <2>4, <2>5 DEF NdTables
  <2>7. \A j \in 1 .. Slots : AskedFor(s.c, s.w, j)
    BY <2>3, <2>4, <2>5 DEF AskedFor, NdInv, Neighbour6!WaitingIsAskedFor
  <2>8. \A k \in Neighbours : s.c[k].state = "reachable" /\ said'[k] # 0 => s.c[k].mac = said'[k]
    BY <1>1, <2>2, <2>4 DEF NdInv, Neighbour6!ReachableAsSaid
  <2>9. Neighbour6!Become(s)
    BY <2>1 DEF Neighbour6!Become
  <2> HIDE DEF s
  <2> QED
    BY <1>1, <2>6, <2>7, <2>8, <2>9, BecomeKeeps
<1>4. CASE n.state \in {"incomplete", "probe"} /\ n.failures <= MaxSolicit
  <2>1. Neighbour6!Just(h, Neighbour6!Discovered(n))
    BY <1>4, <1>10 DEF Neighbour6!Elapsed
  <2>2. Neighbour6!Discovered(n) \in NdEntries /\ Neighbour6!Discovered(n).state = n.state
    BY <1>1, DiscoveredEntry
  <2> QED
    BY <1>2, <1>4, <2>1, <2>2, JustKeeps
<1>5. ASSUME NEW st \in {"stale", "probe"}, n.state # "incomplete", Neighbour6!Just(h, [n EXCEPT !.state = st])
      PROVE  NdInv'
  <2>0. st \in NdStates /\ st # "incomplete" /\ st # "reachable"
    BY <1>5 DEF NdStates
  <2>1. [n EXCEPT !.state = st] \in NdEntries /\ [n EXCEPT !.state = st].state = st
    BY <1>1, <2>0, StateSet
  <2> QED
    BY <1>2, <1>5, <2>0, <2>1, JustKeeps
<1>6. CASE n.state = "reachable"
  BY <1>5, <1>6 DEF Neighbour6!Elapsed
<1>7. CASE n.state = "delay"
  BY <1>5, <1>7 DEF Neighbour6!Elapsed
<1>8. n.state \in {"incomplete", "probe", "reachable", "delay"}
  BY DEF Neighbour6!Elapsed
<1> QED
  BY <1>3, <1>4, <1>6, <1>7, <1>8, <1>10

LEMMA NdInitially ==
  ASSUME Neighbour6!Init
  PROVE  NdInv
<1>1. Neighbour6!NoNeighbour \in NdEntries /\ Neighbour6!NoNeighbour.state = "none"
  BY DEF Neighbour6!NoNeighbour, NdEntries, NdStates
<1>2. /\ ncache \in NdCaches /\ waiting \in [1 .. Slots -> Neighbours \cup {Neighbour6!Nobody}]
      /\ lastEnq \in Nat /\ said \in [Neighbours -> Macs \cup {0}]
  BY <1>1 DEF Neighbour6!Init, NdCaches
<1>3. Neighbour6!Now(ncache) \in NdTables
  BY <1>2 DEF Neighbour6!Now, NdTables
<1> QED
  BY <1>1, <1>2, <1>3 DEF Neighbour6!Init, NdInv, Neighbour6!WaitingIsAskedFor, Neighbour6!ReachableAsSaid

LEMMA NdStep ==
  ASSUME Neighbourly, NdInv, Neighbour6!Next \/ UNCHANGED Neighbour6!vars
  PROVE  NdInv'
<1>1. CASE UNCHANGED Neighbour6!vars
  BY <1>1 DEF Neighbour6!vars, NdInv, Neighbour6!Now, Neighbour6!WaitingIsAskedFor, Neighbour6!ReachableAsSaid
<1>2. CASE Neighbour6!Next
  BY <1>2, NdSendStep, AdvertisementStep, UnsolicitedStep, NdElapsedStep DEF Neighbour6!Next
<1> QED
  BY <1>1, <1>2

-----------------------------------------------------------------------------
(* Aodv: searches for routes                                               *)

Meshed == Adjacent \subseteq AodvPeers /\ MaxHops \in Nat

Mesh == AodvPeers \cup {Me}
MeshRoutes == [gw : Mesh \cup {Aodv!Direct}, metric : Int]
MeshNodes == [known : BOOLEAN, sync : BOOLEAN, dseq : Int,
              seen : {"never", "recent", "old"}, up : BOOLEAN, down : BOOLEAN,
              metric : Int, ring : Int, retry : Int, timers : Int,
              discover : Int, fwd : BOOLEAN, routes : SUBSET MeshRoutes]

\* The routes to a node, of its metric m.
OneOfMetric(R, m) == (\E r \in MeshRoutes : R \subseteq {r}) /\ \A r \in R : r.metric = m
\* A search that has no route yet has a timer.
SearchGood(n) == n.timers >= 0 /\ (n.ring > 0 /\ ~n.up => n.timers > 0)
Meshes(t) == /\ t \in [Mesh -> MeshNodes]
             /\ \A p \in Mesh : OneOfMetric(t[p].routes, t[p].metric) /\ SearchGood(t[p])
\* A number is seen.
Saw(n, s) == n.sync /\ n.dseq >= s
Later(t, u) == \A p \in Mesh, s \in Int : Saw(t[p], s) => Saw(u[p], s)

AodvInv == /\ Meshes(nodes)
           /\ forwarded \subseteq Mesh \X Int /\ ~repeated
           /\ \A x \in forwarded : Saw(nodes[x[1]], x[2])

Resembles(n, m) == /\ m \in MeshNodes /\ m.routes = n.routes /\ m.metric = n.metric
                   /\ m.sync = n.sync /\ m.dseq = n.dseq
Alike(n, m) == Resembles(n, m) /\ (SearchGood(n) => SearchGood(m))
\* The search goes on as it did.
SameSearch(n, m) == m.timers = n.timers /\ m.ring = n.ring /\ m.up = n.up

LEMMA PutKeeps ==
  ASSUME NEW t, Meshes(t), NEW p \in Mesh, NEW n \in MeshNodes,
         OneOfMetric(n.routes, n.metric), SearchGood(n),
         \A s \in Int : Saw(t[p], s) => Saw(n, s)
  PROVE  /\ Meshes([t EXCEPT ![p] = n]) /\ Later(t, [t EXCEPT ![p] = n])
         /\ [t EXCEPT ![p] = n][p] = n
         /\ \A q \in Mesh \ {p} : [t EXCEPT ![p] = n][q] = t[q]
<1> DEFINE u == [t EXCEPT ![p] = n]
<1>1. u \in [Mesh -> MeshNodes] /\ \A q \in Mesh : u[q] = IF q = p THEN n ELSE t[q]
  BY DEF Meshes
<1> HIDE DEF u
<1>2. \A q \in Mesh : OneOfMetric(u[q].routes, u[q].metric) /\ SearchGood(u[q])
  BY <1>1 DEF Meshes
<1>3. Later(t, u)
  BY <1>1 DEF Later
<1>4. Meshes(u) /\ u[p] = n /\ \A q \in Mesh \ {p} : u[q] = t[q]
  BY <1>1, <1>2 DEF Meshes
<1> QED
  BY <1>3, <1>4 DEF u

LEMMA AlikeKeeps ==
  ASSUME NEW t, Meshes(t), NEW p \in Mesh, NEW n, Alike(t[p], n)
  PROVE  /\ Meshes([t EXCEPT ![p] = n]) /\ Later(t, [t EXCEPT ![p] = n])
         /\ [t EXCEPT ![p] = n][p] = n
         /\ \A q \in Mesh \ {p} : [t EXCEPT ![p] = n][q] = t[q]
<1>1. /\ n \in MeshNodes /\ OneOfMetric(n.routes, n.metric) /\ SearchGood(n)
      /\ \A s \in Int : Saw(t[p], s) => Saw(n, s)
  BY DEF Alike, Resembles, Meshes, Saw
<1> QED
  BY <1>1, PutKeeps

LEMMA LaterThan ==
  ASSUME NEW t, NEW u, NEW v, Later(t, u), Later(u, v)
  PROVE  Later(t, v)
BY DEF Later

LEMMA KnownKeeps ==
  ASSUME NEW t, Meshes(t), NEW p \in Mesh
  PROVE  /\ Meshes(Aodv!Known(t, p)) /\ Later(t, Aodv!Known(t, p))
         /\ \A q \in Mesh : Alike(t[q], Aodv!Known(t, p)[q])
<1> DEFINE n == [t[p] EXCEPT !.known = TRUE]
<1>1. \A q \in Mesh : t[q] \in MeshNodes
  BY DEF Meshes
<1>2. Alike(t[p], n) /\ \A q \in Mesh : Alike(t[q], t[q])
  BY <1>1 DEF Alike, Resembles, SearchGood, MeshNodes
<1>3. Aodv!Known(t, p) = [t EXCEPT ![p] = n]
  BY DEF Aodv!Known
<1> HIDE DEF n
<1>4. /\ Meshes([t EXCEPT ![p] = n]) /\ Later(t, [t EXCEPT ![p] = n])
      /\ [t EXCEPT ![p] = n][p] = n
      /\ \A q \in Mesh \ {p} : [t EXCEPT ![p] = n][q] = t[q]
  BY <1>2, AlikeKeeps
<1> QED
  BY <1>2, <1>3, <1>4

LEMMA RefreshKeeps ==
  ASSUME NEW t, Meshes(t), NEW p \in Mesh
  PROVE  Meshes(Aodv!Refresh(t, p)) /\ Later(t, Aodv!Refresh(t, p))
<1> DEFINE n == [t[p] EXCEPT !.seen = "recent"]
<1>1. t[p] \in MeshNodes
  BY DEF Meshes
<1>2. Alike(t[p], n)
  BY <1>1 DEF Alike, Resembles, SearchGood, MeshNodes
<1>3. Aodv!Refresh(t, p) = IF t[p].known THEN [t EXCEPT ![p] = n] ELSE t
  BY DEF Aodv!Refresh
<1> HIDE DEF n
<1>4. Later(t, t)
  BY DEF Later
<1> QED
  BY <1>2, <1>3, <1>4, AlikeKeeps

LEMMA RefreshedKeeps ==
  ASSUME NEW t, Meshes(t), NEW p \in Mesh, NEW s \in Int, Aodv!Fresher(t[p], s)
  PROVE  /\ Meshes(Aodv!Refreshed(t, p, s)) /\ Later(t, Aodv!Refreshed(t, p, s))
         /\ Saw(Aodv!Refreshed(t, p, s)[p], s)
<1> DEFINE a == [t[p] EXCEPT !.dseq = s]
           b == [a EXCEPT !.sync = TRUE]
           n == [b EXCEPT !.seen = "recent"]
<1>1. t[p] \in MeshNodes /\ OneOfMetric(t[p].routes, t[p].metric) /\ SearchGood(t[p])
  BY DEF Meshes
<1>2. /\ a \in MeshNodes /\ a.dseq = s
      /\ a.routes = t[p].routes /\ a.metric = t[p].metric /\ SameSearch(t[p], a)
  BY <1>1 DEF MeshNodes, SameSearch
<1> HIDE DEF a
<1>3. /\ b \in MeshNodes /\ b.dseq = s /\ b.sync
      /\ b.routes = t[p].routes /\ b.metric = t[p].metric /\ SameSearch(t[p], b)
  BY <1>2 DEF MeshNodes, SameSearch
<1> HIDE DEF b
<1>4. /\ n \in MeshNodes /\ n.dseq = s /\ n.sync
      /\ n.routes = t[p].routes /\ n.metric = t[p].metric /\ SameSearch(t[p], n)
  BY <1>3 DEF MeshNodes, SameSearch
<1> HIDE DEF n
<1>5. Aodv!Refreshed(t, p, s) = [t EXCEPT ![p] = n]
  <2>1. t = [q \in Mesh |-> t[q]]
    BY DEF Meshes
  <2>2. Aodv!Refreshed(t, p, s) = [t EXCEPT ![p] = [[[t[p] EXCEPT !.dseq = s] EXCEPT !.sync = TRUE] EXCEPT !.seen = "recent"]]
    BY <2>1 DEF Aodv!Refreshed
  <2> QED
    BY <2>2 DEF n, b, a
<1>6. t[p].dseq \in Int
  BY <1>1 DEF MeshNodes
<1>7. \A i \in Int : Saw(t[p], i) => Saw(n, i)
  BY <1>4, <1>6 DEF Aodv!Fresher, Saw
<1>8. Saw(n, s)
  BY <1>4 DEF Saw
<1>9. OneOfMetric(n.routes, n.metric) /\ SearchGood(n)
  BY <1>1, <1>4 DEF SameSearch, SearchGood
<1>10. /\ Meshes([t EXCEPT ![p] = n]) /\ Later(t, [t EXCEPT ![p] = n])
       /\ [t EXCEPT ![p] = n][p] = n
  BY <1>4, <1>7, <1>9, PutKeeps
<1> QED
  BY <1>5, <1>8, <1>10

\* aodv_elect_route looks for the old route under the metric the node has.
LEMMA ElectKeeps ==
  ASSUME NEW t, Meshes(t), NEW p \in Mesh, NEW gw \in Mesh \cup {Aodv!Direct}, NEW hops \in Int
  PROVE  Meshes(Aodv!Elect(t, p, gw, hops)) /\ Later(t, Aodv!Elect(t, p, gw, hops))
<1> DEFINE m == IF gw = Aodv!Direct THEN 1 ELSE hops + 1
           a == [t[p] EXCEPT !.routes = {}]
           b == [a EXCEPT !.metric = m]
           r == [gw |-> gw, metric |-> m]
           c == [b EXCEPT !.routes = {r}]
           u == [t EXCEPT ![p] = b]
<1>1. /\ t[p] \in MeshNodes /\ m \in Int
      /\ OneOfMetric(t[p].routes, t[p].metric) /\ SearchGood(t[p])
  BY DEF Meshes
<1>2. r \in MeshRoutes /\ r.metric = m
  BY <1>1 DEF MeshRoutes
<1>3. t = [q \in Mesh |-> t[q]]
  BY DEF Meshes
<1>4. Aodv!RouteDel(t, p) = [t EXCEPT ![p] = a]
  <2>1. {x \in t[p].routes : x.metric # t[p].metric} = {}
    BY <1>1 DEF OneOfMetric
  <2> QED
    BY <1>3, <2>1 DEF Aodv!RouteDel
<1> HIDE DEF m, r
<1>5. /\ a \in MeshNodes /\ a.routes = {}
      /\ a.sync = t[p].sync /\ a.dseq = t[p].dseq /\ SameSearch(t[p], a)
  BY <1>1 DEF MeshNodes, SameSearch
<1>6. [Aodv!RouteDel(t, p) EXCEPT ![p].metric = m] = u
  BY <1>3, <1>4
<1> HIDE DEF a
<1>7. /\ b \in MeshNodes /\ b.routes = {} /\ b.metric = m
      /\ b.sync = t[p].sync /\ b.dseq = t[p].dseq /\ SameSearch(t[p], b)
  BY <1>1, <1>5 DEF MeshNodes, SameSearch
<1> HIDE DEF b
<1>8. /\ c \in MeshNodes /\ c.routes = {r} /\ c.metric = m
      /\ c.sync = t[p].sync /\ c.dseq = t[p].dseq /\ SameSearch(t[p], c)
  BY <1>1, <1>2, <1>7 DEF MeshNodes, SameSearch
<1>9. /\ OneOfMetric(b.routes, b.metric) /\ OneOfMetric(c.routes, c.metric)
      /\ SearchGood(b) /\ SearchGood(c)
  <2>1. OneOfMetric({}, m)
    BY <1>2 DEF OneOfMetric
  <2>2. OneOfMetric({r}, m)
    BY <1>2 DEF OneOfMetric
  <2>3. SearchGood(b) /\ SearchGood(c)
    BY <1>1, <1>7, <1>8 DEF SameSearch, SearchGood
  <2> QED
    BY <2>1, <2>2, <2>3, <1>7, <1>8
<1>10. Meshes(u) /\ Later(t, u) /\ u[p] = b
  <2>1. \A s \in Int : Saw(t[p], s) => Saw(b, s)
    BY <1>7 DEF Saw
  <2>2. b \in MeshNodes /\ OneOfMetric(b.routes, b.metric) /\ SearchGood(b)
    BY <1>7, <1>9
  <2> QED
    BY <2>1, <2>2, PutKeeps
<1>11. u = [q \in Mesh |-> u[q]]
  BY <1>10 DEF Meshes
<1>12. [u EXCEPT ![p].routes = @ \cup {r}] = [u EXCEPT ![p] = c]
  BY <1>7, <1>10, <1>11
<1> HIDE DEF u, c
<1>13. Meshes([u EXCEPT ![p] = c]) /\ Later(u, [u EXCEPT ![p] = c])
  <2>1. \A s \in Int : Saw(u[p], s) => Saw(c, s)
    BY <1>7, <1>8, <1>10 DEF Saw
  <2> QED
    BY <1>8, <1>9, <1>10, <2>1, PutKeeps
<1>14. Aodv!RouteAdd(u, p, gw, m) \in {u, [u EXCEPT ![p] = c]}
  BY <1>12 DEF Aodv!RouteAdd, r
<1>15. Aodv!Elect(t, p, gw, hops) \in {t, Aodv!RouteAdd(u, p, gw, m)}
  BY <1>6 DEF Aodv!Elect, m
<1>16. Later(t, t) /\ Later(t, [u EXCEPT ![p] = c])
  BY <1>10, <1>13, LaterThan DEF Later
<1> QED
  BY <1>10, <1>13, <1>14, <1>15, <1>16

LEMMA ElectFromKeeps ==
  ASSUME NEW t, Meshes(t), NEW p \in Mesh, NEW from \in Mesh, NEW hops \in Int
  PROVE  Meshes(Aodv!ElectFrom(t, p, from, hops)) /\ Later(t, Aodv!ElectFrom(t, p, from, hops))
BY ElectKeeps DEF Aodv!ElectFrom

LEMMA ParseKeeps ==
  ASSUME NEW t, Meshes(t), t = nodes, NEW from \in Mesh, NEW hops \in Int
  PROVE  Meshes(Aodv!Parse(from, hops)) /\ Later(t, Aodv!Parse(from, hops))
<1> DEFINE u == Aodv!Refresh(t, from)
           v == Aodv!Known(u, from)
<1>1. Meshes(u) /\ Later(t, u)
  BY RefreshKeeps
<1>2. Meshes(v) /\ Later(u, v)
  BY <1>1, KnownKeeps
<1>3. Meshes(Aodv!Elect(v, from, Aodv!Direct, 0)) /\ Later(v, Aodv!Elect(v, from, Aodv!Direct, 0))
  BY <1>2, ElectKeeps
<1>4. Aodv!Parse(from, hops) \in {v, Aodv!Elect(v, from, Aodv!Direct, 0)}
  BY DEF Aodv!Parse
<1> QED
  BY <1>1, <1>2, <1>3, <1>4, LaterThan

\* What is left of a step: a table that knows what the last one knew, and
\* what was passed on, about a number that is new to that one.
Stepped(t) == /\ Meshes(t) /\ Later(nodes, t)

LEMMA SteppedKeep ==
  ASSUME AodvInv, NEW t, Stepped(t), Aodv!Keep(t)
  PROVE  AodvInv'
<1>1. nodes' = t /\ forwarded' = forwarded /\ repeated' = repeated
  BY DEF Aodv!Keep
<1>2. \A x \in forwarded : Saw(t[x[1]], x[2])
  BY DEF Stepped, Later, AodvInv
<1>3. Meshes(nodes')
  BY <1>1 DEF Stepped
<1>4. \A x \in forwarded' : Saw(nodes'[x[1]], x[2])
  BY <1>1, <1>2
<1> QED
  BY <1>1, <1>3, <1>4 DEF AodvInv

LEMMA AodvForwardStep ==
  ASSUME AodvInv, NEW t, Stepped(t), NEW p \in Mesh, NEW s \in Int, NEW ends,
         Aodv!Fresher(nodes[p], s), Saw(t[p], s), Aodv!Forward(t, p, s, ends)
  PROVE  AodvInv'
<1> DEFINE n == [t[p] EXCEPT !.fwd = TRUE]
<1>1. \A x \in forwarded : Saw(t[x[1]], x[2])
  BY DEF Stepped, Later, AodvInv
<1>2. <<p, s>> \notin forwarded
  <2>1. ~Saw(nodes[p], s)
    BY DEF Saw, Aodv!Fresher, AodvInv, Meshes, MeshNodes
  <2> QED
    BY <2>1 DEF AodvInv
<1>3. CASE nodes' = t /\ UNCHANGED <<forwarded, repeated>>
  <2>1. Meshes(nodes') /\ forwarded' = forwarded /\ repeated' = repeated
    BY <1>3 DEF Stepped
  <2>2. \A x \in forwarded' : Saw(nodes'[x[1]], x[2])
    BY <1>1, <1>3
  <2> QED
    BY <2>1, <2>2 DEF AodvInv
<1>4. CASE /\ nodes' = [t EXCEPT ![p].fwd = TRUE]
           /\ forwarded' = forwarded \cup {<<p, s>>}
           /\ repeated' = (repeated \/ <<p, s>> \in forwarded)
  <2>1. t[p] \in MeshNodes
    BY DEF Stepped, Meshes
  <2>2. Alike(t[p], n)
    BY <2>1 DEF Alike, Resembles, SearchGood, MeshNodes
  <2>3. nodes' = [t EXCEPT ![p] = n]
    BY <1>4
  <2> HIDE DEF n
  <2>4. Meshes(nodes') /\ Later(t, nodes')
    BY <2>2, <2>3, AlikeKeeps DEF Stepped
  <2>5. \A x \in forwarded : Saw(nodes'[x[1]], x[2])
    BY <1>1, <2>4 DEF Later, AodvInv
  <2>6. Saw(nodes'[p], s)
    BY <2>4 DEF Later
  <2>7. forwarded' \subseteq Mesh \X Int
    BY <1>4 DEF AodvInv
  <2>8. ~repeated'
    <3>1. ~(repeated \/ <<p, s>> \in forwarded)
      BY <1>2 DEF AodvInv
    <3> QED
      BY <1>4, <3>1
  <2>9. ASSUME NEW x \in forwarded' PROVE Saw(nodes'[x[1]], x[2])
    <3>1. CASE x \in forwarded
      BY <2>5, <3>1
    <3>2. CASE x = <<p, s>>
      <4>1. x[1] = p /\ x[2] = s
        BY <3>2
      <4> QED
        BY <2>6, <4>1
    <3> QED
      BY <1>4, <2>9, <3>1, <3>2
  <2> QED
    BY <2>4, <2>7, <2>8, <2>9 DEF AodvInv
<1> QED
  BY <1>3, <1>4 DEF Aodv!Forward

LEMMA ValidRreqStep ==
  ASSUME AodvInv, NEW t, Stepped(t), NEW p \in Mesh, NEW s \in Int, NEW ends,
         NEW dest, NEW active,
         Aodv!Fresher(nodes[p], s), Saw(t[p], s), Aodv!ValidRreq(t, p, s, dest, active, ends)
  PROVE  AodvInv'
<1> DEFINE a == [t[p] EXCEPT !.down = TRUE]
           n == [a EXCEPT !.discover = @ + 1]
<1>1. CASE Aodv!Forward(t, p, s, ends)
  BY <1>1, AodvForwardStep
<1>2. ASSUME NEW u, Stepped(u), nodes' = u, UNCHANGED <<forwarded, repeated>>
      PROVE  AodvInv'
  <2>1. \A x \in forwarded : Saw(u[x[1]], x[2])
    BY <1>2 DEF Stepped, Later, AodvInv
  <2>2. Meshes(nodes') /\ forwarded' = forwarded /\ repeated' = repeated
    BY <1>2 DEF Stepped
  <2>3. \A x \in forwarded' : Saw(nodes'[x[1]], x[2])
    BY <1>2, <2>1
  <2> QED
    BY <2>2, <2>3 DEF AodvInv
<1>3. CASE nodes' = t /\ UNCHANGED <<forwarded, repeated>>
  BY <1>2, <1>3
<1>4. CASE /\ nodes' = [t EXCEPT ![p].down = TRUE, ![p].discover = @ + 1]
           /\ UNCHANGED <<forwarded, repeated>>
  <2>1. t[p] \in MeshNodes /\ t = [q \in Mesh |-> t[q]]
    BY DEF Stepped, Meshes
  <2>2. Alike(t[p], a)
    BY <2>1 DEF Alike, Resembles, SearchGood, MeshNodes
  <2>3. nodes' = [t EXCEPT ![p] = n]
    BY <1>4, <2>1
  <2> HIDE DEF a
  <2>4. Alike(t[p], n)
    BY <2>2 DEF Alike, Resembles, SearchGood, MeshNodes
  <2> HIDE DEF n
  <2>5. Meshes(nodes') /\ Later(t, nodes')
    BY <2>3, <2>4, AlikeKeeps DEF Stepped
  <2>6. Stepped(nodes')
    BY <2>5, LaterThan DEF Stepped
  <2> QED
    BY <1>2, <1>4, <2>6
<1> QED
  BY <1>1, <1>3, <1>4 DEF Aodv!ValidRreq

LEMMA RreqStep ==
  ASSUME AodvInv, NEW from \in Mesh, NEW orig \in Mesh, NEW oseq \in Int,
         NEW dest \in Mesh, NEW dseq \in Int, NEW hops \in Int, NEW ends,
         Aodv!Rreq(from, orig, oseq, dest, dseq, hops, ends)
  PROVE  AodvInv'
<1> DEFINE t0 == Aodv!Parse(from, hops)
           t1 == Aodv!Known(t0, orig)
           tr == Aodv!Refreshed(t1, orig, oseq)
           t2 == Aodv!ElectFrom(tr, orig, from, hops)
           t3 == Aodv!Known(t2, dest)
           t4 == Aodv!Refreshed(t3, dest, dseq)
<1>1. Meshes(nodes) /\ ~repeated
  BY DEF AodvInv
<1>2. Meshes(t0) /\ Later(nodes, t0)
  BY <1>1, ParseKeeps
<1>3. Meshes(t1) /\ Later(t0, t1)
  BY <1>2, KnownKeeps
<1>4. Stepped(t1)
  BY <1>2, <1>3, LaterThan DEF Stepped
<1>5. CASE ~Aodv!Fresher(t1[orig], oseq)
  <2>1. Aodv!Keep(t1)
    BY <1>5 DEF Aodv!Rreq
  <2> HIDE DEF t1
  <2> QED
    BY <1>4, <2>1, SteppedKeep
<1>6. ASSUME Aodv!Fresher(t1[orig], oseq) PROVE AodvInv'
  <2>1. Meshes(tr) /\ Later(t1, tr) /\ Saw(tr[orig], oseq)
    BY <1>3, <1>6, RefreshedKeeps
  <2>2. Meshes(t2) /\ Later(tr, t2)
    BY <2>1, ElectFromKeeps
  <2>3. Meshes(t3) /\ Later(t2, t3)
    BY <2>2, KnownKeeps
  <2>4. Stepped(t3) /\ Saw(t3[orig], oseq)
    BY <1>4, <2>1, <2>2, <2>3, LaterThan DEF Stepped, Later
  <2>5. Aodv!Fresher(nodes[orig], oseq)
    <3>1. ~Saw(t1[orig], oseq) /\ nodes[orig].dseq \in Int
      BY <1>3, <1>6, <1>1 DEF Aodv!Fresher, Saw, Meshes, MeshNodes
    <3>2. ~Saw(nodes[orig], oseq)
      BY <1>4, <3>1 DEF Stepped, Later
    <3> QED
      BY <3>1, <3>2 DEF Aodv!Fresher, Saw
  <2>6. ASSUME Aodv!Fresher(t3[dest], dseq)
        PROVE  Stepped(t4) /\ Saw(t4[orig], oseq)
    <3>1. Meshes(t4) /\ Later(t3, t4)
      BY <2>3, <2>6, RefreshedKeeps
    <3> QED
      BY <2>4, <3>1, LaterThan DEF Stepped, Later
  <2>7. \/ Aodv!ValidRreq(t3, orig, oseq, dest, Aodv!Active(t3[dest]), ends)
        \/ /\ Aodv!Fresher(t3[dest], dseq)
           /\ Aodv!ValidRreq(t4, orig, oseq, dest, Aodv!Active(t4[dest]), ends)
        \/ Aodv!ValidRreq(t3, orig, oseq, dest, FALSE, ends)
    BY <1>6 DEF Aodv!Rreq
  <2> HIDE DEF t4, t3
  <2> QED
    BY <2>4, <2>5, <2>6, <2>7, ValidRreqStep
<1> QED
  BY <1>5, <1>6

LEMMA RrepStep ==
  ASSUME AodvInv, NEW from \in Mesh, NEW dest \in Mesh, NEW dseq \in Int,
         NEW hops \in Int, NEW forUs, NEW ends,
         Aodv!Rrep(from, dest, dseq, hops, forUs, ends)
  PROVE  AodvInv'
<1> DEFINE t0 == Aodv!Parse(from, hops)
           t1 == Aodv!Known(t0, dest)
           tr == Aodv!Refreshed(t1, dest, dseq)
           t2 == Aodv!ElectFrom(tr, dest, from, hops)
           n == [t2[dest] EXCEPT !.up = TRUE]
<1>1. Meshes(nodes) /\ ~repeated
  BY DEF AodvInv
<1>2. Meshes(t0) /\ Later(nodes, t0)
  BY <1>1, ParseKeeps
<1>3. Meshes(t1) /\ Later(t0, t1)
  BY <1>2, KnownKeeps
<1>4. Stepped(t1)
  BY <1>2, <1>3, LaterThan DEF Stepped
<1>5. CASE ~Aodv!Fresher(t1[dest], dseq)
  <2>1. Aodv!Keep(t1)
    BY <1>5 DEF Aodv!Rrep
  <2> HIDE DEF t1
  <2> QED
    BY <1>4, <2>1, SteppedKeep
<1>6. ASSUME Aodv!Fresher(t1[dest], dseq) PROVE AodvInv'
  <2>1. Meshes(tr) /\ Later(t1, tr) /\ Saw(tr[dest], dseq)
    BY <1>3, <1>6, RefreshedKeeps
  <2>2. Meshes(t2) /\ Later(tr, t2)
    BY <2>1, ElectFromKeeps
  <2>3. Stepped(t2) /\ Saw(t2[dest], dseq)
    BY <1>4, <2>1, <2>2, LaterThan DEF Stepped, Later
  <2>4. Aodv!Fresher(nodes[dest], dseq)
    <3>1. ~Saw(t1[dest], dseq) /\ nodes[dest].dseq \in Int
      BY <1>3, <1>6, <1>1 DEF Aodv!Fresher, Saw, Meshes, MeshNodes
    <3>2. ~Saw(nodes[dest], dseq)
      BY <1>4, <3>1 DEF Stepped, Later
    <3> QED
      BY <3>1, <3>2 DEF Aodv!Fresher, Saw
  <2>5. CASE Aodv!Keep([t2 EXCEPT ![dest].up = TRUE])
    <3>1. [t2 EXCEPT ![dest].up = TRUE] = [t2 EXCEPT ![dest] = n]
      OBVIOUS
    <3>2. Alike(t2[dest], n)
      BY <2>2 DEF Meshes, Alike, Resembles, SearchGood, MeshNodes
    <3> HIDE DEF n, t2
    <3>3. Stepped([t2 EXCEPT ![dest] = n])
      BY <2>3, <3>2, AlikeKeeps, LaterThan DEF Stepped
    <3> QED
      BY <2>5, <3>1, <3>3, SteppedKeep
  <2>6. CASE Aodv!Forward(t2, dest, dseq, ends)
    <3> HIDE DEF t2
    <3> QED
      BY <2>3, <2>4, <2>6, AodvForwardStep
  <2> QED
    BY <1>6, <2>5, <2>6 DEF Aodv!Rrep
<1> QED
  BY <1>5, <1>6

\* A step that changes one node, but not its routes or its numbers.
LEMMA OneNode ==
  ASSUME AodvInv, NEW p \in Mesh, NEW n, Alike(nodes[p], n),
         Aodv!Keep([nodes EXCEPT ![p] = n])
  PROVE  AodvInv'
<1>1. Stepped([nodes EXCEPT ![p] = n])
  BY AlikeKeeps DEF Stepped, AodvInv
<1> QED
  BY <1>1, SteppedKeep

LEMMA AlikeThan ==
  ASSUME NEW n, NEW m, NEW k, Alike(n, m), Alike(m, k)
  PROVE  Alike(n, k)
BY DEF Alike, Resembles

LEMMA ResemblesThan ==
  ASSUME NEW n, NEW m, NEW k, Resembles(n, m), Resembles(m, k)
  PROVE  Resembles(n, k)
BY DEF Resembles

LEMMA TimersChanged ==
  ASSUME NEW n \in MeshNodes, NEW i \in Int
  PROVE  LET m == [n EXCEPT !.timers = i]
         IN /\ Resembles(n, m) /\ m.timers = i /\ m.up = n.up /\ m.down = n.down
            /\ m.ring = n.ring /\ m.retry = n.retry
BY DEF Resembles, MeshNodes

LEMMA RingChanged ==
  ASSUME NEW n \in MeshNodes, NEW i \in Int
  PROVE  LET m == [n EXCEPT !.ring = i]
         IN /\ Resembles(n, m) /\ m.ring = i /\ m.up = n.up /\ m.down = n.down
            /\ m.timers = n.timers /\ m.retry = n.retry
BY DEF Resembles, MeshNodes

LEMMA RetryChanged ==
  ASSUME NEW n \in MeshNodes, NEW i \in Int
  PROVE  LET m == [n EXCEPT !.retry = i]
         IN /\ Resembles(n, m) /\ m.retry = i /\ m.up = n.up /\ m.down = n.down
            /\ m.timers = n.timers /\ m.ring = n.ring
BY DEF Resembles, MeshNodes

\* Who asks sets a timer, unless there is a route.
LEMMA SendReqTimes ==
  ASSUME NEW n \in MeshNodes, n.timers >= 0
  PROVE  LET m == Aodv!SendReq(n)
         IN Resembles(n, m) /\ SearchGood(m)
<1>1. n.timers + 1 \in Int /\ Resembles(n, n)
  BY DEF MeshNodes, Resembles
<1> DEFINE m == [n EXCEPT !.timers = n.timers + 1]
<1>2. Resembles(n, m) /\ m.timers = n.timers + 1
  BY <1>1, TimersChanged
<1>3. n.timers \in Int
  BY DEF MeshNodes
<1> HIDE DEF m
<1>4. SearchGood(m)
  BY <1>2, <1>3 DEF SearchGood
<1>5. CASE Aodv!Active(n)
  <2>1. SearchGood(n)
    BY <1>5 DEF Aodv!Active, SearchGood
  <2> QED
    BY <1>1, <1>5, <2>1 DEF Aodv!SendReq
<1>6. CASE ~Aodv!Active(n)
  <2>1. Aodv!SendReq(n) = m
    BY <1>6 DEF Aodv!SendReq, m
  <2> QED
    BY <1>2, <1>4, <2>1
<1> QED
  BY <1>5, <1>6

\* A timer that ran gives up, or sets the next one.
LEMMA NextRingTimes ==
  ASSUME NEW n \in MeshNodes, n.timers >= 0, Diameter \in Int
  PROVE  LET m == Aodv!NextRing(n)
         IN Resembles(n, m) /\ SearchGood(m)
<1> DEFINE ring == IF n.ring > Threshold THEN Diameter ELSE n.ring
           retry == IF ring = Diameter THEN n.retry + 1 ELSE n.retry
           next == IF ring < Diameter THEN ring + 2 ELSE ring
           a == [n EXCEPT !.retry = 0]
           b == [a EXCEPT !.ring = 0]
           c == [b EXCEPT !.down = FALSE]
           d == [n EXCEPT !.retry = retry]
           e == [d EXCEPT !.ring = next]
           f == [e EXCEPT !.timers = @ + 1]
<1>1. ring \in Int /\ retry \in Int /\ next \in Int /\ n.timers \in Int
  BY DEF MeshNodes
<1>2. Aodv!NextRing(n) \in {c, f}
  BY DEF Aodv!NextRing
<1> HIDE DEF ring, retry, next
<1>3. Resembles(n, a) /\ a \in MeshNodes /\ a.timers = n.timers
  BY RetryChanged DEF Resembles
<1> HIDE DEF a
<1>4. Resembles(a, b) /\ b \in MeshNodes /\ b.timers = n.timers /\ b.ring = 0
  BY <1>3, RingChanged DEF Resembles
<1> HIDE DEF b
<1>5. Resembles(b, c) /\ c.timers = n.timers /\ c.ring = 0
  BY <1>4 DEF Resembles, MeshNodes
<1>6. Resembles(n, d) /\ d \in MeshNodes /\ d.timers = n.timers
  BY <1>1, RetryChanged DEF Resembles
<1> HIDE DEF d
<1>7. Resembles(d, e) /\ e \in MeshNodes /\ e.timers = n.timers
  BY <1>1, <1>6, RingChanged DEF Resembles
<1> HIDE DEF e
<1>8. Resembles(e, f) /\ f.timers = n.timers + 1
  BY <1>1, <1>7, TimersChanged
<1> HIDE DEF c, f
<1>9. SearchGood(c) /\ SearchGood(f)
  BY <1>1, <1>5, <1>8 DEF SearchGood
<1> QED
  BY <1>2, <1>3, <1>4, <1>5, <1>6, <1>7, <1>8, <1>9, ResemblesThan

LEMMA LookupStep ==
  ASSUME AodvInv, NEW p \in Mesh, Aodv!Lookup(p)
  PROVE  AodvInv'
<1> DEFINE n == [nodes[p] EXCEPT !.known = TRUE]
           m == [n EXCEPT !.ring = 1]
<1>1. nodes[p] \in MeshNodes /\ SearchGood(nodes[p])
  BY DEF AodvInv, Meshes
<1>2. Alike(nodes[p], n) /\ n \in MeshNodes /\ n.timers >= 0
  BY <1>1 DEF Alike, Resembles, SearchGood, MeshNodes
<1>3. \/ Aodv!Keep([nodes EXCEPT ![p] = n])
      \/ Aodv!Keep([nodes EXCEPT ![p] = Aodv!SendReq(m)])
  BY DEF Aodv!Lookup
<1> HIDE DEF n
<1>4. Resembles(n, m) /\ m \in MeshNodes /\ m.timers >= 0
  BY <1>2, RingChanged DEF Resembles
<1> HIDE DEF m
<1>5. Alike(nodes[p], Aodv!SendReq(m))
  BY <1>2, <1>4, SendReqTimes, ResemblesThan DEF Alike
<1> QED
  BY <1>2, <1>3, <1>5, OneNode

LEMMA DiscoverStep ==
  ASSUME AodvInv, NEW p \in Mesh, Aodv!Discover(p)
  PROVE  AodvInv'
<1> DEFINE n == [nodes[p] EXCEPT !.discover = @ - 1]
           m == [n EXCEPT !.ring = nodes[p].metric]
<1>1. nodes[p] \in MeshNodes /\ nodes[p].metric \in Int /\ SearchGood(nodes[p])
  BY DEF AodvInv, Meshes, MeshNodes
<1>2. Alike(nodes[p], n) /\ n \in MeshNodes /\ n.timers >= 0
  BY <1>1 DEF Alike, Resembles, SearchGood, MeshNodes
<1>3. Aodv!Keep([nodes EXCEPT ![p] = Aodv!SendReq(m)])
  BY DEF Aodv!Discover
<1> HIDE DEF n
<1>4. Resembles(n, m) /\ m \in MeshNodes /\ m.timers >= 0
  BY <1>1, <1>2, RingChanged DEF Resembles
<1> HIDE DEF m
<1>5. Alike(nodes[p], Aodv!SendReq(m))
  BY <1>2, <1>4, SendReqTimes, ResemblesThan DEF Alike
<1> QED
  BY <1>3, <1>5, OneNode

LEMMA RetransStep ==
  ASSUME AodvInv, Diameter \in Int, NEW p \in Mesh, Aodv!Retrans(p)
  PROVE  AodvInv'
<1> DEFINE i == nodes[p].timers - 1
           n == [nodes[p] EXCEPT !.timers = i]
<1>1. nodes[p] \in MeshNodes
  BY DEF AodvInv, Meshes
<1>2. i \in Int /\ i >= 0
  BY <1>1 DEF MeshNodes, Aodv!Retrans
<1>3. \/ Aodv!Keep([nodes EXCEPT ![p] = n]) /\ n.up
      \/ Aodv!Keep([nodes EXCEPT ![p] = Aodv!NextRing(n)])
  BY DEF Aodv!Retrans
<1> HIDE DEF i
<1>4. Resembles(nodes[p], n) /\ n \in MeshNodes /\ n.timers = i
  BY <1>1, <1>2, TimersChanged DEF Resembles
<1> HIDE DEF n
<1>5. n.up => Alike(nodes[p], n)
  BY <1>2, <1>4 DEF Alike, SearchGood
<1>6. Alike(nodes[p], Aodv!NextRing(n))
  BY <1>2, <1>4, NextRingTimes, ResemblesThan DEF Alike
<1> QED
  BY <1>3, <1>5, <1>6, OneNode

LEMMA AodvFrameStep ==
  ASSUME AodvInv, NEW p \in Mesh, Aodv!Frame(p) \/ Aodv!Echo(p)
  PROVE  AodvInv'
<1>1. Meshes(nodes)
  BY DEF AodvInv
<1>2. CASE Aodv!Frame(p)
  <2>1. Stepped(Aodv!Refresh(nodes, p)) /\ Aodv!Keep(Aodv!Refresh(nodes, p))
    BY <1>1, <1>2, RefreshKeeps DEF Stepped, Aodv!Frame, Aodv!Keep
  <2> QED
    BY <2>1, SteppedKeep
<1>3. CASE Aodv!Echo(p)
  <2>1. Stepped(Aodv!Parse(p, 1)) /\ Aodv!Keep(Aodv!Parse(p, 1))
    BY <1>1, <1>3, ParseKeeps DEF Stepped, Aodv!Echo
  <2> QED
    BY <2>1, SteppedKeep
<1> QED
  BY <1>2, <1>3

LEMMA AodvTimeStep ==
  ASSUME AodvInv, NEW p \in Mesh, Aodv!Age(p) \/ Aodv!Traversed(p)
  PROVE  AodvInv'
<1> DEFINE a == [nodes[p] EXCEPT !.seen = "old"]
           b == [nodes[p] EXCEPT !.fwd = FALSE]
<1>1. nodes[p] \in MeshNodes
  BY DEF AodvInv, Meshes
<1>2. Alike(nodes[p], a) /\ Alike(nodes[p], b)
  BY <1>1 DEF Alike, Resembles, SearchGood, MeshNodes
<1>3. Aodv!Keep([nodes EXCEPT ![p] = a]) \/ Aodv!Keep([nodes EXCEPT ![p] = b])
  BY DEF Aodv!Age, Aodv!Traversed
<1> HIDE DEF a, b
<1> QED
  BY <1>2, <1>3, OneNode

\* pico_aodv_expired finds the route of a node under its metric.
LEMMA ExpiredKeeps ==
  ASSUME NEW n \in MeshNodes, OneOfMetric(n.routes, n.metric), SearchGood(n)
  PROVE  LET e == Aodv!Expired(n)
         IN /\ e \in MeshNodes /\ OneOfMetric(e.routes, e.metric) /\ SearchGood(e)
            /\ e.sync = n.sync /\ e.dseq = n.dseq
<1> DEFINE a == [n EXCEPT !.up = FALSE]
           b == [a EXCEPT !.down = FALSE]
           c == [b EXCEPT !.ring = 0]
           d == [c EXCEPT !.routes = {}]
<1>1. {r \in n.routes : r.metric # n.metric} = {}
  BY DEF OneOfMetric
<1>2. Aodv!Expired(n) = d
  BY <1>1 DEF Aodv!Expired
<1>3. Resembles(n, a) /\ a.timers = n.timers
  BY DEF Resembles, MeshNodes
<1> HIDE DEF a
<1>4. Resembles(n, b) /\ b.timers = n.timers
  BY <1>3 DEF Resembles, MeshNodes
<1> HIDE DEF b
<1>5. Resembles(n, c) /\ c.timers = n.timers /\ c.ring = 0
  BY <1>4 DEF Resembles, MeshNodes
<1> HIDE DEF c
<1>6. /\ d \in MeshNodes /\ d.routes = {}
      /\ d.sync = n.sync /\ d.dseq = n.dseq /\ d.timers = n.timers /\ d.ring = 0
  BY <1>5 DEF Resembles, MeshNodes
<1>7. OneOfMetric(d.routes, d.metric)
  BY <1>6 DEF OneOfMetric, MeshRoutes, Mesh, MeshNodes
<1>8. SearchGood(d)
  BY <1>6 DEF SearchGood
<1> HIDE DEF d
<1> QED
  BY <1>2, <1>6, <1>7, <1>8

LEMMA CollectorStep ==
  ASSUME AodvInv, Aodv!Collector
  PROVE  AodvInv'
<1> DEFINE next(n) == IF ~Aodv!Active(n) THEN n
                      ELSE IF n.seen = "old" THEN Aodv!Expired(n) ELSE [n EXCEPT !.seen = "recent"]
           t == [p \in Mesh |-> next(nodes[p])]
<1>1. \A p \in Mesh : /\ nodes[p] \in MeshNodes /\ SearchGood(nodes[p])
                     /\ OneOfMetric(nodes[p].routes, nodes[p].metric)
  BY DEF AodvInv, Meshes
<1>2. DOMAIN nodes = Mesh
  BY DEF AodvInv, Meshes
<1>3. ASSUME NEW p \in Mesh
      PROVE  /\ next(nodes[p]) \in MeshNodes
             /\ OneOfMetric(next(nodes[p]).routes, next(nodes[p]).metric)
             /\ SearchGood(next(nodes[p]))
             /\ next(nodes[p]).sync = nodes[p].sync /\ next(nodes[p]).dseq = nodes[p].dseq
  <2> DEFINE n == nodes[p]
  <2>1. n \in MeshNodes /\ OneOfMetric(n.routes, n.metric) /\ SearchGood(n)
    BY <1>1
  <2> DEFINE r == [n EXCEPT !.seen = "recent"]
  <2> HIDE DEF n
  <2>2. Alike(n, r)
    BY <2>1 DEF Alike, Resembles, SearchGood, MeshNodes
  <2> HIDE DEF r
  <2>3. /\ r \in MeshNodes /\ OneOfMetric(r.routes, r.metric)
        /\ r.sync = n.sync /\ r.dseq = n.dseq /\ SearchGood(r)
    BY <2>1, <2>2 DEF Alike, Resembles
  <2> DEFINE e == Aodv!Expired(n)
  <2>4. /\ e \in MeshNodes /\ OneOfMetric(e.routes, e.metric)
        /\ e.sync = n.sync /\ e.dseq = n.dseq /\ SearchGood(e)
    BY <2>1, ExpiredKeeps
  <2>5. next(n) \in {n, r, e}
    BY DEF r
  <2> HIDE DEF e, next
  <2>6. /\ next(n) \in MeshNodes /\ OneOfMetric(next(n).routes, next(n).metric)
        /\ next(n).sync = n.sync /\ next(n).dseq = n.dseq /\ SearchGood(next(n))
    BY <2>1, <2>3, <2>4, <2>5
  <2> QED
    BY <2>6 DEF n
<1>4. Aodv!Keep(t)
  BY <1>2 DEF Aodv!Collector
<1> HIDE DEF next
<1>5. Stepped(t)
  BY <1>3 DEF Stepped, Meshes, Later, Saw
<1> HIDE DEF t
<1> QED
  BY <1>4, <1>5, SteppedKeep

LEMMA AodvInitially ==
  ASSUME Aodv!Init
  PROVE  AodvInv
<1>1. /\ Aodv!NoNode \in MeshNodes /\ Aodv!NoNode.routes = {}
      /\ SearchGood(Aodv!NoNode)
  BY DEF Aodv!NoNode, MeshNodes, SearchGood
<1>2. OneOfMetric({}, Aodv!NoNode.metric)
  <2>1. [gw |-> Me, metric |-> 0] \in MeshRoutes
    BY DEF MeshRoutes, Mesh
  <2> QED
    BY <2>1 DEF OneOfMetric
<1> QED
  BY <1>1, <1>2 DEF Aodv!Init, AodvInv, Meshes, Mesh

LEMMA AodvStep ==
  ASSUME Meshed, Diameter \in Int, AodvInv, NEW seq \in [Mesh -> Nat],
         Aodv!NextUpTo(seq) \/ UNCHANGED Aodv!vars
  PROVE  AodvInv'
<1>1. CASE UNCHANGED Aodv!vars
  BY <1>1 DEF Aodv!vars, AodvInv
<1>2. ASSUME NEW p \in AodvPeers, \/ Aodv!Frame(p) \/ Aodv!Lookup(p) \/ Aodv!Discover(p) \/ Aodv!Retrans(p)
                                  \/ Aodv!Age(p) \/ Aodv!Traversed(p)
      PROVE  AodvInv'
  <2>1. p \in Mesh
    BY DEF Mesh
  <2> QED
    BY <1>2, <2>1, AodvFrameStep, LookupStep, DiscoverStep, RetransStep, AodvTimeStep
<1>3. ASSUME NEW from \in Adjacent, NEW p \in AodvPeers, NEW hops \in 0..MaxHops, NEW ends,
             NEW s \in 1..seq[p], NEW dest \in Mesh, NEW d \in 0..seq[dest],
             Aodv!Rreq(from, p, s, dest, d, hops, ends)
      PROVE  AodvInv'
  <2>1. from \in Mesh /\ p \in Mesh /\ hops \in Int /\ s \in Int /\ d \in Int
    BY DEF Mesh, Meshed
  <2> QED
    BY <1>3, <2>1, RreqStep
<1>6. ASSUME NEW from \in Adjacent, NEW p \in AodvPeers, NEW hops \in 0..MaxHops, NEW ends,
             NEW s \in 1..seq[p], NEW forUs, Aodv!Rrep(from, p, s, hops, forUs, ends)
      PROVE  AodvInv'
  <2>1. from \in Mesh /\ p \in Mesh /\ hops \in Int /\ s \in Int
    BY DEF Mesh, Meshed
  <2> QED
    BY <1>6, <2>1, RrepStep
<1>4. ASSUME NEW from \in Adjacent, Aodv!Echo(from)
      PROVE  AodvInv'
  <2>1. from \in Mesh
    BY DEF Mesh, Meshed
  <2> QED
    BY <1>4, <2>1, AodvFrameStep
<1>5. CASE Aodv!NextUpTo(seq)
  BY <1>2, <1>3, <1>4, <1>5, <1>6, CollectorStep DEF Aodv!NextUpTo, Mesh
<1> QED
  BY <1>1, <1>5

LEMMA AodvMeans ==
  ASSUME AodvInv
  PROVE  Aodv!OneRoute /\ Aodv!ForwardedOnce /\ Aodv!SearchIsTimed
<1>1. ASSUME NEW R \in SUBSET MeshRoutes, NEW r \in MeshRoutes, R \subseteq {r}
      PROVE  Cardinality(R) <= 1
  <2>1. IsFiniteSet({r}) /\ Cardinality({r}) = 1
    BY FS_Singleton
  <2> QED
    BY <1>1, <2>1, FS_Subset
<1>2. ASSUME NEW p \in AodvPeers
      PROVE  /\ Cardinality(nodes[p].routes) <= 1
             /\ \A r \in nodes[p].routes : r.metric = nodes[p].metric
  <2>1. nodes[p] \in MeshNodes /\ OneOfMetric(nodes[p].routes, nodes[p].metric)
    BY DEF AodvInv, Meshes, Mesh
  <2>2. nodes[p].routes \in SUBSET MeshRoutes
    BY <2>1 DEF MeshNodes
  <2> QED
    BY <1>1, <2>1, <2>2 DEF OneOfMetric
<1>3. Aodv!SearchIsTimed
  BY DEF Aodv!SearchIsTimed, AodvInv, Meshes, SearchGood, Mesh
<1> QED
  BY <1>2, <1>3, SameCardinality DEF Aodv!OneRoute, Aodv!ForwardedOnce, AodvInv
=============================================================================
