----------------------------- MODULE DnsClient -----------------------------
(***************************************************************************)
(* The resolver of picoTCP (pico_dns_client.c): a table of queries by a    *)
(* random number, each with a socket and a retransmission timer that knows *)
(* only the number, and a list of name servers.  Names, packets and the    *)
(* labels are left out: an answer has the record that was asked for, has   *)
(* an alias only, has neither, or carries an error.                        *)
(***************************************************************************)
EXTENDS Naturals, FiniteSets

CONSTANTS Requests,    \* calls of getaddr or getname, each with its callback
          Ids,         \* the numbers pico_rand draws
          Servers,     \* name servers the user adds; 0 is the default
          MaxRetrans,  \* PICO_DNS_CLIENT_MAX_RETRANS
          MaxAlias,    \* aliases of aliases the servers hold
          CanFail      \* connecting may fail: the route to the server goes away

VARIABLES dnsTable,  \* DNSTable: what is asked under each number
          dnsTimers, \* retransmission timers that run for each number
          asked,     \* the numbers under which datagrams went out: answers may come
          answered,  \* how often the callback of each request was called
          pending,   \* the requests that were accepted
          nsTable    \* NSTable

vars == <<dnsTable, dnsTimers, asked, answered, pending, nsTable>>

Default == 0
NoQuery == [for |-> "none", qtype |-> "none", retrans |-> 0, ns |-> Default, depth |-> 0]
\* pico_dns_client_query_header draws until the number is free, 32 times at most.
\* (mutant: any number will do)
Drawn_Any == Ids
Drawn == LET free == {i \in Ids : dnsTable[i] = NoQuery} IN IF free = {} THEN Ids ELSE free

Init == /\ dnsTable = [i \in Ids |-> NoQuery] /\ dnsTimers = [i \in Ids |-> 0]
        /\ asked = {} /\ pending = {} /\ answered = [r \in Requests |-> 0]
        /\ nsTable = {Default}

\* pico_dns_client_next_ns: the servers in the order of the tree, round and round.
NextNs(ns) == LET after == {n \in nsTable : n > ns}
                  among == IF after = {} THEN nsTable ELSE after
              IN IF ns \in nsTable THEN CHOOSE n \in among : \A m \in among : n <= m ELSE ns
FirstNs == CHOOSE n \in nsTable : \A m \in nsTable : n <= m

\* A datagram and its timer (pico_dns_client_send), or neither.
\* (mutant: only the first datagram has a timer)
Asking_Once(i, timers) == /\ asked' = asked \cup {i}
  /\ dnsTimers' = IF i \in asked THEN timers ELSE [timers EXCEPT ![i] = @ + 1]
Asking(i, timers) == /\ asked' = asked \cup {i}
                     /\ dnsTimers' = [timers EXCEPT ![i] = @ + 1]
NotAsking(timers) == dnsTimers' = timers /\ UNCHANGED asked

\* pico_dns_client_add_query: a number that is in use is refused after all.
Query(r, depth) == [for |-> r, qtype |-> "A", retrans |-> 1, ns |-> FirstNs, depth |-> depth]
AddQuery(table, i, r, depth) ==
  IF table[i] = NoQuery THEN [table EXCEPT ![i] = Query(r, depth)] ELSE table

\* pico_dns_client_getaddr, getaddr6, getname and getname6.
GetAddr(r, i, fails) ==
  /\ r \notin pending /\ i \in Drawn
  /\ LET table == AddQuery(dnsTable, i, r, 0)
         queued == table[i].for = r
     IN /\ pending' = IF queued /\ ~fails THEN pending \cup {r} ELSE pending
        /\ IF queued /\ ~fails
           THEN dnsTable' = table /\ Asking(i, dnsTimers)
           ELSE UNCHANGED dnsTable /\ NotAsking(dnsTimers)
  /\ UNCHANGED <<answered, nsTable>>

Called(r) == [answered EXCEPT ![r] = @ + 1]

\* pico_dns_client_retransmission: the query that has the number now.
GiveUp(i) == [dnsTable EXCEPT ![i] = NoQuery]
\* (mutant: one retransmission too many)
GivesUp_Late(q) == q.retrans > MaxRetrans
GivesUp(q) == q.retrans >= MaxRetrans
Retransmission(i, fails) ==
  /\ dnsTimers[i] > 0
  /\ LET timers == [dnsTimers EXCEPT ![i] = @ - 1]
         q == dnsTable[i]
         again == [q EXCEPT !.retrans = @ + 1, !.ns = NextNs(q.ns)]
     IN CASE q = NoQuery -> UNCHANGED <<dnsTable, answered>> /\ NotAsking(timers)
          [] q # NoQuery /\ ~GivesUp(q) ->
               /\ dnsTable' = [dnsTable EXCEPT ![i] = again]
               /\ IF fails THEN NotAsking(timers) ELSE Asking(i, timers)
               /\ UNCHANGED answered
          [] OTHER -> /\ answered' = Called(q.for) /\ dnsTable' = GiveUp(i)
                      /\ NotAsking(timers)
  /\ UNCHANGED <<pending, nsTable>>

\* pico_dns_client_user_callback: the answer is given and the query ends.
\* (mutant: the query ends with its retransmissions only)
UserCallback_Stays(i) == dnsTable
UserCallback(i) == [dnsTable EXCEPT ![i] = NoQuery]

\* pico_dns_try_fallback_cname: without the record, the alias is asked for under
\* a new number; the type of the old query is changed and stays changed when
\* there is no alias either.
Fallback(i, q, alias, new, fails) ==
  IF ~alias
  THEN /\ dnsTable' = [dnsTable EXCEPT ![i].qtype = "CNAME"] /\ NotAsking(dnsTimers)
  ELSE LET table == AddQuery(dnsTable, new, q.for, q.depth + 1)
           queued == dnsTable[new] = NoQuery
       IN /\ dnsTable' = IF queued /\ fails THEN [dnsTable EXCEPT ![i] = NoQuery]
                         ELSE [table EXCEPT ![i] = NoQuery]
          /\ IF queued /\ ~fails THEN Asking(new, dnsTimers)
             ELSE NotAsking(dnsTimers)

\* pico_dns_client_callback: an answer to a datagram that was sent, whatever
\* became of its query.  Errors, and answers to another question, are passed over.
Answer(i, kind, new, fails) ==
  /\ i \in asked
  /\ LET q == dnsTable[i]
     IN IF q = NoQuery \/ q.qtype # "A" \/ kind = "error"
        THEN UNCHANGED <<dnsTable, dnsTimers, asked, answered>>
        ELSE \/ /\ kind = "record"
                /\ answered' = Called(q.for) /\ dnsTable' = UserCallback(i)
                /\ NotAsking(dnsTimers)
             \/ /\ kind \in {"alias", "neither"} /\ new \in Drawn
                /\ (kind = "alias" => q.depth < MaxAlias)
                /\ Fallback(i, q, kind = "alias", new, fails) /\ UNCHANGED answered
  /\ UNCHANGED <<pending, nsTable>>

\* pico_dns_client_nameserver: the default goes when another is added and comes
\* back when none is left.
AddNs(n) == (nsTable \ {Default}) \cup {n}
\* (mutant: a list may become empty)
DelNs_Bare(n) == nsTable \ {n}
DelNs(n) == IF nsTable = {n} THEN {Default} ELSE nsTable \ {n}
NameServer == /\ \E n \in Servers : nsTable' \in {AddNs(n), DelNs(n)}
              /\ UNCHANGED <<dnsTable, dnsTimers, asked, answered, pending>>

Fails == IF CanFail THEN BOOLEAN ELSE {FALSE}
Expire(i) == \E fails \in Fails : Retransmission(i, fails)
Next == \/ \E r \in Requests, i \in Ids, fails \in Fails : GetAddr(r, i, fails)
        \/ \E i, new \in Ids, fails \in Fails,
              kind \in {"record", "alias", "neither", "error"} : Answer(i, kind, new, fails)
        \/ \E i \in Ids : Expire(i)
        \/ NameServer

Spec == Init /\ [][Next]_vars
\* The stack's tick runs the timers that are due.
FairSpec == Spec /\ \A i \in Ids : WF_vars(Expire(i))

-----------------------------------------------------------------------------
(* Properties.                                                             *)

TypeOK == /\ \A i \in Ids : /\ dnsTable[i].for \in Requests \cup {"none"}
                            /\ dnsTable[i].retrans \in 0 .. MaxRetrans
          /\ dnsTimers \in [Ids -> Nat] /\ pending \subseteq Requests
          /\ nsTable \subseteq Servers \cup {Default}

\* No callback is called twice, however late, often or mixed up the answers and
\* the timers of old queries come (pico_dns_client.c:400, 452).
CalledOnce == \A r \in Requests : answered[r] <= 1

\* A request that was accepted and not answered is still asked under one number,
\* so nobody's callback is dropped (pico_dns_client.c:168, 507).
StillAsked == \A r \in pending :
  Cardinality({i \in Ids : dnsTable[i].for = r}) = IF answered[r] = 0 THEN 1 ELSE 0

\* There is always a server to ask: the code takes the first of the list without
\* looking whether there is one (pico_dns_client.c:85, 159).
AlwaysAServer == nsTable # {}

\* Every request that was accepted is answered in the end
\* (pico_dns_client.c:405: with no address, when the servers stay silent).
EveryoneIsAnswered == \A r \in Requests : r \in pending ~> answered[r] > 0
=============================================================================
