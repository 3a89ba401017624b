--------------------------- MODULE Services_proofs --------------------------
(***************************************************************************)
(* More components of picoTCP, laid out as in Network_proofs: groups of    *)
(* IPv6, fragments, file transfers, duplicate address detection,           *)
(* link-local addresses of IPv4, mDNS and connections of TCP.              *)
(***************************************************************************)
EXTENDS Integers, FiniteSets, Sequences, TLC, FiniteSetTheorems,
        SequenceTheorems, WellFoundedInduction, TLAPS

CONSTANTS Listeners6, Sources6, MaxStale,       \* of Mld
          Datagrams, FragTimers,                \* of Fragments
          Files, BlockNumbers, TftpRetries,     \* of TftpTransfer
          DadHosts, LinkLocals, UserAdded, SuffixOf, DadRetrans,  \* of Ipv6Dad
          AutoAddresses, ProbeNb, AnnounceNb, MaxConflicts, MaxFailures,  \* of Slaacv4
          MaxName,                              \* of Mdns, with those of a link
          SegmentRetries, SynRetries            \* of TcpConnection

VARIABLES group6, mld, mldTimer, alarms,
  frag,
  tftpFile, tx, rx, tftpNet,
  address6, segment, linkUp,
  slaac, timers, slaacLinks, hotplug, probed,
  mdns, mail,
  sock, segs

Groups6 == INSTANCE Mld WITH Listeners <- Listeners6, Sources <- Sources6
\* The code has a copy for each of the two networks.
Fragments(Net) == INSTANCE Fragments WITH MaxTimers <- FragTimers
Tftp == INSTANCE TftpTransfer WITH Width <- BlockNumbers,
  MaxRetry <- TftpRetries
Dad == INSTANCE Ipv6Dad WITH Hosts <- DadHosts, LinkLocal <- LinkLocals,
  Global <- UserAdded, Suffix <- SuffixOf, Retrans <- DadRetrans
\* With a device that can tell whether its link is up, and with one that cannot.
Slaac(HasLinkState) == INSTANCE Slaacv4 WITH Addresses <- AutoAddresses,
  Flap <- FALSE, links <- slaacLinks
\* A link has hosts, what they claim and ask for, and loses messages or does not.
Mdns(link) == INSTANCE Mdns WITH Hosts <- link.hosts, Claims <- link.claims,
  Queries <- link.queries, ProbeCount <- link.probes,
  AnnounceCount <- link.announces, Reliable <- link.reliable
\* What its ends write is different in the two parts that run a connection.
Tcp(Writes) == INSTANCE TcpConnection WITH MaxRetrans <- SegmentRetries,
  MaxConnect <- SynRetries

group6Vars == <<group6, mld, mldTimer, alarms>>
fragmentVars == <<frag>>
tftpVars == <<tftpFile, tx, rx, tftpNet>>
dadVars == <<address6, segment, linkUp>>
slaacVars == <<slaac, timers, slaacLinks, hotplug, probed>>
mdnsVars == <<mdns, mail>>
tcpVars == <<sock, segs>>

-----------------------------------------------------------------------------
(* Mld: the listener and its alarms                                        *)

\* The parameter, the timer and the alarms are one machine.
IsMachine(m) ==
  m = Groups6!Machine([state |-> m.k.state, f |-> m.k.f, version |-> m.k.version,
                       querier |-> m.k.querier],
                      m.timer, [current |-> m.alarms.current, stale |-> m.alarms.stale])
\* The machine h has these fields.
Machined(h, s, f, v, t, c, o) ==
  /\ IsMachine(h) /\ h.k.state = s /\ h.k.f = f /\ h.k.version = v
  /\ h.timer = t /\ h.alarms.current = c /\ h.alarms.stale = o
\* A timer that runs is that of a pending report, and one of the tree has an alarm.
Timed(m) == /\ IsMachine(m) /\ m.k.version \in {1, 2}
            /\ m.alarms.current \in Nat /\ m.alarms.stale \in Nat
            /\ m.timer = "running" => m.k.state = "DELAYING"
            /\ m.timer # "none" => m.alarms.current > 0
MldInv == /\ Timed(Groups6!Now)
          /\ group6.filter.mode \in {"INCLUDE", "EXCLUDE"}

ToState(m, x) == [m EXCEPT !.k.state = x]
ToFrame(m, x) == [m EXCEPT !.k.f = x]
ToVersion(m, x) == [m EXCEPT !.k.version = x]
ToQuerier(m, x) == [m EXCEPT !.k.querier = x]
ToTimer(m, x) == [m EXCEPT !.timer = x]
ToAlarms(m, x) == [m EXCEPT !.alarms = x]
ToCurrent(m, x) == [m EXCEPT !.alarms.current = x]
ToStale(m, x) == [m EXCEPT !.alarms.stale = x]

LEMMA MachineFields ==
  ASSUME NEW m, IsMachine(m), NEW x, NEW y
  PROVE  LET k == m.k
             a == m.alarms
         IN /\ Machined(ToState(m, x), x, k.f, k.version, m.timer, a.current, a.stale)
            /\ Machined(ToFrame(m, x), k.state, x, k.version, m.timer, a.current, a.stale)
            /\ Machined(ToVersion(m, x), k.state, k.f, x, m.timer, a.current, a.stale)
            /\ Machined(ToTimer(m, x), k.state, k.f, k.version, x, a.current, a.stale)
            /\ Machined(ToCurrent(m, x), k.state, k.f, k.version, m.timer, x, a.stale)
            /\ Machined(ToStale(m, x), k.state, k.f, k.version, m.timer, a.current, x)
            /\ Machined(ToAlarms(m, [current |-> x, stale |-> y]),
                        k.state, k.f, k.version, m.timer, x, y)
<1> DEFINE s == m.k.state
           f == m.k.f
           v == m.k.version
           q == m.k.querier
           t == m.timer
           c == m.alarms.current
           o == m.alarms.stale
           K(ks, kf, kv) == [state |-> ks, f |-> kf, version |-> kv, querier |-> q]
           M(k, mt, a) == [k |-> k, timer |-> mt, alarms |-> a]
           A(ac, as) == [current |-> ac, stale |-> as]
<1>1. m = M(K(s, f, v), t, A(c, o))
  BY DEF IsMachine, Groups6!Machine
<1> HIDE DEF s, f, v, q, t, c, o
<1>2. ToState(m, x) = M(K(x, f, v), t, A(c, o))
  BY <1>1 DEF ToState
<1>3. ToFrame(m, x) = M(K(s, x, v), t, A(c, o))
  BY <1>1 DEF ToFrame
<1>4. ToVersion(m, x) = M(K(s, f, x), t, A(c, o))
  BY <1>1 DEF ToVersion
<1>5. ToTimer(m, x) = M(K(s, f, v), x, A(c, o))
  BY <1>1 DEF ToTimer
<1>6. ToCurrent(m, x) = M(K(s, f, v), t, A(x, o))
  BY <1>1 DEF ToCurrent
<1>7. ToStale(m, x) = M(K(s, f, v), t, A(c, x))
  BY <1>1 DEF ToStale
<1>8. ToAlarms(m, A(x, y)) = M(K(s, f, v), t, A(x, y))
  BY <1>1 DEF ToAlarms
<1>9. ASSUME NEW ks, NEW kf, NEW kv, NEW mt, NEW ac, NEW as
      PROVE  Machined(M(K(ks, kf, kv), mt, A(ac, as)), ks, kf, kv, mt, ac, as)
  <2> DEFINE z == M(K(ks, kf, kv), mt, A(ac, as))
  <2>1. /\ z.k = K(ks, kf, kv) /\ z.timer = mt /\ z.alarms = A(ac, as)
        /\ z.k.state = ks /\ z.k.f = kf /\ z.k.version = kv /\ z.k.querier = q
        /\ z.alarms.current = ac /\ z.alarms.stale = as
    OBVIOUS
  <2>2. z = M(K(ks, kf, kv), mt, A(ac, as))
    OBVIOUS
  <2> HIDE DEF z
  <2> QED
    BY <2>1, <2>2, Zenon DEF Machined, IsMachine, Groups6!Machine
<1>10. /\ Machined(ToState(m, x), x, f, v, t, c, o)
       /\ Machined(ToFrame(m, x), s, x, v, t, c, o)
       /\ Machined(ToVersion(m, x), s, f, x, t, c, o)
       /\ Machined(ToTimer(m, x), s, f, v, x, c, o)
       /\ Machined(ToCurrent(m, x), s, f, v, t, x, o)
       /\ Machined(ToStale(m, x), s, f, v, t, c, x)
       /\ Machined(ToAlarms(m, A(x, y)), s, f, v, t, x, y)
  BY <1>2, <1>3, <1>4, <1>5, <1>6, <1>7, <1>8, <1>9, Zenon
<1> QED
  BY <1>10 DEF s, f, v, t, c, o

\* The same, for a machine of which the fields are known.
LEMMA MachineChain ==
  ASSUME NEW m, NEW s, NEW f, NEW v, NEW t, NEW c, NEW o, Machined(m, s, f, v, t, c, o), NEW x
  PROVE  /\ Machined(ToState(m, x), x, f, v, t, c, o)
         /\ Machined(ToFrame(m, x), s, x, v, t, c, o)
         /\ Machined(ToVersion(m, x), s, f, x, t, c, o)
         /\ Machined(ToTimer(m, x), s, f, v, x, c, o)
         /\ Machined(ToCurrent(m, x), s, f, v, t, x, o)
         /\ Machined(ToStale(m, x), s, f, v, t, c, x)
<1>1. /\ IsMachine(m) /\ m.k.state = s /\ m.k.f = f /\ m.k.version = v
      /\ m.timer = t /\ m.alarms.current = c /\ m.alarms.stale = o
  BY DEF Machined
<1> QED
  BY <1>1, MachineFields

LEMMA MachineAlarms ==
  ASSUME NEW m, NEW s, NEW f, NEW v, NEW t, NEW c, NEW o, Machined(m, s, f, v, t, c, o),
         NEW x, NEW y
  PROVE  Machined(ToAlarms(m, [current |-> x, stale |-> y]), s, f, v, t, x, y)
<1>1. /\ IsMachine(m) /\ m.k.state = s /\ m.k.f = f /\ m.k.version = v
      /\ m.timer = t /\ m.alarms.current = c /\ m.alarms.stale = o
  BY DEF Machined
<1>2. Machined(ToAlarms(m, [current |-> x, stale |-> y]),
               m.k.state, m.k.f, m.k.version, m.timer, x, y)
  BY <1>1, MachineFields, Zenon
<1> QED
  BY <1>1, <1>2

LEMMA MachineQuerier ==
  ASSUME NEW m, IsMachine(m), NEW x \in BOOLEAN
  PROVE  Machined(ToQuerier(m, x), m.k.state, m.k.f, m.k.version, m.timer,
                  m.alarms.current, m.alarms.stale)
<1>1. ToQuerier(m, x)
        = [k |-> [state |-> m.k.state, f |-> m.k.f, version |-> m.k.version, querier |-> x],
           timer |-> m.timer,
           alarms |-> [current |-> m.alarms.current, stale |-> m.alarms.stale]]
  BY DEF IsMachine, Groups6!Machine, ToQuerier
<1> QED
  BY <1>1 DEF Machined, IsMachine, Groups6!Machine

LEMMA MachineFrame ==
  ASSUME NEW m, Timed(m), NEW f
  PROVE  /\ Timed(ToFrame(m, f)) /\ ToFrame(m, f).k.f = f
         /\ ToFrame(m, f).k.state = m.k.state /\ ToFrame(m, f).timer = m.timer
         /\ ToFrame(m, f).k.version = m.k.version
<1>1. Machined(ToFrame(m, f), m.k.state, f, m.k.version, m.timer, m.alarms.current, m.alarms.stale)
  BY MachineFields DEF Timed
<1> QED
  BY <1>1 DEF Timed, Machined

LEMMA MachineState ==
  ASSUME NEW m, Timed(m), m.timer # "running", NEW s
  PROVE  /\ Timed(ToState(m, s)) /\ ToState(m, s).k.f = m.k.f
         /\ ToState(m, s).k.version = m.k.version
         /\ ToState(m, s).timer = m.timer /\ ToState(m, s).k.state = s
<1>1. Machined(ToState(m, s), s, m.k.f, m.k.version, m.timer, m.alarms.current, m.alarms.stale)
  BY MachineFields DEF Timed
<1> QED
  BY <1>1 DEF Timed, Machined

\* A handler keeps the machine timed: what it says of the frame besides.
LEMMA MachineHandlers ==
  ASSUME NEW m, Timed(m)
  PROVE  /\ Timed(Groups6!Delaying(m)) /\ Groups6!Delaying(m).k.f = m.k.f
         /\ Timed(Groups6!Delaying(Groups6!TimerStart(m)))
         /\ Groups6!Delaying(Groups6!TimerStart(m)).k.f = m.k.f
         /\ Timed(Groups6!Stsdifs(m)) /\ Groups6!Stsdifs(m).k.f \in {m.k.f, Groups6!NoFrame}
         /\ Timed(Groups6!Stcl(m))
         /\ m.timer # "running" => Timed(Groups6!Srsf(m))
         /\ Timed(Groups6!Rtimrtct(m)) /\ Groups6!Rtimrtct(m).k.f = m.k.f
         /\ Groups6!Srsf(m).k.f = Groups6!Record("sent", {})
<1> DEFINE k == m.k
           a == m.alarms
<1>0. IsMachine(m)
  BY DEF Timed
<1>1. \A s : Machined(ToState(m, s), s, k.f, k.version, m.timer, a.current, a.stale)
  BY <1>0, MachineFields
<1>2. Machined(Groups6!Delaying(m), "DELAYING", k.f, k.version, m.timer, a.current, a.stale)
  BY <1>1 DEF ToState, Groups6!Delaying
<1>3. LET d == Groups6!Delaying(Groups6!TimerStart(m))
      IN \/ Machined(d, "DELAYING", k.f, k.version, "running", a.current + 1, a.stale)
         \/ Machined(d, "DELAYING", k.f, k.version, m.timer, a.current, a.stale)
  <2> DEFINE g == ToTimer(m, "running")
             h == ToCurrent(g, a.current + 1)
             l == ToState(h, "DELAYING")
  <2>1. Machined(g, k.state, k.f, k.version, "running", a.current, a.stale)
    BY <1>0, MachineFields
  <2>2. g.alarms = m.alarms
    BY DEF ToTimer
  <2>3. m.timer = "none" => Groups6!TimerStart(m) = h
    BY <2>2 DEF Groups6!TimerStart, ToTimer, ToCurrent
  <2>4. m.timer = "none" => Groups6!Delaying(Groups6!TimerStart(m)) = l
    BY <2>3 DEF Groups6!Delaying, ToState
  <2>5. m.timer # "none" => Groups6!TimerStart(m) = m
    BY DEF Groups6!TimerStart
  <2> HIDE DEF g
  <2>6. Machined(h, k.state, k.f, k.version, "running", a.current + 1, a.stale)
    BY <2>1, MachineChain
  <2> HIDE DEF h
  <2>7. Machined(l, "DELAYING", k.f, k.version, "running", a.current + 1, a.stale)
    BY <2>6, MachineChain
  <2> HIDE DEF l
  <2> QED
    BY <1>2, <2>4, <2>5, <2>7
<1>4. \/ Groups6!Stsdifs(m) = m
      \/ Machined(Groups6!Stsdifs(m), "none", Groups6!NoFrame, k.version, "stopped",
                  a.current, a.stale) /\ m.timer # "none"
  <2> DEFINE g == ToTimer(m, "stopped")
             h == ToState(g, "none")
             l == ToFrame(h, Groups6!NoFrame)
  <2>1. Machined(g, k.state, k.f, k.version, "stopped", a.current, a.stale)
    BY <1>0, MachineFields
  <2>2. Groups6!Stsdifs(m) = IF m.timer = "none" THEN m ELSE l
    BY DEF Groups6!Stsdifs, ToTimer, ToState, ToFrame
  <2> HIDE DEF g
  <2>3. Machined(h, "none", k.f, k.version, "stopped", a.current, a.stale)
    BY <2>1, MachineChain
  <2> HIDE DEF h
  <2>4. Machined(l, "none", Groups6!NoFrame, k.version, "stopped", a.current, a.stale)
    BY <2>3, MachineChain
  <2> HIDE DEF l
  <2> QED
    BY <2>2, <2>4
<1>5. \/ Groups6!Stcl(m) = m
      \/ Machined(Groups6!Stcl(m), "IDLE", k.f, k.version, "stopped", a.current, a.stale)
         /\ m.timer # "none"
  <2> DEFINE g == ToTimer(m, "stopped")
             h == ToState(g, "IDLE")
  <2>1. Machined(g, k.state, k.f, k.version, "stopped", a.current, a.stale)
    BY <1>0, MachineFields
  <2>2. Groups6!Stcl(m) = IF m.timer = "none" THEN m ELSE h
    BY DEF Groups6!Stcl, Groups6!Idle, ToTimer, ToState
  <2> HIDE DEF g
  <2>3. Machined(h, "IDLE", k.f, k.version, "stopped", a.current, a.stale)
    BY <2>1, MachineChain
  <2> HIDE DEF h
  <2> QED
    BY <2>2, <2>3
<1>6. Machined(Groups6!Srsf(m), "IDLE", Groups6!Record("sent", {}), k.version, m.timer,
               a.current, a.stale)
  <2> DEFINE g == ToState(m, "IDLE")
             h == ToFrame(g, Groups6!Record("sent", {}))
  <2>1. Machined(g, "IDLE", k.f, k.version, m.timer, a.current, a.stale)
    BY <1>1
  <2>2. Groups6!Srsf(m) = h
    BY DEF Groups6!Srsf, Groups6!Idle, ToFrame, ToState
  <2> HIDE DEF g
  <2>3. Machined(h, "IDLE", Groups6!Record("sent", {}), k.version, m.timer, a.current, a.stale)
    BY <2>1, MachineChain
  <2> HIDE DEF h
  <2> QED
    BY <2>2, <2>3
<1>7. Timed(Groups6!Delaying(m)) /\ Groups6!Delaying(m).k.f = m.k.f
  BY <1>2 DEF Timed, Machined
<1>8. LET d == Groups6!Delaying(Groups6!TimerStart(m)) IN Timed(d) /\ d.k.f = m.k.f
  BY <1>3 DEF Timed, Machined
<1>9. Timed(Groups6!Stsdifs(m)) /\ Groups6!Stsdifs(m).k.f \in {m.k.f, Groups6!NoFrame}
  BY <1>4 DEF Timed, Machined
<1>10. Timed(Groups6!Stcl(m))
  BY <1>5 DEF Timed, Machined
<1>11. m.timer # "running" => Timed(Groups6!Srsf(m))
  BY <1>6 DEF Timed, Machined
<1>12. Timed(Groups6!Rtimrtct(m)) /\ Groups6!Rtimrtct(m).k.f = m.k.f
  BY <1>7 DEF Groups6!Rtimrtct
<1>13. Groups6!Srsf(m).k.f = Groups6!Record("sent", {})
  BY <1>6 DEF Machined
<1> QED
  BY <1>7, <1>8, <1>9, <1>10, <1>11, <1>12, <1>13

\* What a change of the filter makes of the machine: nothing, or a report of it.
LEMMA MachineChanges ==
  ASSUME NEW m, Timed(m), NEW event, NEW old, NEW new
  PROVE  LET d == Groups6!StateChange(m, event, old, new)
         IN /\ Timed(d)
            /\ \/ d.k.f \in {m.k.f, Groups6!NoFrame}
               \/ \E k : /\ k.version = m.k.version
                         /\ d.k.f = Groups6!GenerateReport(k, event, old, new)
<1> DEFINE n == IF m.k.state = "none" THEN ToState(m, "NON_LISTENER") ELSE m
           r == Groups6!GenerateReport(n.k, event, old, new)
           d == Groups6!StateChange(m, event, old, new)
<1>1. Timed(n) /\ n.k.f = m.k.f /\ n.k.version = m.k.version
  <2>1. m.k.state = "none" => m.timer # "running"
    BY DEF Timed
  <2> QED
    BY <2>1, MachineState
<1>2. \/ d = m \/ d = n \/ d = Groups6!Srsfst(n, event, old, new)
      \/ d = Groups6!Stsdifs(n) \/ d = Groups6!Rtimrtct(n)
      \/ d = Groups6!Srst(n, event, old, new)
  BY DEF Groups6!StateChange, Groups6!Mrsrrt, ToState
<1> HIDE DEF n, d
<1>3. LET z == Groups6!Srsfst(n, event, old, new) IN Timed(z) /\ z.k.f = r
  <2> HIDE DEF r
  <2>1. Timed(ToFrame(n, r)) /\ ToFrame(n, r).k.f = r
    BY <1>1, MachineFrame
  <2>2. Groups6!Srsfst(n, event, old, new)
          = IF r = Groups6!NoFrame THEN ToFrame(n, r)
            ELSE Groups6!Delaying(Groups6!TimerStart(ToFrame(n, r)))
    BY DEF Groups6!Srsfst, r, ToFrame
  <2> QED
    BY <2>1, <2>2, MachineHandlers
<1>4. LET z == Groups6!Srst(n, event, old, new) IN Timed(z) /\ z.k.f \in {n.k.f, r}
  BY <1>1, <1>3 DEF Groups6!Srst
<1>5. /\ Timed(Groups6!Stsdifs(n)) /\ Groups6!Stsdifs(n).k.f \in {n.k.f, Groups6!NoFrame}
      /\ Timed(Groups6!Rtimrtct(n)) /\ Groups6!Rtimrtct(n).k.f = n.k.f
  BY <1>1, MachineHandlers
<1>6. Timed(d) /\ d.k.f \in {m.k.f, Groups6!NoFrame, r}
  <2> HIDE DEF r
  <2>1. CASE d = Groups6!Stsdifs(n)
    BY <1>1, <1>5, <2>1
  <2>2. CASE d = Groups6!Rtimrtct(n)
    BY <1>1, <1>5, <2>2
  <2> QED
    BY <1>1, <1>2, <1>3, <1>4, <2>1, <2>2
<1> QED
  BY <1>1, <1>6 DEF d

\* The record of a change that one record can carry, at a router that knew the filter
\* before: it lets through what passes the filter after it, and nothing else.
LEMMA RecordCarries ==
  ASSUME NEW k, k.version \in {1, 2}, NEW event, event # "STOP", NEW old, NEW new,
         old.mode \in {"INCLUDE", "EXCLUDE"}, new.mode \in {"INCLUDE", "EXCLUDE"},
         \/ new.mode # old.mode
         \/ new.sources \subseteq old.sources \/ old.sources \subseteq new.sources,
         Groups6!GenerateReport(k, event, old, new).type \notin {"none", "V1"},
         NEW source
  PROVE  Groups6!Accepts(Groups6!Apply(old, Groups6!GenerateReport(k, event, old, new)), source)
           <=> Groups6!Accepts(new, source)
<1> DEFINE f == Groups6!GenerateReport(k, event, old, new)
<1>0. \/ f = Groups6!Included(old, new) /\ old.mode = new.mode /\ new.mode = "INCLUDE"
      \/ f = Groups6!Excluded(old, new) /\ old.mode = new.mode /\ new.mode = "EXCLUDE"
      \/ f = Groups6!Record(IF new.mode = "INCLUDE" THEN "TO_INCLUDE" ELSE "TO_EXCLUDE",
                            new.sources)
      \/ f = Groups6!Record("V1", {})
  BY DEF Groups6!GenerateReport
<1> SUFFICES Groups6!Accepts(Groups6!Apply(old, f), source) <=> Groups6!Accepts(new, source)
  OBVIOUS
<1>1. f.type \notin {"none", "V1"}
  OBVIOUS
<1> HIDE DEF f
<1> USE DEF Groups6!Filter, Groups6!Accepts, Groups6!Record, Groups6!Apply
<1>2. CASE f = Groups6!Included(old, new) /\ old.mode = new.mode /\ new.mode = "INCLUDE"
  BY <1>1, <1>2 DEF Groups6!Included, Groups6!NoFrame
<1>3. CASE f = Groups6!Excluded(old, new) /\ old.mode = new.mode /\ new.mode = "EXCLUDE"
  BY <1>1, <1>3 DEF Groups6!Excluded, Groups6!NoFrame
<1>4. CASE f = Groups6!Record(IF new.mode = "INCLUDE" THEN "TO_INCLUDE" ELSE "TO_EXCLUDE",
                              new.sources)
  BY <1>4
<1>5. f # Groups6!Record("V1", {})
  BY <1>1
<1> QED
  BY <1>0, <1>2, <1>3, <1>4, <1>5

\* A message of version 1 empties the tree of timers.
LEMMA MachineVersions ==
  ASSUME NEW m, Timed(m)
  PROVE  /\ Timed(Groups6!Version1(m)) /\ Groups6!Version1(m).k.state = m.k.state
         /\ Groups6!Version1(m).timer = "none" /\ Groups6!Version1(m).k.f = m.k.f
         /\ Timed([m EXCEPT !.k.version = 2]) /\ [m EXCEPT !.k.version = 2].k.f = m.k.f
         /\ Timed([Groups6!Version1(m) EXCEPT !.k.querier = FALSE, !.k.version = 2])
         /\ [Groups6!Version1(m) EXCEPT !.k.querier = FALSE, !.k.version = 2].k.f = m.k.f
<1> DEFINE o == m.alarms.stale + m.alarms.current
           g == ToVersion(m, 1)
           h == ToQuerier(g, TRUE)
           l == ToTimer(h, "none")
           z == ToAlarms(l, [current |-> 0, stale |-> o])
           y == ToQuerier(z, FALSE)
           x == ToVersion(y, 2)
<1>0. IsMachine(m) /\ o \in Nat
  BY DEF Timed
<1>1. Groups6!Version1(m) = z
  BY DEF Groups6!Version1, ToVersion, ToQuerier, ToTimer, ToAlarms
<1>2. [z EXCEPT !.k.querier = FALSE, !.k.version = 2] = x
  BY DEF ToVersion, ToQuerier
<1>3. Machined(g, m.k.state, m.k.f, 1, m.timer, m.alarms.current, m.alarms.stale)
  BY <1>0, MachineFields
<1> HIDE DEF g, o
<1>4. IsMachine(g) /\ Machined(h, g.k.state, g.k.f, g.k.version, g.timer,
                               g.alarms.current, g.alarms.stale)
  <2>1. IsMachine(g)
    BY <1>3 DEF Machined
  <2> QED
    BY <2>1, MachineQuerier, Zenon
<1>5. Machined(h, m.k.state, m.k.f, 1, m.timer, m.alarms.current, m.alarms.stale)
  BY <1>3, <1>4, Zenon DEF Machined
<1> HIDE DEF h
<1>6. Machined(l, m.k.state, m.k.f, 1, "none", m.alarms.current, m.alarms.stale)
  BY <1>5, MachineChain
<1> HIDE DEF l
<1>7. Machined(z, m.k.state, m.k.f, 1, "none", 0, o)
  BY <1>6, MachineAlarms
<1> HIDE DEF z
<1>8. IsMachine(z) /\ Machined(y, z.k.state, z.k.f, z.k.version, z.timer,
                               z.alarms.current, z.alarms.stale)
  <2>1. IsMachine(z)
    BY <1>7 DEF Machined
  <2> QED
    BY <2>1, MachineQuerier, Zenon
<1>9. Machined(y, m.k.state, m.k.f, 1, "none", 0, o)
  BY <1>7, <1>8, Zenon DEF Machined
<1> HIDE DEF y
<1>10. Machined(x, m.k.state, m.k.f, 2, "none", 0, o)
  BY <1>9, MachineChain
<1> HIDE DEF x
<1>11. Timed(z) /\ Timed(x)
  BY <1>0, <1>7, <1>10 DEF Machined, Timed
<1>12. z.k.state = m.k.state /\ z.timer = "none" /\ z.k.f = m.k.f /\ x.k.f = m.k.f
  BY <1>7, <1>10 DEF Machined
<1>13. Timed([m EXCEPT !.k.version = 2]) /\ [m EXCEPT !.k.version = 2].k.f = m.k.f
  <2>1. Machined(ToVersion(m, 2), m.k.state, m.k.f, 2, m.timer, m.alarms.current, m.alarms.stale)
    BY <1>0, MachineFields
  <2>2. Timed(ToVersion(m, 2)) /\ ToVersion(m, 2).k.f = m.k.f
    BY <2>1 DEF Machined, Timed
  <2> QED
    BY <2>2 DEF ToVersion
<1> QED
  BY <1>1, <1>2, <1>11, <1>12, <1>13

\* The step becomes the machine d.
LEMMA MachineBecomes ==
  ASSUME NEW d, IsMachine(d), Groups6!Becomes(d)
  PROVE  Groups6!Now' = d
<1>1. mld' = d.k /\ mldTimer' = d.timer /\ alarms' = d.alarms
  BY DEF Groups6!Becomes
<1>2. d = [k |-> d.k, timer |-> d.timer, alarms |-> d.alarms]
  BY DEF IsMachine, Groups6!Machine
<1> QED
  BY <1>1, <1>2 DEF Groups6!Now, Groups6!Machine

LEMMA MldInitially ==
  ASSUME Groups6!Init
  PROVE  MldInv
<1>1. Groups6!Now = [k |-> [state |-> "none", f |-> Groups6!NoFrame, version |-> 2,
                            querier |-> FALSE],
                     timer |-> "none", alarms |-> [current |-> 0, stale |-> 0]]
  BY DEF Groups6!Init, Groups6!Now, Groups6!Machine
<1>2. Timed(Groups6!Now)
  BY <1>1 DEF Timed, IsMachine, Groups6!Machine
<1> QED
  BY <1>2 DEF MldInv, Groups6!Init, Groups6!Nothing, Groups6!Filter

\* What a query and a report of another host do.
LEMMA MachineReceives ==
  ASSUME NEW m, Timed(m)
  PROVE  /\ Timed(Groups6!QueryEvent(ToFrame(m, Groups6!Record("query", {}))))
         /\ LET n == ToFrame(Groups6!Version1(m), Groups6!Record("query", {}))
            IN Timed(n) /\ Timed(Groups6!Stcl(n)) /\ Timed(Groups6!Stsdifs(n))
<1> DEFINE q == Groups6!Record("query", {})
           n == ToFrame(Groups6!Version1(m), q)
           g == ToFrame(m, q)
<1>1. Timed(g) /\ g.k.state = m.k.state /\ g.timer = m.timer
  BY MachineFrame
<1>2. Timed(Groups6!Version1(m))
  BY MachineVersions
<1>3. Timed(n)
  BY <1>2, MachineFrame
<1> HIDE DEF n, g
<1>4. Timed(Groups6!Stcl(n)) /\ Timed(Groups6!Stsdifs(n))
  BY <1>3, MachineHandlers
<1>5. Timed(Groups6!Rtimrtct(g)) /\ (g.timer # "running" => Timed(Groups6!Srsf(g)))
  BY <1>1, MachineHandlers
<1>6. g.k.state = "IDLE" => g.timer # "running"
  BY <1>1 DEF Timed
<1>7. Timed(Groups6!QueryEvent(g))
  BY <1>1, <1>5, <1>6 DEF Groups6!QueryEvent
<1> QED
  BY <1>3, <1>4, <1>7 DEF n, g

\* The other alarms of a timer that left the tree are stale.
LEMMA MachineSettles ==
  ASSUME NEW d, NEW s, NEW f, NEW v \in {1, 2}, NEW t, NEW i \in Nat, NEW j \in Nat,
         Machined(d, s, f, v, t, i, j), t = "running" => s = "DELAYING", t = "none" \/ i > 0
  PROVE  Timed(Groups6!Settled(d))
<1>1. t = "none" => Groups6!Settled(d) = ToAlarms(d, [current |-> 0, stale |-> j + i])
  BY DEF Groups6!Settled, ToAlarms, Machined
<1>2. t # "none" => Groups6!Settled(d) = d
  BY DEF Groups6!Settled, Machined
<1>3. Machined(ToAlarms(d, [current |-> 0, stale |-> j + i]), s, f, v, t, 0, j + i)
  BY MachineAlarms
<1>4. Timed(ToAlarms(d, [current |-> 0, stale |-> j + i])) \/ t # "none"
  BY <1>3 DEF Timed, Machined
<1>5. Timed(d) \/ t = "none"
  BY DEF Timed, Machined
<1> QED
  BY <1>1, <1>2, <1>4, <1>5

\* What an alarm does: the timer of the tree keeps an alarm.
LEMMA MachineExpires ==
  ASSUME NEW m, Timed(m), NEW which \in {"current", "stale"}, m.alarms[which] > 0,
         NEW due \in BOOLEAN
  PROVE  Timed(Groups6!Settled(Groups6!TimerExpired([m EXCEPT !.alarms[which] = @ - 1], due)))
<1> DEFINE c == IF which = "current" THEN m.alarms.current - 1 ELSE m.alarms.current
           o == IF which = "stale" THEN m.alarms.stale - 1 ELSE m.alarms.stale
           g == ToAlarms(m, [current |-> c, stale |-> o])
           e == Groups6!TimerExpired(g, due)
<1>0. /\ IsMachine(m) /\ m.k.version \in {1, 2} /\ c \in Nat /\ o \in Nat
      /\ m.alarms.current \in Nat
  BY DEF Timed
<1>1. [m EXCEPT !.alarms[which] = @ - 1] = g
  <2>1. m.alarms = [current |-> m.alarms.current, stale |-> m.alarms.stale]
    BY <1>0 DEF IsMachine, Groups6!Machine
  <2>2. [m.alarms EXCEPT ![which] = @ - 1] = [current |-> c, stale |-> o]
    BY <2>1
  <2>3. [m EXCEPT !.alarms[which] = @ - 1] = [m EXCEPT !.alarms = [m.alarms EXCEPT ![which] = @ - 1]]
    BY <1>0 DEF IsMachine, Groups6!Machine
  <2> QED
    BY <2>2, <2>3 DEF ToAlarms
<1>2. Machined(g, m.k.state, m.k.f, m.k.version, m.timer, c, o)
  BY <1>0, MachineFields
<1>3. c >= m.alarms.current - 1
  BY <1>0
<1> HIDE DEF c, o, g
<1>4. /\ IsMachine(g) /\ g.k.state = m.k.state /\ g.k.f = m.k.f /\ g.k.version = m.k.version
      /\ g.timer = m.timer /\ g.alarms.current = c /\ g.alarms.stale = o
  BY <1>2 DEF Machined
<1> DEFINE z == ToTimer(g, "none")
           y == ToState(z, "IDLE")
           x == ToFrame(y, Groups6!Record("sent", {}))
           w == ToCurrent(g, c + 1)
<1>5. Machined(z, m.k.state, m.k.f, m.k.version, "none", c, o)
  BY <1>2, MachineChain
<1>6. Machined(w, m.k.state, m.k.f, m.k.version, m.timer, c + 1, o)
  BY <1>2, MachineChain
<1>7. /\ g.timer = "none" => e = g
      /\ g.timer = "stopped" => e = z
      /\ g.timer = "running" => e \in {z, x, w}
      /\ g.timer \notin {"none", "stopped", "running"} => e = w
  <2>1. z.k.state = "DELAYING" => Groups6!Reported(z) = x
    BY DEF Groups6!Reported, Groups6!Srsf, Groups6!Idle, ToState, ToFrame
  <2>2. z.k.state # "DELAYING" => Groups6!Reported(z) = z
    BY DEF Groups6!Reported
  <2>3. Groups6!Reported(z) \in {x, z}
    BY <2>1, <2>2
  <2>4. w = [g EXCEPT !.alarms.current = @ + 1]
    BY <1>4 DEF ToCurrent
  <2> HIDE DEF w, x
  <2>5. [g EXCEPT !.timer = "none"] = z
    BY DEF ToTimer
  <2> HIDE DEF z
  <2> QED
    BY <2>3, <2>4, <2>5 DEF Groups6!TimerExpired
<1> HIDE DEF e, w, z
<1>8. Machined(y, "IDLE", m.k.f, m.k.version, "none", c, o)
  BY <1>5, MachineChain
<1> HIDE DEF y
<1>9. Machined(x, "IDLE", Groups6!Record("sent", {}), m.k.version, "none", c, o)
  BY <1>8, MachineChain
<1> HIDE DEF x
<1>11. c + 1 \in Nat /\ c + 1 > 0
  BY <1>0
<1>12. m.timer = "running" => m.k.state = "DELAYING"
  BY DEF Timed
<1>13. m.timer = "none" => Timed(Groups6!Settled(g))
  BY <1>0, <1>2, MachineSettles
<1>14. Timed(Groups6!Settled(z))
  BY <1>0, <1>5, MachineSettles
<1>15. Timed(Groups6!Settled(x))
  BY <1>0, <1>9, MachineSettles
<1>16. Timed(Groups6!Settled(w))
  BY <1>0, <1>6, MachineSettles, <1>11, <1>12
<1> QED
  BY <1>1, <1>4, <1>7, <1>13, <1>14, <1>15, <1>16 DEF e

\* Every step of Mld keeps it.
LEMMA MldStep ==
  ASSUME MldInv, [Groups6!Next]_Groups6!vars
  PROVE  MldInv'
<1> DEFINE m == Groups6!Now
           v == Groups6!Version1(m)
           q == Groups6!Record("query", {})
<1>1. /\ Timed(m) /\ group6.filter.mode \in {"INCLUDE", "EXCLUDE"}
      /\ mld = m.k /\ mldTimer = m.timer /\ alarms = m.alarms
  BY DEF MldInv, Groups6!Now, Groups6!Machine
<1>2. ASSUME NEW d, Timed(d), Groups6!Becomes(d),
             group6' = group6 \/ group6'.filter.mode \in {"INCLUDE", "EXCLUDE"}
      PROVE  MldInv'
  <2>1. Groups6!Now' = d
    BY <1>2, MachineBecomes DEF Timed
  <2>2. Timed(Groups6!Now) = Timed(m)
    OBVIOUS
  <2>3. Timed(Groups6!Now)'
    <3>1. Timed(Groups6!Now')
      BY <1>2, <2>1
    <3> QED
      BY <3>1 DEF Timed, IsMachine
  <2>4. group6'.filter.mode \in {"INCLUDE", "EXCLUDE"}
    BY <1>1, <1>2
  <2> QED
    BY <2>3, <2>4 DEF MldInv
<1>3. \A event, old, new : Timed(Groups6!StateChange(m, event, old, new))
  BY <1>1, MachineChanges
<1>4. \A filter \in Groups6!Filters \cup {Groups6!Nothing} : filter.mode \in {"INCLUDE", "EXCLUDE"}
  BY DEF Groups6!Filters, Groups6!Nothing, Groups6!Filter
<1>5. Timed(v) /\ v.k.state = m.k.state /\ Timed([m EXCEPT !.k.version = 2])
      /\ Timed([v EXCEPT !.k.querier = FALSE, !.k.version = 2])
  BY <1>1, MachineVersions
<1> HIDE DEF v
<1>6. ASSUME NEW filter \in Groups6!Filters, NEW count \in {0, 1}, Groups6!Join(filter, count)
      PROVE  MldInv'
  <2>1. group6'.filter = filter
    BY <1>6 DEF Groups6!Join
  <2> QED
    BY <1>2, <1>3, <1>4, <1>6, <2>1 DEF Groups6!Join
<1>7. ASSUME NEW filter \in Groups6!Filters \cup {Groups6!Nothing}, NEW count \in {0, 1},
             Groups6!Leave(filter, count)
      PROVE  MldInv'
  <2>1. group6'.filter = filter
    BY <1>7 DEF Groups6!Leave
  <2> QED
    BY <1>2, <1>3, <1>4, <1>7, <2>1 DEF Groups6!Leave
<1>8. ASSUME NEW version \in {1, 2}, Groups6!Query(version)
      PROVE  MldInv'
  <2> DEFINE n == IF version = 1 THEN v ELSE [m EXCEPT !.k.version = 2]
             d == IF n.k.state = "none" THEN n ELSE Groups6!QueryEvent(ToFrame(n, q))
  <2>1. Timed(n)
    BY <1>5
  <2>2. Timed(Groups6!QueryEvent(ToFrame(n, q)))
    BY <2>1, MachineReceives
  <2>3. Groups6!Becomes(d) /\ group6' = group6
    BY <1>8 DEF Groups6!Query, ToFrame, v
  <2>4. Timed(d)
    BY <2>1, <2>2
  <2> HIDE DEF d
  <2> QED
    BY <1>2, <2>3, <2>4
<1>9. CASE Groups6!ReportRecv
  <2> DEFINE n == ToFrame(v, q)
             d == CASE v.k.state = "none" -> v
                    [] v.k.state = "DELAYING" -> Groups6!Stcl(n)
                    [] v.k.state = "IDLE" -> Groups6!Stsdifs(n)
                    [] OTHER -> n
  <2>1. Timed(n) /\ Timed(Groups6!Stcl(n)) /\ Timed(Groups6!Stsdifs(n))
    BY <1>1, MachineReceives DEF v
  <2>2. Groups6!Becomes(d) /\ group6' = group6
    BY <1>9 DEF Groups6!ReportRecv, ToFrame, v
  <2>3. Timed(d)
    BY <1>5, <2>1
  <2> HIDE DEF d
  <2> QED
    BY <1>2, <2>2, <2>3
<1>10. CASE Groups6!V1QuerierExpired
  <2> DEFINE d == [v EXCEPT !.k.querier = FALSE, !.k.version = 2]
  <2>1. Groups6!Becomes(d) /\ group6' = group6
    BY <1>10 DEF Groups6!V1QuerierExpired, v
  <2> HIDE DEF d
  <2> QED
    BY <1>2, <1>5, <2>1 DEF d
<1>11. ASSUME NEW which \in {"current", "stale"}, NEW due \in BOOLEAN,
              Groups6!AlarmGoesOff(which, due)
       PROVE  MldInv'
  <2> DEFINE d == Groups6!Settled(Groups6!TimerExpired([m EXCEPT !.alarms[which] = @ - 1], due))
  <2>1. Groups6!Becomes(d) /\ group6' = group6 /\ m.alarms[which] > 0
    BY <1>1, <1>11 DEF Groups6!AlarmGoesOff
  <2>2. Timed(d)
    BY <1>1, <2>1, MachineExpires
  <2> HIDE DEF d
  <2> QED
    BY <1>2, <2>1, <2>2
<1>12. CASE UNCHANGED Groups6!vars
  BY <1>12 DEF Groups6!vars, MldInv, Groups6!Now, Timed, IsMachine, Groups6!Machine
<1> QED
  BY <1>6, <1>7, <1>8, <1>9, <1>10, <1>11, <1>12 DEF Groups6!Next

\* A timer that runs is that of a pending report; a timer of the tree has an alarm.
LEMMA MldTimers ==
  ASSUME MldInv
  PROVE  Groups6!RunningIsPending /\ Groups6!TimerHasAlarm
  BY DEF MldInv, Timed, Groups6!Now, Groups6!Machine, Groups6!RunningIsPending,
         Groups6!TimerHasAlarm

\* What a handler of the network or of the alarms leaves as the frame.
LEMMA MachineFrames ==
  ASSUME NEW m, Timed(m)
  PROVE  /\ Groups6!Version1(m).k.f = m.k.f
         /\ [m EXCEPT !.k.version = 2].k.f = m.k.f
         /\ [Groups6!Version1(m) EXCEPT !.k.querier = FALSE, !.k.version = 2].k.f = m.k.f
         /\ Groups6!Stsdifs(m).k.f \in {m.k.f, Groups6!NoFrame}
         /\ Groups6!Stcl(m).k.f = m.k.f
         /\ Groups6!QueryEvent(m).k.f \in {m.k.f, Groups6!Record("sent", {})}
<1>1. m = [k |-> [state |-> m.k.state, f |-> m.k.f, version |-> m.k.version,
                  querier |-> m.k.querier],
           timer |-> m.timer,
           alarms |-> [current |-> m.alarms.current, stale |-> m.alarms.stale]]
  BY DEF Timed, IsMachine, Groups6!Machine
<1>2. /\ Groups6!Version1(m).k.f = m.k.f
      /\ [m EXCEPT !.k.version = 2].k.f = m.k.f
  BY MachineVersions
<1>3. [Groups6!Version1(m) EXCEPT !.k.querier = FALSE, !.k.version = 2].k.f = m.k.f
  BY MachineVersions
<1>4. /\ Groups6!Stsdifs(m).k.f \in {m.k.f, Groups6!NoFrame}
      /\ Groups6!Stcl(m).k.f = m.k.f
  BY <1>1 DEF Groups6!Stsdifs, Groups6!Stcl, Groups6!Idle
<1>5. Groups6!Rtimrtct(m).k.f = m.k.f
  BY MachineHandlers
<1>6. Groups6!Srsf(m).k.f = Groups6!Record("sent", {})
  BY MachineHandlers
<1>7. Groups6!QueryEvent(m).k.f \in {m.k.f, Groups6!Record("sent", {})}
  BY <1>5, <1>6 DEF Groups6!QueryEvent
<1> QED
  BY <1>2, <1>3, <1>4, <1>7

LEMMA AlarmFrames ==
  ASSUME NEW m, Timed(m), NEW which \in {"current", "stale"}, NEW due \in BOOLEAN
  PROVE  Groups6!Settled(Groups6!TimerExpired([m EXCEPT !.alarms[which] = @ - 1], due)).k.f
           \in {m.k.f, Groups6!Record("sent", {})}
<1> DEFINE g == [m EXCEPT !.alarms[which] = @ - 1]
           z == [g EXCEPT !.timer = "none"]
           w == [g EXCEPT !.alarms.current = @ + 1]
           e == Groups6!TimerExpired(g, due)
<1>1. m = [k |-> [state |-> m.k.state, f |-> m.k.f, version |-> m.k.version,
                  querier |-> m.k.querier],
           timer |-> m.timer,
           alarms |-> [current |-> m.alarms.current, stale |-> m.alarms.stale]]
  BY DEF Timed, IsMachine, Groups6!Machine
<1>2. g.k = m.k /\ DOMAIN g = {"k", "timer", "alarms"}
  BY <1>1
<1>3. DOMAIN m.k = {"state", "f", "version", "querier"}
  BY <1>1
<1> HIDE DEF g
<1>4. z.k = m.k /\ w.k = m.k
  BY <1>2
<1> HIDE DEF z, w
<1>5. e \in {g, z, w, Groups6!Reported(z)}
  BY DEF e, z, w, Groups6!TimerExpired
<1>6. DOMAIN z = {"k", "timer", "alarms"}
  BY <1>2 DEF z
<1>7. Groups6!Reported(z).k.f \in {m.k.f, Groups6!Record("sent", {})}
  BY <1>3, <1>4, <1>6 DEF Groups6!Reported, Groups6!Srsf, Groups6!Idle
<1>8. DOMAIN e = {"k", "timer", "alarms"}
  <2>1. DOMAIN Groups6!Reported(z) = {"k", "timer", "alarms"}
    BY <1>6 DEF Groups6!Reported, Groups6!Srsf, Groups6!Idle
  <2>2. DOMAIN w = {"k", "timer", "alarms"}
    BY <1>2 DEF w
  <2> QED
    BY <1>2, <1>5, <1>6, <2>1, <2>2
<1>9. e.k.f \in {m.k.f, Groups6!Record("sent", {})}
  BY <1>2, <1>4, <1>5, <1>7
<1> HIDE DEF e
<1>10. Groups6!Settled(e).k = e.k
  BY <1>8 DEF Groups6!Settled
<1> QED
  BY <1>9, <1>10 DEF e, g

\* The frame of the parameter is that of before, one that says nothing of the sources, or
\* the report of a change.
LEMMA MldFrames ==
  ASSUME MldInv, Groups6!Next, group6'.ref > 0, mld'.f # mld.f,
         mld'.f.type \notin {"none", "query", "sent", "V1"}
  PROVE  \E k, event : /\ k.version \in {1, 2} /\ event # "STOP"
                       /\ mld'.f = Groups6!GenerateReport(k, event, group6.filter, group6'.filter)
<1> DEFINE m == Groups6!Now
           v == Groups6!Version1(m)
           q == Groups6!Record("query", {})
           Quiet == {m.k.f, Groups6!NoFrame, q, Groups6!Record("sent", {})}
           Said == \E k, event : /\ k.version \in {1, 2} /\ event # "STOP"
                       /\ mld'.f = Groups6!GenerateReport(k, event, group6.filter, group6'.filter)
<1>1. Timed(m) /\ mld = m.k /\ mldTimer = m.timer /\ alarms = m.alarms
  BY DEF MldInv, Groups6!Now, Groups6!Machine
<1> HIDE DEF m
<1>2. mld'.f \notin Quiet
  BY <1>1 DEF Groups6!NoFrame, Groups6!Record
<1>3. m.k.version \in {1, 2} /\ Timed(v) /\ Timed([m EXCEPT !.k.version = 2])
  BY <1>1, MachineVersions DEF Timed
<1>4. ASSUME NEW event, event # "STOP",
             Groups6!Becomes(Groups6!StateChange(m, event, group6.filter, group6'.filter))
      PROVE  Said
  <2> DEFINE d == Groups6!StateChange(m, event, group6.filter, group6'.filter)
  <2>1. \/ d.k.f \in {m.k.f, Groups6!NoFrame}
        \/ \E k : /\ k.version = m.k.version
                  /\ d.k.f = Groups6!GenerateReport(k, event, group6.filter, group6'.filter)
    BY <1>1, MachineChanges
  <2>2. mld' = d.k
    BY <1>4 DEF Groups6!Becomes
  <2> HIDE DEF d
  <2> QED
    BY <1>2, <1>3, <1>4, <2>1, <2>2
<1>5. ASSUME NEW filter \in Groups6!Filters, NEW count \in {0, 1}, Groups6!Join(filter, count)
      PROVE  Said
  <2>1. group6'.filter = filter
    BY <1>5 DEF Groups6!Join
  <2> QED
    BY <1>4, <1>5, <2>1 DEF Groups6!Join, m
<1>6. ASSUME NEW filter \in Groups6!Filters \cup {Groups6!Nothing}, NEW count \in {0, 1},
             Groups6!Leave(filter, count)
      PROVE  Said
  <2>1. group6'.filter = filter /\ group6'.ref = group6.ref - count
    BY <1>6 DEF Groups6!Leave
  <2>2. ~(group6.ref = 1 /\ count = 1)
    BY <2>1
  <2> QED
    BY <1>4, <1>6, <2>1, <2>2 DEF Groups6!Leave, m
<1>7. ASSUME NEW d, d.k.f \in Quiet
      PROVE  ~Groups6!Becomes(d)
  BY <1>2, <1>7 DEF Groups6!Becomes
<1>8. \A n : Timed(n) => /\ Timed(ToFrame(n, q)) /\ ToFrame(n, q).k.f = q
  BY MachineFrame
<1> HIDE DEF Quiet
<1>9. /\ m.k.f \in Quiet /\ q \in Quiet /\ Groups6!NoFrame \in Quiet
      /\ Groups6!Record("sent", {}) \in Quiet
  BY DEF Quiet
<1>10. ~Groups6!Query(1) /\ ~Groups6!Query(2)
  <2>1. ASSUME NEW version \in {1, 2}
        PROVE  ~Groups6!Query(version)
    <3> DEFINE n == IF version = 1 THEN v ELSE [m EXCEPT !.k.version = 2]
               d == IF n.k.state = "none" THEN n ELSE Groups6!QueryEvent(ToFrame(n, q))
    <3>1. Timed(n) /\ n.k.f = m.k.f
      BY <1>1, <1>3, MachineFrames
    <3>2. Groups6!QueryEvent(ToFrame(n, q)).k.f \in {q, Groups6!Record("sent", {})}
      <4> HIDE DEF n
      <4>1. Timed(ToFrame(n, q)) /\ ToFrame(n, q).k.f = q
        BY <1>8, <3>1
      <4> QED
        BY <4>1, MachineFrames
    <3>3. d.k.f \in Quiet
      <4> HIDE DEF n
      <4> QED
        BY <1>9, <3>1, <3>2
    <3>4. Groups6!Query(version) => Groups6!Becomes(d)
      BY DEF Groups6!Query, ToFrame, m
    <3> HIDE DEF d
    <3> QED
      BY <1>7, <3>3, <3>4
  <2> QED
    BY <2>1
<1>11. ~Groups6!ReportRecv
  <2> DEFINE n == ToFrame(v, q)
             d == CASE v.k.state = "none" -> v
                    [] v.k.state = "DELAYING" -> Groups6!Stcl(n)
                    [] v.k.state = "IDLE" -> Groups6!Stsdifs(n)
                    [] OTHER -> n
  <2>1. v.k.f = m.k.f
    BY <1>1, MachineFrames
  <2>2. Timed(n) /\ n.k.f = q
    BY <1>3, <1>8
  <2>3. Groups6!Stcl(n).k.f = q /\ Groups6!Stsdifs(n).k.f \in {q, Groups6!NoFrame}
    <3> HIDE DEF n
    <3> QED
      BY <2>2, MachineFrames
  <2>4. d.k.f \in Quiet
    <3> HIDE DEF n, v
    <3> QED
      BY <1>9, <2>1, <2>2, <2>3
  <2>5. Groups6!ReportRecv => Groups6!Becomes(d)
    BY DEF Groups6!ReportRecv, ToFrame, m
  <2> HIDE DEF d
  <2> QED
    BY <1>7, <2>4, <2>5
<1>12. ~Groups6!V1QuerierExpired
  <2> DEFINE d == [v EXCEPT !.k.querier = FALSE, !.k.version = 2]
  <2>1. d.k.f \in Quiet
    BY <1>1, <1>9, MachineFrames
  <2>2. Groups6!V1QuerierExpired => Groups6!Becomes(d)
    BY DEF Groups6!V1QuerierExpired, m
  <2> HIDE DEF d
  <2> QED
    BY <1>7, <2>1, <2>2
<1>13. ASSUME NEW which \in {"current", "stale"}, NEW due \in BOOLEAN
       PROVE  ~Groups6!AlarmGoesOff(which, due)
  <2> DEFINE d == Groups6!Settled(Groups6!TimerExpired([m EXCEPT !.alarms[which] = @ - 1], due))
  <2>1. d.k.f \in Quiet
    BY <1>1, <1>9, AlarmFrames
  <2>2. Groups6!AlarmGoesOff(which, due) => Groups6!Becomes(d)
    BY DEF Groups6!AlarmGoesOff, m
  <2> HIDE DEF d
  <2> QED
    BY <1>7, <2>1, <2>2
<1> HIDE DEF Said
<1>14. Said
  BY <1>5, <1>6, <1>10, <1>11, <1>12, <1>13 DEF Groups6!Next
<1> QED
  BY <1>14 DEF Said

\* The report of a change carries it to a router.
LEMMA MldCarries ==
  ASSUME MldInv, [Groups6!Next]_Groups6!vars
  PROVE  LET old == group6.filter
             new == group6'.filter
         IN /\ group6'.ref > 0 /\ mld'.f # mld.f
            /\ mld'.f.type \notin {"none", "query", "sent", "V1"}
            /\ \/ new.mode # old.mode
               \/ new.sources \subseteq old.sources \/ old.sources \subseteq new.sources
            => \A source \in Sources6 :
                 Groups6!Accepts(Groups6!Apply(old, mld'.f), source) = Groups6!Accepts(new, source)
<1> DEFINE old == group6.filter
           new == group6'.filter
<1> SUFFICES ASSUME group6'.ref > 0, mld'.f # mld.f,
                    mld'.f.type \notin {"none", "query", "sent", "V1"},
                    \/ new.mode # old.mode
                    \/ new.sources \subseteq old.sources \/ old.sources \subseteq new.sources,
                    NEW source \in Sources6
             PROVE  Groups6!Accepts(Groups6!Apply(old, mld'.f), source) = Groups6!Accepts(new, source)
  OBVIOUS
<1>1. Groups6!Next
  BY DEF Groups6!vars
<1>2. PICK k, event : /\ k.version \in {1, 2} /\ event # "STOP"
                      /\ mld'.f = Groups6!GenerateReport(k, event, old, new)
  BY <1>1, MldFrames
<1>3. old.mode \in {"INCLUDE", "EXCLUDE"}
  BY DEF MldInv
<1>4. MldInv'
  BY MldStep
<1>5. new.mode \in {"INCLUDE", "EXCLUDE"}
  BY <1>4 DEF MldInv
<1>6. Groups6!GenerateReport(k, event, old, new).type \notin {"none", "V1"}
  BY <1>2
<1> HIDE DEF old, new
<1>7. Groups6!Accepts(Groups6!Apply(old, mld'.f), source) <=> Groups6!Accepts(new, source)
  BY <1>2, <1>3, <1>5, <1>6, RecordCarries
<1>8. /\ Groups6!Accepts(Groups6!Apply(old, mld'.f), source) \in BOOLEAN
      /\ Groups6!Accepts(new, source) \in BOOLEAN
  BY DEF Groups6!Accepts
<1> QED
  BY <1>7, <1>8

LEMMA MldReports ==
  ASSUME MldInv, [Groups6!Next]_Groups6!vars
  PROVE  Groups6!ChangeIsCarried
BY MldCarries DEF Groups6!ChangeIsCarried

-----------------------------------------------------------------------------
(* Fragments: the datagram in progress                                     *)

\* Of the datagrams under way no two have one sender and one identification; the bound of
\* Fragments on their fragments is 8.
Identified ==
  /\ \A d \in DOMAIN Datagrams : Datagrams[d].last \in 1 .. 8
  /\ \A d, e \in DOMAIN Datagrams :
       Datagrams[d].id = Datagrams[e].id /\ Datagrams[d].source = Datagrams[e].source => d = e

Piece(d, i) == [of |-> d, place |-> i]
Pieces(d) == {Piece(d, i) : i \in 1 .. Datagrams[d].last}
\* The tree has pieces of one datagram, the one in progress.
OfOne(s) == /\ DOMAIN s = {"tree", "cur", "own", "others", "received"}
            /\ s.tree # {} =>
                 \E d \in DOMAIN Datagrams : s.tree \subseteq Pieces(d) /\ Datagrams[d].id = s.cur
Missing(s) == \A d \in DOMAIN Datagrams :
                \E i \in 1 .. Datagrams[d].last : Piece(d, i) \notin s.tree
Ended(s) == s.tree # {} => s.own \/ s.others > 0
Given(s) == \/ s.received = <<>>
            \/ \E d \in DOMAIN Datagrams :
                 s.received = [i \in 1 .. Datagrams[d].last |-> Piece(d, i)]
FragInv == OfOne(frag) /\ Missing(frag) /\ Ended(frag) /\ Given(frag)

LEMMA LeastOne ==
  ASSUME NEW S \in SUBSET Nat, S # {}
  PROVE  \E n \in S : \A m \in S : ~(m < n)
<1>1. IsWellFoundedOn(OpToRel(<, Nat), Nat)
  BY NatLessThanWellFounded
<1>2. PICK n \in S : \A m \in S : ~(<<m, n>> \in OpToRel(<, Nat))
  BY <1>1, WFMin
<1> QED
  BY <1>2 DEF OpToRel

LEMMA SmallestExists ==
  ASSUME NEW S \in SUBSET Nat, S # {}
  PROVE  \E n \in S : \A m \in S : n <= m
  BY LeastOne

LEMMA FirstIsPiece ==
  ASSUME NEW net, NEW s, NEW d \in DOMAIN Datagrams, s.tree # {}, s.tree \subseteq Pieces(d), Identified
  PROVE  Fragments(net)!First(s) \in s.tree
<1> DEFINE ns == {f.place : f \in s.tree}
<1>1. ns \in SUBSET Nat /\ ns # {}
  BY DEF Pieces, Piece, Identified
<1>2. \E n \in ns : \A k \in ns : n <= k
  BY <1>1, SmallestExists
<1>3. \E f \in s.tree : \A g \in s.tree : f.place <= g.place
  BY <1>2
<1> QED
  BY <1>3 DEF Fragments!First

\* A piece that is put in is of the datagram in progress.
LEMMA InsertKeepsOne ==
  ASSUME Identified, NEW net, NEW s, OfOne(s), NEW d \in DOMAIN Datagrams,
         NEW i \in 1 .. Datagrams[d].last, s.tree = {} => s.cur = Datagrams[d].id
  PROVE  LET t == Fragments(net)!Insert(s, Piece(d, i))
         IN /\ OfOne(t) /\ t.tree # {}
            /\ t.received = s.received /\ t.own = s.own /\ t.others = s.others
<1> DEFINE p == Piece(d, i)
           t == Fragments(net)!Insert(s, p)
           g == [s EXCEPT !.tree = @ \cup {p}]
<1>1. p.of = d /\ p.place = i /\ p \in Pieces(d)
  BY DEF Piece, Pieces
<1>2. \/ t = s /\ s.tree # {}
      \/ t = g /\ Fragments(net)!Match(s, p)
  <2>1. s.tree = {} => Fragments(net)!Match(s, p)
    BY DEF Fragments!Match
  <2>2. t = IF ~Fragments(net)!Match(s, p) \/ (\E h \in s.tree : h.place = p.place) THEN s ELSE g
    BY DEF Fragments!Insert
  <2> HIDE DEF t, g
  <2> QED
    BY <2>1, <2>2
<1>3. /\ DOMAIN g = DOMAIN s /\ g.tree = s.tree \cup {p} /\ g.cur = s.cur
      /\ g.received = s.received /\ g.own = s.own /\ g.others = s.others
  BY DEF OfOne
<1> HIDE DEF g, p
<1>4. ASSUME Fragments(net)!Match(s, p)
      PROVE  OfOne(g)
  <2>1. CASE s.tree = {}
    BY <1>1, <1>3, <2>1 DEF OfOne
  <2>2. CASE s.tree # {}
    <3>1. PICK e \in DOMAIN Datagrams : s.tree \subseteq Pieces(e) /\ Datagrams[e].id = s.cur
      BY <2>2 DEF OfOne
    <3>2. Fragments(net)!First(s) \in Pieces(e)
      BY <2>2, <3>1, FirstIsPiece
    <3>3. Fragments(net)!First(s).of = e
      BY <3>2 DEF Pieces, Piece
    <3>4. Datagrams[d].source = Datagrams[e].source /\ Datagrams[d].id = s.cur
      BY <1>1, <1>4, <2>2, <3>3 DEF Fragments!Match, Fragments!Id
    <3>5. d = e
      BY <3>1, <3>4 DEF Identified
    <3> QED
      BY <1>1, <1>3, <3>1, <3>5 DEF OfOne
  <2> QED
    BY <2>1, <2>2
<1> QED
  BY <1>2, <1>3, <1>4 DEF p

\* A datagram is handed up when it is whole, and only then.
LEMMA CheckKeeps ==
  ASSUME Identified, NEW net, NEW s, OfOne(s), Given(s), s.own \/ s.others > 0, NEW f
  PROVE  LET t == Fragments(net)!CheckComplete(s, f)
         IN OfOne(t) /\ Missing(t) /\ Given(t) /\ Ended(t)
<1> DEFINE t == Fragments(net)!CheckComplete(s, f)
           W == Fragments(net)!Whole(s)
           n == CHOOSE k \in W : TRUE
           rec == [i \in 1 .. n |-> CHOOSE g \in s.tree : g.place = i]
<1>1. CASE W = {}
  <2>1. t = s
    BY <1>1 DEF Fragments!CheckComplete
  <2>2. Missing(s)
    <3> SUFFICES ASSUME NEW e \in DOMAIN Datagrams,
                        \A i \in 1 .. Datagrams[e].last : Piece(e, i) \in s.tree
                 PROVE  FALSE
      BY DEF Missing
    <3> DEFINE l == Datagrams[e].last
    <3>1. l \in 1 .. 8
      BY DEF Identified
    <3>2. \A i \in 1 .. l : Piece(e, i).place = i /\ Piece(e, i).of = e
      BY DEF Piece
    <3>3. Piece(e, l) \in s.tree /\ Piece(e, l).place = l /\ ~Fragments(net)!More(Piece(e, l))
      BY <3>1, <3>2 DEF Fragments!More
    <3>4. \A i \in 1 .. l : \E g \in s.tree : g.place = i
      BY <3>2
    <3>5. l \in W
      BY <3>1, <3>3, <3>4 DEF Fragments!Whole
    <3> QED
      BY <1>1, <3>5
  <2> QED
    BY <2>1, <2>2 DEF Ended
<1>2. CASE W # {}
  <2>1. n \in W
    BY <1>2
  <2> HIDE DEF n
  <2>2. /\ n \in 1 .. 8 /\ \A i \in 1 .. n : \E g \in s.tree : g.place = i
        /\ \E g \in s.tree : g.place = n /\ ~Fragments(net)!More(g)
    BY <2>1 DEF Fragments!Whole
  <2>3. s.tree # {}
    BY <2>2
  <2>4. PICK d \in DOMAIN Datagrams : s.tree \subseteq Pieces(d)
    BY <2>3 DEF OfOne
  <2>5. \A g \in s.tree : g = Piece(d, g.place) /\ g.of = d /\ g.place \in 1 .. Datagrams[d].last
    BY <2>4 DEF Pieces, Piece
  <2>6. Datagrams[d].last \in 1 .. 8
    BY DEF Identified
  <2>7. n = Datagrams[d].last
    BY <2>2, <2>5, <2>6 DEF Fragments!More
  <2>8. \A i \in 1 .. n : (CHOOSE g \in s.tree : g.place = i) = Piece(d, i)
    BY <2>2, <2>5
  <2>9. rec = [i \in 1 .. Datagrams[d].last |-> Piece(d, i)]
    BY <2>7, <2>8
  <2>10. t = Fragments(net)!Complete(s, n)
    BY <1>2 DEF Fragments!CheckComplete, n
  <2>11. DOMAIN t = DOMAIN s /\ t.tree = {} /\ t.received = rec
    BY <2>10 DEF OfOne, Fragments!Complete, Fragments!Complete4, Fragments!Complete6
  <2>12. Missing(t)
    BY <2>11 DEF Missing, Identified
  <2> HIDE DEF t, rec
  <2>13. OfOne(t) /\ Ended(t)
    BY <2>11 DEF OfOne, Ended
  <2>14. Given(t)
    BY <2>9, <2>11 DEF Given
  <2> QED
    BY <2>12, <2>13, <2>14 DEF t
<1> QED
  BY <1>1, <1>2

\* Every step of Fragments keeps it.
LEMMA FragStep ==
  ASSUME Identified, NEW net, FragInv, Fragments(net)!Next \/ UNCHANGED frag
  PROVE  FragInv'
<1> DEFINE Sound(s) == OfOne(s) /\ Missing(s) /\ Ended(s) /\ Given(s)
<1>1. Sound(frag) /\ DOMAIN frag = {"tree", "cur", "own", "others", "received"}
  BY DEF FragInv, OfOne
<1>2. ASSUME NEW d \in DOMAIN Datagrams, NEW i \in 1 .. 8, Fragments(net)!Receive(d, i)
      PROVE  Sound(frag')
  <2> DEFINE p == Piece(d, i)
             k == IF net = "ipv4" THEN Fragments(net)!Forget(frag, p) ELSE frag
             b == Fragments(net)!Begin(k, p)
             t == Fragments(net)!Insert(b, p)
             c == Fragments(net)!CheckComplete(t, p)
  <2>1. i \in 1 .. Datagrams[d].last /\ p.of = d /\ p.place = i
    BY <1>2 DEF Fragments!Receive, Piece
  <2>2. frag' = k \/ frag' = c
    BY <1>2 DEF Fragments!Receive, Fragments!Process4, Fragments!Process6, Piece
  <2>3. k = frag \/ k = [frag EXCEPT !.tree = {}, !.cur = 0]
    BY DEF Fragments!Forget
  <2>4. /\ DOMAIN k = DOMAIN frag /\ k.tree \in {frag.tree, {}} /\ k.received = frag.received
        /\ k.own = frag.own /\ k.others = frag.others /\ (k.tree # {} => k.cur = frag.cur)
    BY <1>1, <2>3
  <2> HIDE DEF k
  <2>5. Sound(k)
    <3>1. OfOne(k) /\ Ended(k) /\ Given(k)
      BY <1>1, <2>4 DEF OfOne, Ended, Given
    <3>2. Missing(k)
      BY <1>1, <2>4 DEF Missing, Identified
    <3> QED
      BY <3>1, <3>2
  <2>6. /\ OfOne(b) /\ Given(b) /\ (b.own \/ b.others > 0)
        /\ b.tree = {} => b.cur = Datagrams[d].id
    <3>1. CASE k.tree = {}
      <4>1. /\ DOMAIN b = DOMAIN k /\ b.tree = {} /\ b.own = TRUE /\ b.cur = Datagrams[d].id
            /\ b.received = k.received
        BY <1>1, <2>1, <2>4, <3>1 DEF Fragments!Begin, Fragments!TimerOn, Fragments!Id
      <4> QED
        BY <2>5, <4>1 DEF OfOne, Given
    <3>2. CASE k.tree # {}
      <4>1. b = k
        BY <3>2 DEF Fragments!Begin
      <4> QED
        BY <2>5, <3>2, <4>1 DEF Ended
    <3> QED
      BY <3>1, <3>2
  <2> HIDE DEF b, p
  <2>7. OfOne(t) /\ t.received = b.received /\ t.own = b.own /\ t.others = b.others
    <3> DEFINE z == Fragments(net)!Insert(b, Piece(d, i))
    <3>1. OfOne(z) /\ z.received = b.received /\ z.own = b.own /\ z.others = b.others
      BY <2>1, <2>6, InsertKeepsOne
    <3>2. z = t
      BY DEF p
    <3> HIDE DEF z, t
    <3> QED
      BY <3>1, <3>2
  <2> HIDE DEF t
  <2>8. Given(t) /\ (t.own \/ t.others > 0)
    <3>1. Given(t)
      BY <2>6, <2>7 DEF Given
    <3> QED
      BY <2>6, <2>7, <3>1, Zenon
  <2>9. Sound(c)
    BY <2>7, <2>8, CheckKeeps
  <2> HIDE DEF c
  <2> QED
    BY <2>2, <2>5, <2>9
<1>3. ASSUME Fragments(net)!OwnExpires \/ Fragments(net)!OtherExpires
      PROVE  Sound(frag')
  <2>1. DOMAIN frag' = DOMAIN frag /\ frag'.tree = {} /\ frag'.received = frag.received
    BY <1>1, <1>3 DEF Fragments!OwnExpires, Fragments!OtherExpires, Fragments!Expired
  <2>2. Missing(frag')
    BY <2>1 DEF Missing, Identified
  <2> QED
    BY <1>1, <2>1, <2>2 DEF OfOne, Ended, Given
<1>4. Sound(frag')
  BY <1>1, <1>2, <1>3 DEF Fragments!Next
<1> QED
  BY <1>4 DEF FragInv, OfOne, Missing, Ended, Given

LEMMA FragInitially ==
  ASSUME Identified, NEW net, Fragments(net)!Init
  PROVE  FragInv
BY DEF Identified, Fragments!Init, FragInv, OfOne, Missing, Ended, Given

LEMMA FragMeans ==
  ASSUME FragInv, NEW net
  PROVE  /\ Fragments(net)!WholeDatagram /\ Fragments(net)!CompleteIsDelivered
         /\ Fragments(net)!InProgressIsTimed
BY DEF FragInv, Missing, Ended, Given, Piece, Fragments!WholeDatagram,
       Fragments!CompleteIsDelivered, Fragments!InProgressIsTimed

-----------------------------------------------------------------------------
(* TftpTransfer: the blocks of the file                                    *)

\* Only the last block of a file is not full, and the numbers of its blocks do not come
\* again.
FilesFit == /\ BlockNumbers \in Nat /\ TftpRetries \in Nat \ {0}
            /\ \A f \in Files : /\ f \in Seq({"full", "near", "short"})
                                /\ Len(f) \in 1 .. BlockNumbers - 1
                                /\ \A i \in 1 .. Len(f) - 1 : f[i] = "full"

Counter(n) == IF n + 1 = BlockNumbers THEN 0 ELSE n + 1
Session(s) == /\ DOMAIN s = {"state", "ctr", "wall", "retry", "options", "err", "at"}
              /\ s.at \in Seq(Nat)
\* A session gives up, and is gone, once.
Limited(s) == /\ s.retry \in 0 .. TftpRetries
              /\ s.state \notin {"CLOSING", "GONE"} => s.retry < TftpRetries
              /\ s.state \in {"NONE", "GONE"} => s.wall = FALSE
Sender(s) ==
  /\ Session(s) /\ Limited(s) /\ Len(s.at) <= Len(tftpFile)
  /\ s.state \in {"NONE", "WRITE_REQUESTED", "WAIT_OPT_CONFIRM", "TX", "WAIT_LAST_ACK",
                  "CLOSING", "GONE"}
  /\ s.ctr = IF s.state = "NONE" THEN 0 ELSE Counter(Len(s.at))
  /\ s.state \in {"NONE", "WRITE_REQUESTED", "WAIT_OPT_CONFIRM"} => Len(s.at) = 0
  /\ s.state = "WAIT_LAST_ACK" => Len(s.at) = Len(tftpFile)
Receiver(s) == /\ Session(s) /\ Limited(s) /\ s.ctr = Len(s.at)
               /\ s.state \in {"NONE", "READ_REQUESTED", "RX", "CLOSING", "GONE"}
               /\ \A i \in 1 .. Len(s.at) : s.at[i] = i
Under(net, sent, got) ==
  \A m \in net : /\ m.to = "rx" /\ m.op = "DATA" => m.block \in 1 .. sent /\ m.data = m.block
                 /\ m.to = "tx" /\ m.op = "ACK" => m.block \in 0 .. got
Complete(s, got) == s.state \in {"CLOSING", "GONE"} /\ ~s.err => got = Len(tftpFile)
TftpInv == /\ tftpFile \in Files /\ Sender(tx) /\ Receiver(rx)
           /\ Len(rx.at) <= Len(tx.at) /\ Len(tx.at) <= Len(rx.at) + 1
           /\ Complete(tx, Len(rx.at))
           /\ Under(tftpNet, Len(tx.at), Len(rx.at))

LEMMA Remainder ==
  ASSUME NEW a \in Nat, NEW b \in Nat, a <= b, 0 < b
  PROVE  a % b = IF a = b THEN 0 ELSE a
OBVIOUS

LEMMA RemainderBelow ==
  ASSUME NEW a \in Nat, NEW b \in Nat, a < b
  PROVE  a % b = a
OBVIOUS

\* The next block of the file.
LEMMA SendsNext ==
  ASSUME FilesFit, tftpFile \in Files, NEW s, Session(s), s.retry \in Nat, s.retry < TftpRetries,
         Len(s.at) < Len(tftpFile), s.ctr = Counter(Len(s.at))
  PROVE  LET z == Tftp!SendData(s)
             n == Len(s.at) + 1
         IN /\ Sender(z) /\ Len(z.at) = n /\ z.state \in {"TX", "WAIT_LAST_ACK"}
            /\ Sender([z EXCEPT !.state = "TX"]) /\ Len([z EXCEPT !.state = "TX"].at) = n
            /\ [z EXCEPT !.state = "TX"].state = "TX"
            /\ Tftp!DataOf(s) = {[to |-> "rx", op |-> "DATA", block |-> n, data |-> n]}
<1> DEFINE z == Tftp!SendData(s)
           n == Len(s.at) + 1
           y == [z EXCEPT !.state = "TX"]
<1>1. /\ BlockNumbers \in Nat /\ Len(tftpFile) \in Nat /\ Len(tftpFile) < BlockNumbers
      /\ Len(s.at) \in Nat /\ n \in 1 .. Len(tftpFile)
      /\ TftpRetries \in Nat
  BY DEF FilesFit, Session
<1>2. s.ctr = n
  BY <1>1 DEF Counter
<1>3. (s.ctr + 1) % BlockNumbers = Counter(n)
  <2>1. n + 1 <= BlockNumbers /\ n + 1 \in Nat /\ 0 < BlockNumbers
    BY <1>1
  <2> HIDE DEF n
  <2>2. (n + 1) % BlockNumbers = IF n + 1 = BlockNumbers THEN 0 ELSE n + 1
    BY <1>1, <2>1, Remainder
  <2> QED
    BY <1>2, <2>2 DEF Counter
<1>4. /\ Append(s.at, Len(s.at) + 1) \in Seq(Nat) /\ Len(Append(s.at, Len(s.at) + 1)) = n
  BY <1>1 DEF Session
<1>5. tftpFile[n] # "full" => n = Len(tftpFile)
  BY <1>1 DEF FilesFit
<1>6. /\ DOMAIN z = DOMAIN s /\ z.ctr = Counter(n) /\ z.wall = TRUE /\ z.retry = s.retry
      /\ z.at = Append(s.at, Len(s.at) + 1)
      /\ z.state = IF tftpFile[n] = "full" THEN "TX" ELSE "WAIT_LAST_ACK"
  BY <1>3 DEF Tftp!SendData, Tftp!Schedule, Session
<1> HIDE DEF z
<1>7. /\ DOMAIN y = DOMAIN s /\ y.ctr = Counter(n) /\ y.wall = TRUE /\ y.retry = s.retry
      /\ y.at = z.at /\ y.state = "TX"
  BY <1>6 DEF Session
<1> HIDE DEF y
<1>8. Sender(z)
  BY <1>1, <1>4, <1>5, <1>6 DEF Sender, Session, Limited
<1>9. Sender(y)
  BY <1>1, <1>4, <1>6, <1>7 DEF Sender, Session, Limited
<1>10. Tftp!DataOf(s) = {[to |-> "rx", op |-> "DATA", block |-> n, data |-> n]}
  BY <1>2 DEF Tftp!DataOf
<1> QED
  BY <1>4, <1>6, <1>7, <1>8, <1>9, <1>10 DEF z, y

\* What the handlers that are no news make of a session.
LEMMA SessionFields ==
  ASSUME NEW s, Session(s)
  PROVE  LET r == Tftp!Received(s)
             f == Tftp!Finish(s)
             e == [Tftp!Finish(r) EXCEPT !.err = TRUE]
             g == Tftp!Finish(r)
         IN /\ Session(r) /\ r.at = s.at /\ r.ctr = s.ctr /\ r.retry = s.retry
            /\ r.state = s.state /\ r.err = s.err /\ r.wall = FALSE
            /\ Session(e) /\ e.at = s.at /\ e.ctr = s.ctr /\ e.retry = s.retry
            /\ e.state = "CLOSING" /\ e.err = TRUE
            /\ Session(g) /\ g.at = s.at /\ g.ctr = s.ctr /\ g.retry = s.retry
            /\ g.state = "CLOSING" /\ g.err = s.err
<1> USE DEF Session, Tftp!Received, Tftp!Finish
<1>1. LET r == Tftp!Received(s)
      IN /\ Session(r) /\ r.at = s.at /\ r.ctr = s.ctr /\ r.retry = s.retry
         /\ r.state = s.state /\ r.err = s.err /\ r.wall = FALSE
  OBVIOUS
<1>2. LET e == [Tftp!Finish(Tftp!Received(s)) EXCEPT !.err = TRUE]
      IN /\ Session(e) /\ e.at = s.at /\ e.ctr = s.ctr /\ e.retry = s.retry
         /\ e.state = "CLOSING" /\ e.err = TRUE
  OBVIOUS
<1>3. LET g == Tftp!Finish(Tftp!Received(s))
      IN /\ Session(g) /\ g.at = s.at /\ g.ctr = s.ctr /\ g.retry = s.retry
         /\ g.state = "CLOSING" /\ g.err = s.err
  OBVIOUS
<1> QED
  BY <1>1, <1>2, <1>3

\* A timeout ends a session, or counts towards that.
LEMMA SessionTimeout ==
  ASSUME FilesFit, NEW s, Session(s), Limited(s), s.wall
  PROVE  LET t == Tftp!Timeout(s)
         IN /\ Session(t) /\ Limited(t) /\ t.at = s.at /\ t.ctr = s.ctr
            /\ \/ t.state = s.state /\ s.state \notin {"NONE", "CLOSING", "GONE"}
               \/ t.state = "GONE" /\ s.state = "CLOSING" /\ t.err = s.err
               \/ t.state = "CLOSING" /\ s.state \notin {"NONE", "CLOSING", "GONE"} /\ t.err = TRUE
<1> DEFINE t == Tftp!Timeout(s)
<1>1. s.state \notin {"NONE", "GONE"} /\ TftpRetries \in Nat /\ s.retry \in 0 .. TftpRetries
  BY DEF Limited, FilesFit
<1>2. CASE s.state = "CLOSING"
  <2>1. t = [s EXCEPT !.state = "GONE", !.wall = FALSE]
    BY <1>2 DEF Tftp!Timeout
  <2> QED
    BY <1>1, <1>2, <2>1 DEF Session, Limited
<1>3. CASE s.state # "CLOSING"
  <2>1. s.retry + 1 \in 0 .. TftpRetries
    BY <1>1, <1>3 DEF Limited
  <2>2. CASE s.retry + 1 = TftpRetries
    <3>1. t = [Tftp!Finish(s) EXCEPT !.retry = @ + 1, !.err = TRUE]
      BY <1>3, <2>2 DEF Tftp!Timeout
    <3> QED
      BY <1>1, <1>3, <2>1, <3>1 DEF Session, Limited, Tftp!Finish
  <2>3. CASE s.retry + 1 # TftpRetries
    <3>1. t = [Tftp!Schedule(s) EXCEPT !.retry = @ + 1]
      BY <1>3, <2>3 DEF Tftp!Timeout
    <3> QED
      BY <1>1, <1>3, <2>1, <2>3, <3>1 DEF Session, Limited, Tftp!Schedule
  <2> QED
    BY <2>2, <2>3
<1> QED
  BY <1>2, <1>3

LEMMA TftpInitially ==
  ASSUME FilesFit, Tftp!Init
  PROVE  TftpInv
<1>1. /\ tx.state = "NONE" /\ tx.ctr = 0 /\ tx.retry = 0 /\ tx.wall = FALSE /\ tx.at = <<>>
      /\ DOMAIN tx = {"state", "ctr", "wall", "retry", "options", "err", "at"}
      /\ rx = tx /\ tftpNet = {} /\ tftpFile \in Files
  BY DEF Tftp!Init, Tftp!NoSession
<1>2. Session(tx) /\ Len(tx.at) = 0
  BY <1>1 DEF Session
<1>3. Limited(tx) /\ Len(tftpFile) \in Nat
  BY <1>1 DEF Limited, FilesFit
<1> QED
  BY <1>1, <1>2, <1>3 DEF TftpInv, Sender, Receiver, Under, Complete

\* The session that transmits: it stays, ends, or sends the next block of the file.
LEMMA TftpSends ==
  ASSUME FilesFit, TftpInv, UNCHANGED tftpFile, UNCHANGED rx,
         \/ Tftp!StartTx \/ Tftp!AcceptRead \/ Tftp!TxAck \/ Tftp!TxOack \/ Tftp!TxError
         \/ Tftp!TxTimeout
  PROVE  /\ Sender(tx') /\ Complete(tx', Len(rx.at))
         /\ \/ tx'.at = tx.at /\ (tftpNet' = tftpNet \/ \E m : /\ m.op \notin {"DATA", "ACK"}
                                                              /\ tftpNet' = tftpNet \cup {m})
            \/ /\ Len(tx'.at) = Len(tx.at) + 1 /\ Len(tx.at) <= Len(rx.at)
               /\ LET n == Len(tx.at) + 1
                  IN tftpNet' = tftpNet \cup {[to |-> "rx", op |-> "DATA", block |-> n, data |-> n]}
<1> DEFINE Quiet == /\ tx'.at = tx.at
                    /\ tftpNet' = tftpNet \/ \E m : /\ m.op \notin {"DATA", "ACK"}
                                                    /\ tftpNet' = tftpNet \cup {m}
           Next1 == /\ Len(tx'.at) = Len(tx.at) + 1 /\ Len(tx.at) <= Len(rx.at)
                    /\ LET n == Len(tx.at) + 1
                       IN tftpNet' = tftpNet \cup {[to |-> "rx", op |-> "DATA", block |-> n, data |-> n]}
           Goal == Sender(tx') /\ Complete(tx', Len(rx.at)) /\ (Quiet \/ Next1)
           l == Len(tx.at)
           r == Tftp!Received(tx)
           err == [Tftp!Finish(r) EXCEPT !.err = TRUE]
<1>0. /\ tftpFile \in Files /\ Sender(tx) /\ Session(tx) /\ Limited(tx) /\ Complete(tx, Len(rx.at))
      /\ Under(tftpNet, l, Len(rx.at)) /\ l \in Nat /\ l <= Len(rx.at) + 1
      /\ Len(rx.at) <= l /\ Len(rx.at) \in Nat /\ l <= Len(tftpFile)
      /\ tx.retry \in 0 .. TftpRetries /\ tftpFile' = tftpFile
  BY DEF TftpInv, Sender, Session, Receiver, Limited
<1>1. Len(tftpFile) \in 1 .. BlockNumbers - 1 /\ BlockNumbers \in Nat /\ TftpRetries \in Nat \ {0}
  BY <1>0 DEF FilesFit
<1>2. ASSUME NEW s, Session(s), Limited(s), s.at = tx.at, s.ctr = tx.ctr,
             \/ s.state = tx.state /\ s.err = tx.err
             \/ s.state = "CLOSING" /\ tx.state # "NONE" /\ (s.err \/ Len(rx.at) = Len(tftpFile))
      PROVE  Sender(s) /\ Complete(s, Len(rx.at))
  BY <1>0, <1>2 DEF Sender, Complete
<1>3. ASSUME tx' = err, tx.state # "NONE"
      PROVE  Sender(tx') /\ Complete(tx', Len(rx.at)) /\ tx'.at = tx.at
  <2>1. /\ Session(err) /\ err.at = tx.at /\ err.ctr = tx.ctr /\ err.retry = tx.retry
        /\ err.state = "CLOSING" /\ err.err = TRUE
    BY <1>0, SessionFields
  <2> HIDE DEF err
  <2>2. Limited(err)
    BY <1>0, <1>1, <2>1 DEF Limited
  <2> QED
    BY <1>2, <1>3, <2>1, <2>2
<1>4. ASSUME NEW op, op \notin {"DATA", "ACK"}, NEW to, Tftp!Cast({Tftp!Msg(to, op, 0)})
      PROVE  \E m : m.op \notin {"DATA", "ACK"} /\ tftpNet' = tftpNet \cup {m}
  <2>1. Tftp!Msg(to, op, 0).op = op
    BY DEF Tftp!Msg
  <2>2. tftpNet' = tftpNet \cup {Tftp!Msg(to, op, 0)}
    BY <1>4 DEF Tftp!Cast
  <2> QED
    BY <1>4, <2>1, <2>2
\* A callback of which the next block can be sent.
<1>5. ASSUME NEW s, Session(s), s.at = tx.at, s.retry \in Nat, s.retry < TftpRetries,
             s.ctr = Counter(l), l <= Len(rx.at), l < Len(tftpFile),
             \/ tx' = Tftp!SendData(s) \/ tx' = [Tftp!SendData(s) EXCEPT !.state = "TX"],
             Tftp!Cast(Tftp!DataOf(s))
      PROVE  Goal
  <2> DEFINE z == Tftp!SendData(s)
             y == [z EXCEPT !.state = "TX"]
  <2>1. /\ Sender(z) /\ Len(z.at) = l + 1 /\ z.state \in {"TX", "WAIT_LAST_ACK"}
        /\ Sender(y) /\ Len(y.at) = l + 1 /\ y.state = "TX"
        /\ Tftp!DataOf(s) = {[to |-> "rx", op |-> "DATA", block |-> l + 1, data |-> l + 1]}
    BY <1>0, <1>5, SendsNext
  <2>2. tftpNet' = tftpNet \cup {[to |-> "rx", op |-> "DATA", block |-> l + 1, data |-> l + 1]}
    BY <1>5, <2>1 DEF Tftp!Cast
  <2> HIDE DEF z, y
  <2>3. tx' \in {z, y}
    BY <1>5 DEF y, z
  <2> QED
    BY <1>0, <1>5, <2>1, <2>2, <2>3 DEF Complete
<1>6. ASSUME Tftp!TxAck
      PROVE  Goal
  <2>1. PICK m \in tftpNet :
          /\ m.to = "tx" /\ m.op = "ACK" /\ Tftp!Open(tx)
          /\ CASE tx.state \in {"WRITE_REQUESTED", "WAIT_OPT_CONFIRM"} ->
                    IF m.block = 0 THEN Tftp!Callback(r)
                    ELSE tx' = err /\ Tftp!Cast({Tftp!Msg("rx", "ERROR", 0)})
               [] tx.state \in {"TX", "WAIT_LAST_ACK"} /\ ~Tftp!RightBlock(tx, m.block) ->
                    tx' = err /\ Tftp!Cast({Tftp!Msg("rx", "ERROR", 0)})
               [] tx.state = "TX" /\ Tftp!RightBlock(tx, m.block) -> Tftp!Callback(r)
               [] tx.state = "WAIT_LAST_ACK" /\ Tftp!RightBlock(tx, m.block) ->
                    tx' = Tftp!Finish(r) /\ UNCHANGED tftpNet
    BY <1>6 DEF Tftp!TxAck
  <2>2. m.block \in 0 .. Len(rx.at) /\ tx.state \notin {"NONE", "CLOSING", "GONE"}
    BY <1>0, <2>1 DEF Under, Tftp!Open
  <2>3. /\ Session(r) /\ r.at = tx.at /\ r.ctr = tx.ctr /\ r.retry = tx.retry
        /\ r.state = tx.state /\ r.err = tx.err /\ r.wall = FALSE
    BY <1>0, SessionFields
  <2>4. tx.ctr = Counter(l) /\ tx.retry < TftpRetries /\ tx.retry \in Nat
    BY <1>0, <1>1, <2>2 DEF Sender, Limited
  <2>5. Tftp!RightBlock(tx, m.block) => m.block = l
    BY <1>0, <1>1, <2>2, <2>4 DEF Tftp!RightBlock, Counter
  <2>6. CASE tx' = err /\ Tftp!Cast({Tftp!Msg("rx", "ERROR", 0)})
    <3>1. \E e : e.op \notin {"DATA", "ACK"} /\ tftpNet' = tftpNet \cup {e}
      BY <1>4, <2>6
    <3> HIDE DEF err
    <3>2. Sender(tx') /\ Complete(tx', Len(rx.at)) /\ tx'.at = tx.at
      BY <1>3, <2>2, <2>6
    <3> QED
      BY <3>1, <3>2
  <2>7. ASSUME Tftp!Callback(r), l <= Len(rx.at)
        PROVE  Goal
    <3>1. CASE l < Len(tftpFile)
      <4>1. tx' = Tftp!SendData(r) /\ Tftp!Cast(Tftp!DataOf(r))
        BY <2>3, <2>7, <3>1 DEF Tftp!Callback, Tftp!Blocks
      <4> HIDE DEF r, Goal
      <4> QED
        BY <1>5, <2>3, <2>4, <2>7, <3>1, <4>1
    <3>2. CASE ~(l < Len(tftpFile))
      <4>1. tx' = r /\ tftpNet' = tftpNet
        BY <2>3, <2>7, <3>2 DEF Tftp!Callback, Tftp!Blocks
      <4> HIDE DEF r
      <4>2. Limited(r)
        BY <1>0, <2>2, <2>3 DEF Limited
      <4>3. Sender(r) /\ Complete(r, Len(rx.at))
        BY <1>2, <2>3, <4>2
      <4> QED
        BY <2>3, <4>1, <4>3
    <3> QED
      BY <3>1, <3>2
  <2>8. CASE tx.state = "WAIT_LAST_ACK" /\ Tftp!RightBlock(tx, m.block)
             /\ tx' = Tftp!Finish(r) /\ UNCHANGED tftpNet
    <3> DEFINE g == Tftp!Finish(r)
    <3>1. /\ Session(g) /\ g.at = tx.at /\ g.ctr = tx.ctr /\ g.retry = tx.retry
          /\ g.state = "CLOSING" /\ g.err = tx.err
      BY <1>0, SessionFields
    <3> HIDE DEF g
    <3>2. Limited(g)
      BY <1>0, <3>1 DEF Limited
    <3>3. Len(rx.at) = Len(tftpFile)
      BY <1>0, <2>2, <2>5, <2>8 DEF Sender
    <3>4. Sender(g) /\ Complete(g, Len(rx.at))
      BY <1>2, <2>2, <3>1, <3>2, <3>3
    <3>5. tx' = g /\ tftpNet' = tftpNet
      BY <2>8 DEF g
    <3> QED
      BY <3>1, <3>4, <3>5
  <2>9. tx.state \in {"WRITE_REQUESTED", "WAIT_OPT_CONFIRM"} => l <= Len(rx.at)
    BY <1>0 DEF Sender
  <2>10. tx.state \in {"WRITE_REQUESTED", "WAIT_OPT_CONFIRM", "TX", "WAIT_LAST_ACK"}
    BY <1>0, <2>2 DEF Sender
  <2> HIDE DEF Goal, r, err, l
  <2>11. CASE tx.state \in {"WRITE_REQUESTED", "WAIT_OPT_CONFIRM"}
    BY <2>1, <2>6, <2>7, <2>9, <2>11
  <2>12. CASE tx.state \in {"TX", "WAIT_LAST_ACK"} /\ ~Tftp!RightBlock(tx, m.block)
    BY <2>1, <2>6, <2>12
  <2>13. CASE tx.state = "TX" /\ Tftp!RightBlock(tx, m.block)
    BY <2>1, <2>2, <2>5, <2>7, <2>13
  <2>14. CASE tx.state = "WAIT_LAST_ACK" /\ Tftp!RightBlock(tx, m.block)
    BY <2>1, <2>8, <2>14
  <2> QED
    BY <2>10, <2>11, <2>12, <2>13, <2>14
<1>7. ASSUME Tftp!TxOack
      PROVE  Goal
  <2>1. /\ Tftp!Open(tx)
        /\ IF tx.state = "WRITE_REQUESTED"
           THEN tx' = [Tftp!SendData(r) EXCEPT !.state = "TX"] /\ Tftp!Cast(Tftp!DataOf(r))
           ELSE tx' = err /\ Tftp!Cast({Tftp!Msg("rx", "ERROR", 0)})
    BY <1>7 DEF Tftp!TxOack
  <2>2. tx.state \notin {"NONE", "CLOSING", "GONE"}
    BY <2>1 DEF Tftp!Open
  <2>3. CASE tx.state = "WRITE_REQUESTED"
    <3>1. /\ Session(r) /\ r.at = tx.at /\ r.ctr = tx.ctr /\ r.retry = tx.retry
      BY <1>0, SessionFields
    <3>2. tx.ctr = Counter(l) /\ tx.retry < TftpRetries /\ tx.retry \in Nat /\ l = 0
      BY <1>0, <1>1, <2>3 DEF Sender, Limited
    <3>3. l <= Len(rx.at) /\ l < Len(tftpFile)
      BY <1>0, <1>1, <3>2
    <3> HIDE DEF r, Goal, l
    <3> QED
      BY <1>5, <2>1, <2>3, <3>1, <3>2, <3>3 DEF l
  <2>4. CASE tx.state # "WRITE_REQUESTED"
    <3>1. \E e : e.op \notin {"DATA", "ACK"} /\ tftpNet' = tftpNet \cup {e}
      BY <1>4, <2>1, <2>4
    <3> HIDE DEF err, r
    <3>2. Sender(tx') /\ Complete(tx', Len(rx.at)) /\ tx'.at = tx.at
      BY <1>3, <2>1, <2>2, <2>4
    <3> QED
      BY <3>1, <3>2
  <2> QED
    BY <2>3, <2>4
<1>8. ASSUME Tftp!TxError
      PROVE  Goal
  <2>1. tx' = err /\ tftpNet' = tftpNet /\ tx.state # "NONE"
    BY <1>8 DEF Tftp!TxError, Tftp!Open
  <2> QED
    BY <1>3, <2>1
<1>9. ASSUME Tftp!TxTimeout
      PROVE  Goal
  <2> DEFINE t == Tftp!Timeout(tx)
  <2>1. /\ Session(t) /\ Limited(t) /\ t.at = tx.at /\ t.ctr = tx.ctr
        /\ \/ t.state = tx.state /\ tx.state \notin {"NONE", "CLOSING", "GONE"}
           \/ t.state = "GONE" /\ tx.state = "CLOSING" /\ t.err = tx.err
           \/ t.state = "CLOSING" /\ tx.state \notin {"NONE", "CLOSING", "GONE"} /\ t.err = TRUE
    BY <1>0, <1>9, SessionTimeout DEF Tftp!TxTimeout
  <2>2. tx' = t /\ tftpNet' = tftpNet
    BY <1>9 DEF Tftp!TxTimeout
  <2> HIDE DEF t
  <2>3. Sender(t)
    BY <1>0, <2>1 DEF Sender
  <2>4. Complete(t, Len(rx.at))
    BY <1>0, <2>1 DEF Complete
  <2> QED
    BY <2>1, <2>2, <2>3, <2>4
<1>10. ASSUME Tftp!StartTx
       PROVE  Goal
  <2>1. PICK o \in BOOLEAN : tx' = Tftp!Schedule([tx EXCEPT !.ctr = 1, !.options = o,
                                                            !.state = "WRITE_REQUESTED"])
    BY <1>10 DEF Tftp!StartTx
  <2>2. tx.state = "NONE" /\ tftpNet' = tftpNet \cup {Tftp!Msg("rx", "WRQ", 0)}
    BY <1>10 DEF Tftp!StartTx, Tftp!Cast
  <2>3. /\ Session(tx') /\ tx'.at = tx.at /\ tx'.ctr = 1 /\ tx'.state = "WRITE_REQUESTED"
        /\ tx'.retry = tx.retry
    BY <1>0, <2>1 DEF Session, Tftp!Schedule
  <2>4. Sender(tx') /\ Complete(tx', Len(rx.at))
    BY <1>0, <1>1, <2>2, <2>3 DEF Sender, Limited, Counter, Complete
  <2>5. \E m : m.op \notin {"DATA", "ACK"} /\ tftpNet' = tftpNet \cup {m}
    BY <1>4, <1>10 DEF Tftp!StartTx
  <2> QED
    BY <2>3, <2>4, <2>5
<1>11. ASSUME Tftp!AcceptRead
       PROVE  Goal
  <2> DEFINE s == [tx EXCEPT !.ctr = 1]
  <2>1. tx.state = "NONE" /\ l = 0
    BY <1>0, <1>11 DEF Tftp!AcceptRead, Sender
  <2>2. CASE tx' = [tx EXCEPT !.ctr = 1, !.options = TRUE, !.state = "WAIT_OPT_CONFIRM"]
             /\ Tftp!Cast({Tftp!Msg("rx", "OACK", 0)})
    <3>1. /\ Session(tx') /\ tx'.at = tx.at /\ tx'.ctr = 1 /\ tx'.state = "WAIT_OPT_CONFIRM"
          /\ tx'.retry = tx.retry
      BY <1>0, <2>2 DEF Session
    <3>2. Sender(tx') /\ Complete(tx', Len(rx.at))
      BY <1>0, <1>1, <2>1, <3>1 DEF Sender, Limited, Counter, Complete
    <3>3. \E m : m.op \notin {"DATA", "ACK"} /\ tftpNet' = tftpNet \cup {m}
      BY <1>4, <2>2
    <3> QED
      BY <3>1, <3>2, <3>3
  <2>3. CASE Tftp!Callback(s)
    <3>1. /\ Session(s) /\ s.at = tx.at /\ s.ctr = 1 /\ s.retry = tx.retry
      BY <1>0 DEF Session
    <3>2. 1 = Counter(l) /\ l < Len(tftpFile) /\ l <= Len(rx.at)
          /\ tx.retry < TftpRetries /\ tx.retry \in Nat
      BY <1>0, <1>1, <2>1 DEF Counter, Limited
    <3> HIDE DEF s, l
    <3>3. tx' = Tftp!SendData(s) /\ Tftp!Cast(Tftp!DataOf(s))
      BY <2>3, <3>1, <3>2 DEF Tftp!Callback, Tftp!Blocks, l
    <3> HIDE DEF Goal
    <3> QED
      BY <1>5, <3>1, <3>2, <3>3 DEF l
  <2> QED
    BY <1>11, <2>2, <2>3 DEF Tftp!AcceptRead
<1>12. Goal
  BY <1>6, <1>7, <1>8, <1>9, <1>10, <1>11
<1> QED
  BY <1>12

\* The session that receives: it stays, ends, or is given the next block of the file.
LEMMA TftpReceives ==
  ASSUME FilesFit, TftpInv, UNCHANGED tftpFile, UNCHANGED tx,
         \/ Tftp!StartRx \/ Tftp!AcceptWrite \/ Tftp!RxData \/ Tftp!RxOack \/ Tftp!RxError
         \/ Tftp!RxTimeout
  PROVE  /\ Receiver(rx')
         /\ \/ Len(rx'.at) = Len(rx.at)
            \/ Len(rx'.at) = Len(rx.at) + 1 /\ Len(rx'.at) <= Len(tx.at)
         /\ \/ tftpNet' = tftpNet
            \/ \E m : /\ m.op # "DATA" /\ (m.op = "ACK" => m.block \in 0 .. Len(rx'.at))
                      /\ tftpNet' = tftpNet \cup {m}
<1> DEFINE l == Len(rx.at)
           r == Tftp!Received(rx)
           err == [Tftp!Finish(r) EXCEPT !.err = TRUE]
           Heard == \/ tftpNet' = tftpNet
                    \/ \E m : /\ m.op # "DATA" /\ (m.op = "ACK" => m.block \in 0 .. Len(rx'.at))
                              /\ tftpNet' = tftpNet \cup {m}
           Goal == /\ Receiver(rx')
                   /\ \/ Len(rx'.at) = Len(rx.at)
                      \/ Len(rx'.at) = Len(rx.at) + 1 /\ Len(rx'.at) <= Len(tx.at)
                   /\ Heard
<1>0. /\ Receiver(rx) /\ Session(rx) /\ Limited(rx) /\ l \in Nat /\ Len(tx.at) \in Nat
      /\ l <= Len(tx.at) /\ Under(tftpNet, Len(tx.at), l) /\ TftpRetries \in Nat \ {0}
      /\ rx.retry \in 0 .. TftpRetries /\ rx.ctr = l /\ rx.at \in Seq(Nat)
      /\ Len(tx.at) <= Len(tftpFile) /\ tftpFile \in Files
  BY DEF TftpInv, Receiver, Sender, Session, Limited, FilesFit
<1>1. Len(tftpFile) \in 1 .. BlockNumbers - 1 /\ BlockNumbers \in Nat
  BY <1>0 DEF FilesFit
<1>2. ASSUME NEW s, Session(s), Limited(s), s.at = rx.at, s.ctr = rx.ctr,
             s.state \in {"NONE", "READ_REQUESTED", "RX", "CLOSING", "GONE"}
      PROVE  Receiver(s) /\ Len(s.at) = l
  BY <1>0, <1>2 DEF Receiver
<1>3. ASSUME NEW op \in {"RRQ", "OACK", "ACK", "ERROR"}, NEW to, NEW b, b = 0 \/ op # "ACK",
             Tftp!Cast({Tftp!Msg(to, op, b)}), Len(rx'.at) \in Nat
      PROVE  Heard
  <2>1. Tftp!Msg(to, op, b).op = op /\ Tftp!Msg(to, op, b).block = b
    BY DEF Tftp!Msg
  <2>2. tftpNet' = tftpNet \cup {Tftp!Msg(to, op, b)}
    BY <1>3 DEF Tftp!Cast
  <2> QED
    BY <1>3, <2>1, <2>2
<1>4. /\ Session(err) /\ err.at = rx.at /\ err.ctr = rx.ctr /\ err.retry = rx.retry
      /\ err.state = "CLOSING"
      /\ Session(r) /\ r.at = rx.at /\ r.ctr = rx.ctr /\ r.retry = rx.retry
      /\ r.state = rx.state /\ r.wall = FALSE
  BY <1>0, SessionFields
<1>5. Receiver(err) /\ Len(err.at) = l
  <2> HIDE DEF err, r
  <2>1. Limited(err)
    BY <1>0, <1>4 DEF Limited
  <2> QED
    BY <1>2, <1>4, <2>1
<1> HIDE DEF err, r
<1>6. ASSUME Tftp!RxError
      PROVE  Goal
  <2>1. rx' = err /\ tftpNet' = tftpNet
    BY <1>6 DEF Tftp!RxError, err, r
  <2> QED
    BY <1>5, <2>1
<1>7. ASSUME Tftp!RxTimeout
      PROVE  Goal
  <2> DEFINE t == Tftp!Timeout(rx)
  <2>1. /\ Session(t) /\ Limited(t) /\ t.at = rx.at /\ t.ctr = rx.ctr
        /\ t.state \in {rx.state, "GONE", "CLOSING"}
    BY <1>0, <1>7, SessionTimeout DEF Tftp!RxTimeout
  <2>2. rx' = t /\ tftpNet' = tftpNet
    BY <1>7 DEF Tftp!RxTimeout
  <2> HIDE DEF t
  <2>3. t.state \in {"NONE", "READ_REQUESTED", "RX", "CLOSING", "GONE"}
    BY <1>0, <2>1 DEF Receiver
  <2>4. Receiver(t) /\ Len(t.at) = l
    BY <1>2, <2>1, <2>3
  <2> QED
    BY <2>2, <2>4
<1>8. ASSUME Tftp!RxOack
      PROVE  Goal
  <2>1. \/ /\ rx.state = "READ_REQUESTED" /\ rx' = [Tftp!Schedule(r) EXCEPT !.state = "RX"]
           /\ Tftp!Cast({Tftp!Msg("tx", "ACK", 0)})
        \/ rx' = err /\ Tftp!Cast({Tftp!Msg("tx", "ERROR", 0)})
    BY <1>8 DEF Tftp!RxOack, err, r
  <2> DEFINE s == [Tftp!Schedule(r) EXCEPT !.state = "RX"]
  <2>2. /\ Session(s) /\ s.at = rx.at /\ s.ctr = rx.ctr /\ s.retry = rx.retry /\ s.state = "RX"
    BY <1>4 DEF Session, Tftp!Schedule
  <2> HIDE DEF s
  <2>3. rx.state = "READ_REQUESTED" => Limited(s)
    BY <1>0, <2>2 DEF Limited
  <2>4. rx.state = "READ_REQUESTED" => Receiver(s) /\ Len(s.at) = l
    BY <1>2, <2>2, <2>3
  <2>5. Receiver(rx') /\ Len(rx'.at) = l
    BY <1>5, <2>1, <2>4 DEF s
  <2>6. Heard
    BY <1>0, <1>3, <2>1, <2>5
  <2> QED
    BY <2>5, <2>6
<1>9. ASSUME Tftp!StartRx
      PROVE  Goal
  <2>1. PICK o \in BOOLEAN : rx' = Tftp!Schedule([rx EXCEPT !.options = o,
                                                            !.state = "READ_REQUESTED"])
    BY <1>9 DEF Tftp!StartRx
  <2>2. /\ Session(rx') /\ rx'.at = rx.at /\ rx'.ctr = rx.ctr /\ rx'.retry = rx.retry
        /\ rx'.state = "READ_REQUESTED" /\ rx.state = "NONE"
    BY <1>0, <1>9, <2>1 DEF Session, Tftp!Schedule, Tftp!StartRx
  <2>3. Limited(rx')
    BY <1>0, <2>2 DEF Limited
  <2>4. Receiver(rx') /\ Len(rx'.at) = l
    BY <1>2, <2>2, <2>3
  <2>5. Heard
    BY <1>0, <1>3, <1>9, <2>4 DEF Tftp!StartRx
  <2> QED
    BY <2>4, <2>5
<1>10. ASSUME Tftp!AcceptWrite
       PROVE  Goal
  <2>1. rx.state = "NONE"
    BY <1>10 DEF Tftp!AcceptWrite
  <2>2. \/ /\ rx' = [rx EXCEPT !.options = TRUE, !.state = "RX"]
           /\ Tftp!Cast({Tftp!Msg("tx", "OACK", 0)})
        \/ /\ rx' = Tftp!Schedule([rx EXCEPT !.state = "RX"])
           /\ Tftp!Cast({Tftp!Msg("tx", "ACK", 0)})
    BY <1>10 DEF Tftp!AcceptWrite
  <2>3. /\ Session(rx') /\ rx'.at = rx.at /\ rx'.ctr = rx.ctr /\ rx'.retry = rx.retry
        /\ rx'.state = "RX"
    BY <1>0, <2>2 DEF Session, Tftp!Schedule
  <2>4. Limited(rx')
    BY <1>0, <2>1, <2>3 DEF Limited
  <2>5. Receiver(rx') /\ Len(rx'.at) = l
    BY <1>2, <2>3, <2>4
  <2>6. Heard
    BY <1>0, <1>3, <2>2, <2>5
  <2> QED
    BY <2>5, <2>6
<1>11. ASSUME Tftp!RxData
       PROVE  Goal
  <2> DEFINE s == [r EXCEPT !.state = "RX"]
  <2>1. PICK m \in tftpNet :
          /\ m.to = "rx" /\ m.op = "DATA" /\ Tftp!Open(rx)
          /\ IF Tftp!IsNext(rx, m.block)
             THEN /\ rx' = Tftp!EvalFinish(Tftp!Schedule([s EXCEPT !.ctr = m.block % BlockNumbers,
                                                                   !.at = Append(@, m.data)]),
                                           tftpFile[m.data])
                  /\ Tftp!Cast({Tftp!Msg("tx", "ACK", m.block)})
             ELSE IF m.block > rx.ctr + 1
             THEN /\ rx' = [Tftp!Finish(s) EXCEPT !.err = TRUE]
                  /\ Tftp!Cast({Tftp!Msg("tx", "ERROR", 0)})
             ELSE rx' = s /\ UNCHANGED tftpNet
    BY <1>11 DEF Tftp!RxData, r
  <2>2. m.block \in 1 .. Len(tx.at) /\ m.data = m.block /\ rx.state \notin {"NONE", "CLOSING", "GONE"}
    BY <1>0, <2>1 DEF Under, Tftp!Open
  <2>3. /\ Session(s) /\ s.at = rx.at /\ s.ctr = rx.ctr /\ s.retry = rx.retry /\ s.state = "RX"
        /\ rx.retry < TftpRetries
    BY <1>0, <1>4, <2>2 DEF Session, Limited
  <2> HIDE DEF s
  <2>4. CASE Tftp!IsNext(rx, m.block)
    <3> DEFINE w == Tftp!Schedule([s EXCEPT !.ctr = m.block % BlockNumbers, !.at = Append(@, m.data)])
               z == Tftp!EvalFinish(w, tftpFile[m.data])
    <3>1. m.block = l + 1 /\ m.data = l + 1 /\ m.block % BlockNumbers = l + 1
      <4>1. m.block = l + 1 /\ m.block \in Nat /\ m.block < BlockNumbers /\ 0 < BlockNumbers
        BY <1>0, <1>1, <2>2, <2>4 DEF Tftp!IsNext
      <4>2. m.block % BlockNumbers = m.block
        BY <1>1, <4>1, RemainderBelow, Zenon
      <4> QED
        BY <2>2, <4>1, <4>2
    <3>2. /\ DOMAIN w = DOMAIN s /\ w.ctr = l + 1 /\ w.at = Append(rx.at, l + 1) /\ w.retry = rx.retry
          /\ w.state = "RX"
      BY <2>3, <3>1 DEF Session, Tftp!Schedule
    <3> HIDE DEF w
    <3>3. /\ DOMAIN z = DOMAIN s /\ z.ctr = l + 1 /\ z.at = Append(rx.at, l + 1)
          /\ z.retry = rx.retry /\ z.state \in {"RX", "CLOSING"}
      BY <2>3, <3>2 DEF Session, Tftp!EvalFinish
    <3> HIDE DEF z
    <3>4. /\ z.at \in Seq(Nat) /\ Len(z.at) = l + 1 /\ \A i \in 1 .. l + 1 : z.at[i] = i
      BY <1>0, <3>3 DEF Receiver
    <3>5. Receiver(z)
      <4>1. Session(z) /\ Limited(z)
        BY <1>0, <2>3, <3>3, <3>4 DEF Session, Limited
      <4> QED
        BY <3>3, <3>4, <4>1 DEF Receiver
    <3>6. rx' = z /\ Tftp!Cast({Tftp!Msg("tx", "ACK", m.block)})
      BY <2>1, <2>4 DEF z, w
    <3>7. Heard
      <4>1. Tftp!Msg("tx", "ACK", m.block).op = "ACK" /\ Tftp!Msg("tx", "ACK", m.block).block = l + 1
        BY <3>1 DEF Tftp!Msg
      <4>2. tftpNet' = tftpNet \cup {Tftp!Msg("tx", "ACK", m.block)} /\ l + 1 \in 0 .. Len(rx'.at)
        BY <1>0, <3>4, <3>6 DEF Tftp!Cast
      <4> QED
        BY <4>1, <4>2
    <3>8. l + 1 <= Len(tx.at)
      BY <2>2, <3>1
    <3> QED
      BY <3>4, <3>5, <3>6, <3>7, <3>8
  <2>5. CASE rx' = s /\ UNCHANGED tftpNet
    <3>1. Limited(s)
      BY <1>0, <2>3 DEF Limited
    <3>2. Receiver(s) /\ Len(s.at) = l
      BY <1>2, <2>3, <3>1
    <3> QED
      BY <2>5, <3>2
  <2>6. CASE rx' = [Tftp!Finish(s) EXCEPT !.err = TRUE] /\ Tftp!Cast({Tftp!Msg("tx", "ERROR", 0)})
    <3>1. /\ Session(rx') /\ rx'.at = rx.at /\ rx'.ctr = rx.ctr /\ rx'.retry = rx.retry
          /\ rx'.state = "CLOSING"
      BY <2>3, <2>6 DEF Session, Tftp!Finish
    <3>2. Limited(rx')
      BY <1>0, <3>1 DEF Limited
    <3>3. Receiver(rx') /\ Len(rx'.at) = l
      BY <1>2, <3>1, <3>2
    <3>4. Heard
      BY <1>0, <1>3, <2>6, <3>3
    <3> QED
      BY <3>3, <3>4
  <2> HIDE DEF Goal
  <2> QED
    BY <2>1, <2>4, <2>5, <2>6
<1>12. Goal
  BY <1>6, <1>7, <1>8, <1>9, <1>10, <1>11
<1> QED
  BY <1>12

\* Every step of TftpTransfer keeps it.
LEMMA TftpStep ==
  ASSUME FilesFit, TftpInv, Tftp!Next \/ UNCHANGED Tftp!vars
  PROVE  TftpInv'
<1> DEFINE sent == Len(tx.at)
           got == Len(rx.at)
<1>0. /\ sent \in Nat /\ got \in Nat /\ Len(tftpFile) \in Nat
  BY DEF TftpInv, Sender, Receiver, Session, FilesFit
<1>1. tftpFile' = tftpFile
  BY DEF Tftp!Next, Tftp!vars
<1>2. CASE \/ Tftp!StartTx \/ Tftp!AcceptRead \/ Tftp!TxAck \/ Tftp!TxOack \/ Tftp!TxError
           \/ Tftp!TxTimeout
  <2>1. rx' = rx
    BY <1>2 DEF Tftp!StartTx, Tftp!AcceptRead, Tftp!TxAck, Tftp!TxOack, Tftp!TxError,
                Tftp!TxTimeout
  <2>2. /\ Sender(tx') /\ Complete(tx', got)
        /\ \/ tx'.at = tx.at /\ (tftpNet' = tftpNet \/ \E m : /\ m.op \notin {"DATA", "ACK"}
                                                             /\ tftpNet' = tftpNet \cup {m})
           \/ /\ Len(tx'.at) = sent + 1 /\ sent <= got
              /\ LET n == sent + 1
                 IN tftpNet' = tftpNet \cup {[to |-> "rx", op |-> "DATA", block |-> n, data |-> n]}
    BY <1>1, <1>2, <2>1, TftpSends
  <2>3. Len(tx'.at) \in {sent, sent + 1} /\ Len(tx'.at) <= got + 1 /\ got <= Len(tx'.at)
    BY <1>0, <2>2 DEF TftpInv
  <2>4. Under(tftpNet', Len(tx'.at), got)
    <3>1. Under(tftpNet, Len(tx'.at), got)
      BY <1>0, <2>3 DEF TftpInv, Under
    <3>2. ASSUME NEW m, m.op \notin {"DATA", "ACK"}, tftpNet' = tftpNet \cup {m}
          PROVE  Under(tftpNet', Len(tx'.at), got)
      BY <3>1, <3>2 DEF Under
    <3>3. ASSUME Len(tx'.at) = sent + 1,
                 LET n == sent + 1
                 IN tftpNet' = tftpNet \cup {[to |-> "rx", op |-> "DATA", block |-> n, data |-> n]}
          PROVE  Under(tftpNet', Len(tx'.at), got)
      BY <1>0, <3>1, <3>3 DEF Under
    <3> QED
      BY <2>2, <3>1, <3>2, <3>3
  <2>5. Receiver(rx)' /\ Sender(tx)'
    BY <1>1, <2>1, <2>2 DEF TftpInv, Sender, Receiver, Session, Limited
  <2> QED
    BY <1>1, <2>1, <2>2, <2>3, <2>4, <2>5 DEF TftpInv, Under, Complete
<1>3. CASE \/ Tftp!StartRx \/ Tftp!AcceptWrite \/ Tftp!RxData \/ Tftp!RxOack \/ Tftp!RxError
           \/ Tftp!RxTimeout
  <2>1. tx' = tx
    BY <1>3 DEF Tftp!StartRx, Tftp!AcceptWrite, Tftp!RxData, Tftp!RxOack, Tftp!RxError,
                Tftp!RxTimeout
  <2>2. /\ Receiver(rx')
        /\ \/ Len(rx'.at) = got
           \/ Len(rx'.at) = got + 1 /\ Len(rx'.at) <= sent
        /\ \/ tftpNet' = tftpNet
           \/ \E m : /\ m.op # "DATA" /\ (m.op = "ACK" => m.block \in 0 .. Len(rx'.at))
                     /\ tftpNet' = tftpNet \cup {m}
    BY <1>1, <1>3, <2>1, TftpReceives
  <2>3. got <= Len(rx'.at) /\ Len(rx'.at) <= sent /\ Len(rx'.at) \in Nat
        /\ sent <= Len(rx'.at) + 1
    BY <1>0, <2>2 DEF TftpInv
  <2>4. Under(tftpNet', sent, Len(rx'.at))
    <3>1. Under(tftpNet, sent, Len(rx'.at))
      BY <1>0, <2>3 DEF TftpInv, Under
    <3> QED
      BY <2>2, <3>1 DEF Under
  <2>5. Complete(tx, Len(rx'.at))
    BY <1>0, <2>3 DEF TftpInv, Complete, Sender
  <2>6. Receiver(rx)' /\ Sender(tx)'
    BY <1>1, <2>1, <2>2 DEF TftpInv, Sender, Receiver, Session, Limited
  <2> QED
    BY <1>1, <2>1, <2>3, <2>4, <2>5, <2>6 DEF TftpInv, Under, Complete
<1>4. CASE UNCHANGED Tftp!vars
  BY <1>4 DEF Tftp!vars, TftpInv, Sender, Receiver, Session, Limited, Under, Complete
<1> QED
  BY <1>2, <1>3, <1>4 DEF Tftp!Next

\* What it means: the file comes whole and in order, and a session gives up in time.
LEMMA TftpMeans ==
  ASSUME FilesFit, TftpInv
  PROVE  /\ Tftp!TypeOK /\ Tftp!FileInOrder /\ Tftp!DoneMeansDelivered /\ Tftp!OneBlockInFlight
<1>1. /\ BlockNumbers \in Nat /\ Len(tftpFile) \in 1 .. BlockNumbers - 1
      /\ Len(tx.at) \in Nat /\ Len(rx.at) \in Nat /\ rx.at \in Seq(Nat)
  BY DEF FilesFit, TftpInv, Sender, Receiver, Session
<1>2. Tftp!TypeOK
  <2>1. tx.ctr \in 0 .. BlockNumbers - 1 /\ rx.ctr \in 0 .. BlockNumbers - 1
    BY <1>1 DEF TftpInv, Sender, Receiver, Counter
  <2> QED
    BY <2>1 DEF TftpInv, Sender, Receiver, Limited, Tftp!TypeOK, Tftp!Blocks
<1>3. Tftp!FileInOrder
  BY <1>1 DEF TftpInv, Receiver, Tftp!FileInOrder
<1>4. Tftp!DoneMeansDelivered /\ Tftp!OneBlockInFlight
  BY DEF TftpInv, Complete, Tftp!DoneMeansDelivered, Tftp!OneBlockInFlight, Tftp!Blocks
<1> QED
  BY <1>2, <1>3, <1>4

-----------------------------------------------------------------------------
(* Ipv6Dad: who has asked for an address                                   *)

\* An address is asked for before it is used.
Detecting == DadRetrans \in Nat \ {0}

States6 == [state : {"none", "tentative", "valid"}, left : 0 .. DadRetrans, armed : BOOLEAN]
Hosted == [DadHosts -> [LinkLocals \cup UserAdded -> States6]]
Asked(s) == s.state = "valid" \/ (s.state = "tentative" /\ s.left < DadRetrans)
Mail(kind, h, g, a) == [kind |-> kind, target |-> a, from |-> h, to |-> g]
Solicited(net, h, g, a) == Mail("NS", h, g, a) \in net
\* A host has yet to be told that an address is in use.
Told(net, g, a) == \E h \in DadHosts : Mail("NA", h, g, a) \in net

\* Of two hosts that have asked for an address one has yet to hear of the other; the one
\* that uses it has heard already.
Contested(at, net, h, g, a) ==
  /\ Asked(at[h][a]) /\ Asked(at[g][a])
     => \/ Solicited(net, h, g, a) \/ Solicited(net, g, h, a)
        \/ Told(net, h, a) \/ Told(net, g, a)
  /\ at[h][a].state = "valid" /\ Asked(at[g][a]) => Solicited(net, g, h, a) \/ Told(net, g, a)
  /\ ~(at[h][a].state = "valid" /\ at[g][a].state = "valid")
DadInv ==
  /\ address6 \in Hosted
  /\ linkUp \in [DadHosts -> BOOLEAN]
  /\ \A h \in DadHosts, a \in LinkLocals : Asked(address6[h][a]) => linkUp[h]
  /\ \A m \in segment : m = Mail(m.kind, m.from, m.to, m.target) /\ m.from \in DadHosts
  /\ \A h, g \in DadHosts : \A a \in LinkLocals :
       h # g => Contested(address6, segment, h, g, a)

Put(at, h, a, s) == [at EXCEPT ![h][a] = s]
LEMMA PutFields ==
  ASSUME NEW at \in Hosted, NEW h \in DadHosts, NEW a \in LinkLocals \cup UserAdded, NEW s \in States6
  PROVE  /\ Put(at, h, a, s) \in Hosted
         /\ \A x \in DadHosts, b \in LinkLocals \cup UserAdded :
              Put(at, h, a, s)[x][b] = IF x = h /\ b = a THEN s ELSE at[x][b]
BY DEF Put, Hosted

LEMMA NewAddresses ==
  ASSUME Detecting
  PROVE  /\ Dad!NoAddress \in States6 /\ Dad!Tentative \in States6
         /\ ~Asked(Dad!NoAddress) /\ ~Asked(Dad!Tentative)
         /\ Dad!NoAddress.state # "valid" /\ Dad!Tentative.state # "valid"
BY DEF Detecting, Dad!NoAddress, Dad!Tentative, States6, Asked

LEMMA DadInitially ==
  ASSUME Detecting, Dad!Init
  PROVE  DadInv
<1>1. PICK first \in [DadHosts -> LinkLocals] :
        address6 = [h \in DadHosts |-> [a \in Dad!Addresses |->
                      IF a = first[h] THEN Dad!Tentative ELSE Dad!NoAddress]]
  BY DEF Dad!Init
<1>2. /\ address6 \in Hosted
      /\ \A h \in DadHosts, a \in LinkLocals : ~Asked(address6[h][a]) /\ address6[h][a].state # "valid"
  BY <1>1, NewAddresses DEF Hosted, Dad!Addresses
<1> QED
  BY <1>2 DEF DadInv, Contested, Dad!Init

\* A host that gives an address up, or begins to ask for another.
GivenUp(at, new, h, a) ==
  /\ new \in Hosted
  /\ \A x \in DadHosts, b \in LinkLocals \cup UserAdded :
       \/ new[x][b] = at[x][b] /\ ~(x = h /\ b = a)
       \/ x = h /\ ~Asked(new[x][b]) /\ new[x][b].state # "valid"

LEMMA DuplicateGives ==
  ASSUME Detecting, address6 \in Hosted, NEW h \in DadHosts, NEW a \in LinkLocals \cup UserAdded,
         Dad!Duplicate(h, a)
  PROVE  GivenUp(address6, address6', h, a)
<1> DEFINE p == Put(address6, h, a, Dad!NoAddress)
<1>1. /\ p \in Hosted
      /\ \A x \in DadHosts, b \in LinkLocals \cup UserAdded :
           p[x][b] = IF x = h /\ b = a THEN Dad!NoAddress ELSE address6[x][b]
  BY NewAddresses, PutFields
<1>2. CASE address6' = p
  BY <1>1, <1>2, NewAddresses DEF GivenUp
<1>3. ASSUME NEW b \in LinkLocals \ {a},
             address6' = [address6 EXCEPT ![h][a] = Dad!NoAddress,
                                          ![h][b] = IF Dad!Has(h, b) THEN @ ELSE Dad!Tentative]
      PROVE  GivenUp(address6, address6', h, a)
  <2> DEFINE s == IF Dad!Has(h, b) THEN p[h][b] ELSE Dad!Tentative
  <2>1. address6' = Put(p, h, b, s)
    BY <1>3 DEF Put
  <2> HIDE DEF p
  <2>2. p[h][b] \in States6
    BY <1>1 DEF Hosted
  <2>3. s \in States6
    BY <2>2, NewAddresses
  <2>4. s = address6[h][b] \/ s = Dad!Tentative
    BY <1>1, <1>3
  <2> HIDE DEF s
  <2>5. /\ address6' \in Hosted
        /\ \A x \in DadHosts, c \in LinkLocals \cup UserAdded :
             address6'[x][c] = IF x = h /\ c = b THEN s ELSE p[x][c]
    BY <1>1, <2>1, <2>3, PutFields
  <2>6. ASSUME NEW x \in DadHosts, NEW c \in LinkLocals \cup UserAdded
        PROVE  \/ address6'[x][c] = address6[x][c] /\ ~(x = h /\ c = a)
               \/ x = h /\ ~Asked(address6'[x][c]) /\ address6'[x][c].state # "valid"
    <3>1. CASE x = h /\ c = b
      <4>1. c # a /\ address6'[x][c] = s
        BY <2>5, <3>1
      <4> QED
        BY <2>4, <3>1, <4>1, NewAddresses
    <3>2. CASE ~(x = h /\ c = b)
      <4>1. address6'[x][c] = IF x = h /\ c = a THEN Dad!NoAddress ELSE address6[x][c]
        BY <1>1, <2>5, <3>2
      <4> QED
        BY <4>1, NewAddresses
    <3> QED
      BY <3>1, <3>2
  <2> QED
    BY <2>5, <2>6 DEF GivenUp
<1>4. CASE a \in LinkLocals
  BY <1>3, <1>4 DEF Dad!Duplicate
<1>5. CASE a \notin LinkLocals
  BY <1>2, <1>5 DEF Dad!Duplicate, Put
<1> QED
  BY <1>4, <1>5

LEMMA GivenKeeps ==
  ASSUME DadInv, NEW h \in DadHosts, NEW a \in LinkLocals \cup UserAdded, GivenUp(address6, address6', h, a),
         linkUp' = linkUp,
         \A m \in segment' : m \in segment,
         \A x, y : \A b \in LinkLocals : Solicited(segment, x, y, b) =>
           Solicited(segment', x, y, b) \/ (y = h /\ b = a),
         \A y : \A b \in LinkLocals : Told(segment, y, b) => Told(segment', y, b) \/ (y = h /\ b = a)
  PROVE  DadInv'
<1>1. \A x \in DadHosts, b \in LinkLocals :
        /\ Asked(address6'[x][b]) => Asked(address6[x][b]) /\ ~(x = h /\ b = a)
        /\ address6'[x][b].state = "valid" => address6[x][b].state = "valid" /\ ~(x = h /\ b = a)
  BY DEF GivenUp
<1>2. ASSUME NEW x \in DadHosts, NEW y \in DadHosts, NEW b \in LinkLocals, x # y
      PROVE  Contested(address6', segment', x, y, b)
  <2>1. Contested(address6, segment, x, y, b)
    BY <1>2 DEF DadInv
  <2>2. CASE b = a /\ (x = h \/ y = h)
    <3>1. /\ ~(Asked(address6'[x][b]) /\ Asked(address6'[y][b]))
          /\ ~(address6'[x][b].state = "valid" /\ Asked(address6'[y][b]))
          /\ ~(address6'[x][b].state = "valid" /\ address6'[y][b].state = "valid")
      BY <1>1, <2>2 DEF Asked
    <3> QED
      BY <3>1 DEF Contested
  <2>3. CASE ~(b = a /\ (x = h \/ y = h))
    <3>1. /\ Solicited(segment, x, y, b) => Solicited(segment', x, y, b)
          /\ Solicited(segment, y, x, b) => Solicited(segment', y, x, b)
          /\ Told(segment, x, b) => Told(segment', x, b)
          /\ Told(segment, y, b) => Told(segment', y, b)
      BY <2>3
    <3>2. /\ Asked(address6'[x][b]) => Asked(address6[x][b])
          /\ Asked(address6'[y][b]) => Asked(address6[y][b])
          /\ address6'[x][b].state = "valid" => address6[x][b].state = "valid"
          /\ address6'[y][b].state = "valid" => address6[y][b].state = "valid"
      BY <1>1
    <3> QED
      BY <2>1, <3>1, <3>2, Zenon DEF Contested
  <2> QED
    BY <2>2, <2>3
<1>3. /\ address6' \in Hosted /\ linkUp' \in [DadHosts -> BOOLEAN]
      /\ \A x \in DadHosts, b \in LinkLocals : Asked(address6'[x][b]) => linkUp'[x]
      /\ \A m \in segment' : m = Mail(m.kind, m.from, m.to, m.target) /\ m.from \in DadHosts
  BY <1>1 DEF DadInv, GivenUp
<1> QED
  BY <1>2, <1>3 DEF DadInv

\* What was sent stays on its way, but for the mail of one host about one address.
Received(kind, h, a) == {m \in segment : m.to = h /\ m.target = a /\ m.kind = kind}
LEMMA ReceivedIsGone ==
  ASSUME NEW kind \in {"NS", "NA"}, NEW h, NEW a
  PROVE  /\ \A x, y : \A b \in LinkLocals : Solicited(segment, x, y, b) =>
              Solicited(segment \ Received(kind, h, a), x, y, b) \/ (y = h /\ b = a /\ kind = "NS")
         /\ \A y : \A b \in LinkLocals : Told(segment, y, b) =>
              Told(segment \ Received(kind, h, a), y, b) \/ (y = h /\ b = a /\ kind = "NA")
BY DEF Solicited, Told, Mail, Received

LEMMA StillOnTheWay ==
  ASSUME NEW net, NEW more
  PROVE  /\ \A x, y : \A b \in LinkLocals : Solicited(net, x, y, b) => Solicited(net \cup more, x, y, b)
         /\ \A y : \A b \in LinkLocals : Told(net, y, b) => Told(net \cup more, y, b)
BY DEF Solicited, Told

LEMMA SentToOthers ==
  ASSUME NEW net, NEW kind \in {"NS", "NA"}, NEW h \in DadHosts, NEW a \in LinkLocals \cup UserAdded
  PROVE  /\ \A g \in DadHosts \ {h} : Mail(kind, h, g, a) \in net \cup Dad!Messages(kind, h, a)
         /\ \A m \in Dad!Messages(kind, h, a) : m = Mail(m.kind, m.from, m.to, m.target) /\ m.from \in DadHosts
BY DEF Mail, Dad!Messages

LEMMA DadAsks ==
  ASSUME Detecting, DadInv, NEW h \in DadHosts, NEW a \in LinkLocals \cup UserAdded,
         Dad!IsTentative(h, a), linkUp[h], address6[h][a].left > 0, Dad!Solicit(h, a), UNCHANGED linkUp
  PROVE  DadInv'
<1> DEFINE s == [address6[h][a] EXCEPT !.left = @ - 1]
<1>1. address6[h][a] \in States6 /\ address6 \in Hosted
  BY DEF DadInv, Hosted
<1>2. s \in States6 /\ s.state = "tentative"
  BY <1>1 DEF States6, Dad!IsTentative, Detecting
<1>3. address6' = Put(address6, h, a, s)
  BY <1>1 DEF Dad!Solicit, Put, Hosted
<1> HIDE DEF s
<1>4. /\ address6' \in Hosted
      /\ \A x \in DadHosts, b \in LinkLocals \cup UserAdded :
           address6'[x][b] = IF x = h /\ b = a THEN s ELSE address6[x][b]
  BY <1>1, <1>2, <1>3, PutFields
<1>5. segment' = segment \cup Dad!Messages("NS", h, a)
  BY DEF Dad!Solicit
<1>6. ASSUME NEW x \in DadHosts, NEW y \in DadHosts, NEW b \in LinkLocals, x # y
      PROVE  Contested(address6', segment', x, y, b)
  <2>1. Contested(address6, segment, x, y, b)
    BY <1>6 DEF DadInv
  <2>2. /\ Solicited(segment, x, y, b) => Solicited(segment', x, y, b)
        /\ Solicited(segment, y, x, b) => Solicited(segment', y, x, b)
        /\ Told(segment, x, b) => Told(segment', x, b)
        /\ Told(segment, y, b) => Told(segment', y, b)
    BY <1>5, StillOnTheWay
  <2>3. /\ x = h /\ b = a => Solicited(segment', x, y, b)
        /\ y = h /\ b = a => Solicited(segment', y, x, b)
    BY <1>5, <1>6, SentToOthers DEF Solicited
  <2>4. CASE b = a /\ (x = h \/ y = h)
    <3>1. /\ x = h => address6'[x][b].state # "valid"
          /\ y = h => address6'[y][b].state # "valid"
      BY <1>2, <1>4, <2>4
    <3> QED
      BY <1>6, <2>3, <2>4, <3>1 DEF Contested
  <2>5. CASE ~(b = a /\ (x = h \/ y = h))
    <3>1. address6'[x][b] = address6[x][b] /\ address6'[y][b] = address6[y][b]
      BY <1>4, <2>5
    <3> QED
      BY <2>1, <2>2, <3>1, Zenon DEF Contested
  <2> QED
    BY <2>4, <2>5
<1>7. /\ linkUp' \in [DadHosts -> BOOLEAN]
      /\ \A x \in DadHosts, b \in LinkLocals : Asked(address6'[x][b]) => linkUp'[x]
  BY <1>4 DEF DadInv
<1>8. \A m \in segment' : m = Mail(m.kind, m.from, m.to, m.target) /\ m.from \in DadHosts
  BY <1>5, SentToOthers DEF DadInv
<1> QED
  BY <1>4, <1>6, <1>7, <1>8 DEF DadInv

LEMMA DadConfirms ==
  ASSUME Detecting, DadInv, NEW h \in DadHosts, NEW a \in LinkLocals \cup UserAdded,
         Dad!IsTentative(h, a), linkUp[h], address6[h][a].left = 0, Dad!Confirm(h, a), UNCHANGED linkUp
  PROVE  DadInv'
<1> DEFINE s == [address6[h][a] EXCEPT !.state = "valid", !.armed = FALSE]
<1>1. address6[h][a] \in States6 /\ address6 \in Hosted
  BY DEF DadInv, Hosted
<1>2. s \in States6 /\ Asked(s)
  BY <1>1 DEF States6, Asked
<1>3. address6' = Put(address6, h, a, s)
  BY <1>1 DEF Dad!Confirm, Put, Hosted
<1> HIDE DEF s
<1>4. /\ address6' \in Hosted
      /\ \A x \in DadHosts, b \in LinkLocals \cup UserAdded :
           address6'[x][b] = IF x = h /\ b = a THEN s ELSE address6[x][b]
  BY <1>1, <1>2, <1>3, PutFields
<1>5. segment' = segment /\ linkUp' = linkUp
  BY DEF Dad!Confirm
<1>6. Asked(address6[h][a]) /\ address6[h][a].state = "tentative"
  BY <1>1 DEF Asked, Dad!IsTentative, Detecting
<1>7. (\A g : ~Solicited(segment, h, g, a)) /\ ~Told(segment, h, a)
  BY DEF Dad!Confirm, Dad!Quiet, Solicited, Told, Mail
<1>8. ASSUME NEW x \in DadHosts, NEW y \in DadHosts, NEW b \in LinkLocals, x # y
      PROVE  Contested(address6', segment', x, y, b)
  <2>1. Contested(address6, segment, x, y, b) /\ Contested(address6, segment, y, x, b)
    BY <1>8 DEF DadInv
  <2>2. CASE x = h /\ b = a
    <3>1. address6'[y][b] = address6[y][b]
      BY <1>4, <1>8, <2>2
    <3>2. address6[y][b].state # "valid"
      BY <1>6, <1>7, <2>1, <2>2 DEF Contested
    <3>3. Asked(address6[y][b]) => Solicited(segment, y, x, b) \/ Told(segment, y, b)
      BY <1>6, <1>7, <2>1, <2>2 DEF Contested
    <3> QED
      BY <1>5, <3>1, <3>2, <3>3 DEF Contested
  <2>3. CASE y = h /\ b = a
    <3>1. address6'[x][b] = address6[x][b]
      BY <1>4, <1>8, <2>3
    <3>2. address6[x][b].state # "valid"
      BY <1>6, <1>7, <2>1, <2>3 DEF Contested
    <3>3. Asked(address6[x][b]) => Solicited(segment, x, y, b) \/ Told(segment, x, b)
      BY <1>6, <1>7, <2>1, <2>3 DEF Contested
    <3> QED
      BY <1>5, <3>1, <3>2, <3>3 DEF Contested
  <2>4. CASE ~(b = a /\ (x = h \/ y = h))
    <3>1. address6'[x][b] = address6[x][b] /\ address6'[y][b] = address6[y][b]
      BY <1>4, <2>4
    <3> QED
      BY <1>5, <2>1, <3>1 DEF Contested
  <2> QED
    BY <2>2, <2>3, <2>4
<1>9. /\ linkUp' \in [DadHosts -> BOOLEAN]
      /\ \A x \in DadHosts, b \in LinkLocals : Asked(address6'[x][b]) => linkUp'[x]
  BY <1>4, <1>5 DEF DadInv
<1> QED
  BY <1>4, <1>5, <1>8, <1>9 DEF DadInv

\* A host with the address answers, or gives a tentative one up.
LEMMA DadIsAsked ==
  ASSUME Detecting, DadInv, NEW h \in DadHosts, NEW a \in LinkLocals \cup UserAdded,
         linkUp[h], Dad!SolicitationRecv(h, a), UNCHANGED linkUp
  PROVE  DadInv'
<1> DEFINE rest == segment \ Received("NS", h, a)
<1>1. /\ \A x, y : \A b \in LinkLocals : Solicited(segment, x, y, b) =>
           Solicited(rest, x, y, b) \/ (y = h /\ b = a)
      /\ \A y : \A b \in LinkLocals : Told(segment, y, b) => Told(rest, y, b)
  BY ReceivedIsGone
<1>2. address6[h][a] \in States6 /\ address6 \in Hosted
  BY DEF DadInv, Hosted
<1>3. CASE Dad!ForUs(h, a) /\ Dad!IsTentative(h, a)
  <2>1. Dad!Duplicate(h, a) /\ segment' = rest
    BY <1>3 DEF Dad!SolicitationRecv, Received, Dad!IsTentative, Dad!IsValid
  <2>2. GivenUp(address6, address6', h, a)
    BY <1>2, <2>1, DuplicateGives
  <2>3. \A m \in segment' : m \in segment
    BY <2>1
  <2> QED
    BY <1>1, <2>1, <2>2, <2>3, GivenKeeps
<1>4. CASE Dad!ForUs(h, a) /\ Dad!IsValid(h, a)
  <2>1. address6' = address6 /\ segment' = rest \cup Dad!Messages("NA", h, a)
    BY <1>4 DEF Dad!SolicitationRecv, Received, Dad!IsTentative, Dad!IsValid
  <2>2. /\ \A x, y : \A b \in LinkLocals : Solicited(segment, x, y, b) =>
             Solicited(segment', x, y, b) \/ (y = h /\ b = a)
        /\ \A y : \A b \in LinkLocals : Told(segment, y, b) => Told(segment', y, b)
        /\ \A y \in DadHosts \ {h} : Told(segment', y, a)
    <3> HIDE DEF rest
    <3>1. /\ \A x, y : \A b \in LinkLocals : Solicited(rest, x, y, b) => Solicited(segment', x, y, b)
          /\ \A y : \A b \in LinkLocals : Told(rest, y, b) => Told(segment', y, b)
      BY <2>1, StillOnTheWay
    <3>2. \A y \in DadHosts \ {h} : Told(segment', y, a)
      BY <2>1, SentToOthers DEF Told
    <3> QED
      BY <1>1, <3>1, <3>2
  <2>3. ASSUME NEW x \in DadHosts, NEW y \in DadHosts, NEW b \in LinkLocals, x # y
        PROVE  Contested(address6', segment', x, y, b)
    <3>1. Contested(address6, segment, x, y, b)
      BY <2>3 DEF DadInv
    <3>2. CASE b = a /\ x = h
      <4>1. Told(segment', y, b)
        BY <2>2, <2>3, <3>2
      <4> QED
        BY <2>1, <3>1, <4>1 DEF Contested
    <3>3. CASE b = a /\ y = h
      <4>1. Told(segment', x, b)
        BY <2>2, <2>3, <3>3
      <4>2. address6[h][a].state = "valid"
        BY <1>4 DEF Dad!IsValid
      <4>3. address6[x][b].state # "valid"
        BY <3>1, <3>3, <4>2 DEF Contested
      <4> QED
        BY <2>1, <4>1, <4>3 DEF Contested
    <3>4. CASE ~(b = a /\ (x = h \/ y = h))
      BY <2>1, <2>2, <3>1, <3>4 DEF Contested
    <3> QED
      BY <3>2, <3>3, <3>4
  <2>4. \A m \in segment' : m = Mail(m.kind, m.from, m.to, m.target) /\ m.from \in DadHosts
    BY <2>1, SentToOthers DEF DadInv
  <2> HIDE DEF rest
  <2> QED
    BY <2>1, <2>3, <2>4 DEF DadInv
<1>5. CASE ~Dad!ForUs(h, a) \/ (~Dad!IsTentative(h, a) /\ ~Dad!IsValid(h, a))
  <2>1. address6' = address6 /\ segment' = rest
    BY <1>5 DEF Dad!SolicitationRecv, Received
  <2>2. a \in LinkLocals => address6[h][a].state = "none"
    BY <1>2, <1>5 DEF Dad!ForUs, Dad!Has, Dad!IsTentative, Dad!IsValid, States6
  <2>3. ASSUME NEW x \in DadHosts, NEW y \in DadHosts, NEW b \in LinkLocals, x # y
        PROVE  Contested(address6', segment', x, y, b)
    <3>1. Contested(address6, segment, x, y, b)
      BY <2>3 DEF DadInv
    <3>2. CASE b = a /\ (x = h \/ y = h)
      BY <2>1, <2>2, <3>1, <3>2 DEF Contested, Asked
    <3>3. CASE ~(b = a /\ (x = h \/ y = h))
      BY <1>1, <2>1, <3>1, <3>3 DEF Contested
    <3> QED
      BY <3>2, <3>3
  <2> QED
    BY <2>1, <2>3 DEF DadInv
<1> QED
  BY <1>3, <1>4, <1>5

LEMMA DadIsTold ==
  ASSUME Detecting, DadInv, NEW h \in DadHosts, NEW a \in LinkLocals \cup UserAdded,
         Dad!AdvertisementRecv(h, a), UNCHANGED linkUp
  PROVE  DadInv'
<1> DEFINE rest == segment \ Received("NA", h, a)
<1>1. /\ \A x, y : \A b \in LinkLocals : Solicited(segment, x, y, b) => Solicited(rest, x, y, b)
      /\ \A y : \A b \in LinkLocals : Told(segment, y, b) => Told(rest, y, b) \/ (y = h /\ b = a)
  BY ReceivedIsGone
<1>2. address6[h][a] \in States6 /\ address6 \in Hosted
  BY DEF DadInv, Hosted
<1>3. segment' = rest
  BY DEF Dad!AdvertisementRecv, Received
<1>4. CASE Dad!IsTentative(h, a)
  <2>1. GivenUp(address6, address6', h, a)
    BY <1>2, <1>4, DuplicateGives DEF Dad!AdvertisementRecv
  <2>2. \A m \in segment' : m \in segment
    BY <1>3
  <2> QED
    BY <1>1, <1>3, <2>1, <2>2, GivenKeeps
<1>5. CASE ~Dad!IsTentative(h, a)
  <2>1. address6' = address6
    BY <1>5 DEF Dad!AdvertisementRecv
  <2>2. ASSUME NEW x \in DadHosts, NEW y \in DadHosts, NEW b \in LinkLocals, x # y
        PROVE  Contested(address6', segment', x, y, b)
    <3>1. Contested(address6, segment, x, y, b) /\ Contested(address6, segment, y, x, b)
      BY <2>2 DEF DadInv
    <3>2. Asked(address6[h][a]) => address6[h][a].state = "valid"
      BY <1>5 DEF Asked, Dad!IsTentative
    <3>3. /\ Solicited(segment, x, y, b) => Solicited(segment', x, y, b)
          /\ Solicited(segment, y, x, b) => Solicited(segment', y, x, b)
          /\ Told(segment, x, b) => Told(segment', x, b) \/ (x = h /\ b = a)
          /\ Told(segment, y, b) => Told(segment', y, b) \/ (y = h /\ b = a)
      BY <1>1, <1>3
    <3>4. CASE x = h /\ b = a
      BY <2>1, <2>2, <3>1, <3>2, <3>3, <3>4 DEF Contested
    <3>5. CASE y = h /\ b = a
      <4>1. Asked(address6[y][b]) => address6[y][b].state = "valid"
        BY <3>2, <3>5
      <4> HIDE DEF rest
      <4>2. Told(segment, x, b) => Told(segment', x, b)
        BY <2>2, <3>3, <3>5
      <4>3. address6[y][b].state = "valid" => address6[x][b].state # "valid"
        BY <3>1 DEF Contested
      <4>4. Asked(address6[x][b]) /\ Asked(address6[y][b]) =>
              Solicited(segment', x, y, b) \/ Told(segment', x, b)
        BY <3>1, <3>3, <4>1, <4>2 DEF Contested
      <4>5. ~(address6[x][b].state = "valid" /\ Asked(address6[y][b]))
        BY <4>1, <4>3
      <4> QED
        BY <2>1, <4>3, <4>4, <4>5 DEF Contested
    <3>6. CASE ~(b = a /\ (x = h \/ y = h))
      BY <2>1, <3>1, <3>3, <3>6 DEF Contested
    <3> QED
      BY <3>4, <3>5, <3>6
  <2> QED
    BY <1>3, <2>1, <2>2 DEF DadInv
<1> QED
  BY <1>4, <1>5

LEMMA DadMisses ==
  ASSUME DadInv, NEW h \in DadHosts, Dad!Missed(h)
  PROVE  DadInv'
<1>1. address6' = address6 /\ linkUp' = linkUp /\ segment' = {m \in segment : m.to # h} /\ ~linkUp[h]
  BY DEF Dad!Missed
<1>2. /\ \A x, y : \A b \in LinkLocals : Solicited(segment, x, y, b) => Solicited(segment', x, y, b) \/ y = h
      /\ \A y : \A b \in LinkLocals : Told(segment, y, b) => Told(segment', y, b) \/ y = h
  BY <1>1 DEF Solicited, Told, Mail
<1>3. \A b \in LinkLocals : ~Asked(address6[h][b])
  BY <1>1 DEF DadInv
<1>4. ASSUME NEW x \in DadHosts, NEW y \in DadHosts, NEW b \in LinkLocals, x # y
      PROVE  Contested(address6', segment', x, y, b)
  <2>1. Contested(address6, segment, x, y, b)
    BY <1>4 DEF DadInv
  <2> QED
    BY <1>1, <1>2, <1>3, <2>1 DEF Contested, Asked
<1> QED
  BY <1>1, <1>4 DEF DadInv

LEMMA DadStep ==
  ASSUME Detecting, DadInv, Dad!Next \/ UNCHANGED Dad!vars
  PROVE  DadInv'
<1>1. CASE UNCHANGED Dad!vars
  BY <1>1 DEF Dad!vars, DadInv, Contested, Solicited, Told
<1> SUFFICES ASSUME Dad!Next PROVE DadInv'
  BY <1>1
<1>2. ASSUME NEW h \in DadHosts, Dad!LinkComesUp(h)
      PROVE  DadInv'
  BY <1>2 DEF Dad!LinkComesUp, DadInv, Contested, Solicited, Told
<1>3. ASSUME NEW h \in DadHosts, NEW a \in UserAdded, Dad!LinkAdd(h, a) \/ Dad!LinkDel(h, a)
      PROVE  DadInv'
  <2>1. /\ \E s \in {Dad!Tentative, Dad!NoAddress} : address6' = Put(address6, h, a, s)
        /\ segment' = segment /\ linkUp' = linkUp
    BY <1>3, Zenon DEF Dad!LinkAdd, Dad!LinkDel, Put
  <2>2. PICK s \in {Dad!Tentative, Dad!NoAddress} : address6' = Put(address6, h, a, s)
    BY <2>1
  <2>3. GivenUp(address6, address6', h, a)
    BY <2>2, NewAddresses, PutFields DEF GivenUp, DadInv
  <2> QED
    BY <2>1, <2>3, GivenKeeps
<1>4. ASSUME NEW h \in DadHosts, NEW a \in LinkLocals \cup UserAdded, Dad!Dad(h, a)
      PROVE  DadInv'
  <2>1. CASE ~linkUp[h] /\ Dad!NoLink(h, a) /\ UNCHANGED segment
    BY <1>4, <2>1 DEF Dad!Dad, Dad!NoLink, DadInv, Contested, Solicited, Told
  <2>2. CASE linkUp[h] /\ address6[h][a].left > 0 /\ Dad!Solicit(h, a)
    BY <1>4, <2>2, DadAsks DEF Dad!Dad
  <2>3. CASE linkUp[h] /\ address6[h][a].left = 0 /\ Dad!Confirm(h, a)
    BY <1>4, <2>3, DadConfirms DEF Dad!Dad
  <2> QED
    BY <1>4, <2>1, <2>2, <2>3, Zenon DEF Dad!Dad
<1>5. ASSUME NEW h \in DadHosts, NEW a \in LinkLocals \cup UserAdded, Dad!Arrives(h, a)
      PROVE  DadInv'
  BY <1>5, DadIsAsked, DadIsTold DEF Dad!Arrives
<1> QED
  BY <1>2, <1>3, <1>4, <1>5, DadMisses, Zenon DEF Dad!Next, Dad!Addresses

\* Of the hosts that use a link-local address there is one at most.
LEMMA DadMeans ==
  ASSUME DadInv
  PROVE  Dad!LinkLocalIsUnique
<1> SUFFICES ASSUME NEW a \in LinkLocals
             PROVE  Dad!Cardinality({h \in DadHosts : Dad!IsValid(h, a)}) <= 1
  BY DEF Dad!LinkLocalIsUnique
<1> DEFINE S == {h \in DadHosts : Dad!IsValid(h, a)}
<1>1. \A x, y \in S : x = y
  BY DEF DadInv, Contested, Dad!IsValid
<1>2. S = {} \/ \E x : S = {x}
  BY <1>1
<1> HIDE DEF S
<1>3. Cardinality(S) <= 1
  <2>1. CASE S = {}
    <3>1. Cardinality(S) = 0
      BY <2>1, FS_EmptySet, Zenon
    <3> QED
      BY <3>1
  <2>2. ASSUME NEW x, S = {x} PROVE Cardinality(S) <= 1
    <3>1. Cardinality(S) = 1
      BY <2>2, FS_Singleton, Zenon
    <3> QED
      BY <3>1
  <2> QED
    BY <1>2, <2>1, <2>2
<1> QED
  BY <1>3 DEF S, Cardinality, Dad!Cardinality

-----------------------------------------------------------------------------
(* Slaacv4: probing for an address, and the link                            *)

ProbeTimer == [probe |-> 1, announce |-> 0]
AnnounceTimer == [probe |-> 0, announce |-> 1]
NoTimer == [probe |-> 0, announce |-> 0]
SlaacStates == {"reset", "claiming", "announcing", "claimed", "error", "crashed"}
\* The link is there, as far as the module knows.
SeesLink(HasLinkState) == hotplug.seen \/ ~HasLinkState
\* While the address is probed for, the probes that count for it were sent.
SlaacInv(HasLinkState) ==
  /\ DOMAIN slaac = {"state", "probes", "conflicts", "announces", "ip"}
  /\ slaac.state \in SlaacStates /\ slaac.probes \in Nat /\ probed \in Nat
  /\ hotplug \in [registered : BOOLEAN, up : BOOLEAN, seen : BOOLEAN]
  /\ hotplug.registered => HasLinkState
  /\ timers = IF slaac.state = "claiming" /\ SeesLink(HasLinkState) THEN ProbeTimer
              ELSE IF slaac.state = "announcing" /\ SeesLink(HasLinkState) THEN AnnounceTimer
              ELSE NoTimer
  /\ slaac.state = "claimed" => (slaac.ip \in slaacLinks <=> SeesLink(HasLinkState))
  /\ slaac.state = "claiming" => probed >= slaac.probes
  /\ slaac.state \in {"announcing", "claimed"} => probed >= ProbeNb

LEMMA SlaacInitially ==
  ASSUME NEW H \in BOOLEAN, Slaac(H)!Init
  PROVE  SlaacInv(H)
BY DEF Slaac!Init, Slaac!Cookie, SlaacInv, SlaacStates, NoTimer

LEMMA TimersFollow ==
  ASSUME NEW H \in BOOLEAN
  PROVE  /\ \A t \in {NoTimer, ProbeTimer, AnnounceTimer} : Slaac(H)!Cancelled(t) = NoTimer
         /\ Slaac(H)!Start(NoTimer, "probe") = ProbeTimer
         /\ Slaac(H)!Start([ProbeTimer EXCEPT !.probe = @ - 1], "announce") = AnnounceTimer
         /\ [AnnounceTimer EXCEPT !.announce = @ - 1] = NoTimer
         /\ Slaac(H)!NoTimers = NoTimer
         /\ ProbeTimer.probe = 1 /\ ProbeTimer.announce = 0
         /\ AnnounceTimer.probe = 0 /\ AnnounceTimer.announce = 1
         /\ NoTimer.probe = 0 /\ NoTimer.announce = 0
<1>1. /\ DOMAIN ProbeTimer = {"probe", "announce"} /\ ProbeTimer.probe = 1 /\ ProbeTimer.announce = 0
      /\ DOMAIN AnnounceTimer = {"probe", "announce"} /\ AnnounceTimer.probe = 0 /\ AnnounceTimer.announce = 1
      /\ DOMAIN NoTimer = {"probe", "announce"} /\ NoTimer.probe = 0 /\ NoTimer.announce = 0
  BY DEF NoTimer, ProbeTimer, AnnounceTimer
<1>2. Slaac(H)!NoTimers = NoTimer
  BY DEF Slaac!NoTimers, NoTimer
<1>3. Slaac(H)!Cancelled(NoTimer) = NoTimer
  BY <1>1 DEF Slaac!Cancelled
<1>4. Slaac(H)!Cancelled(ProbeTimer) = NoTimer
  BY DEF Slaac!Cancelled, ProbeTimer, NoTimer
<1>5. Slaac(H)!Cancelled(AnnounceTimer) = NoTimer
  BY DEF Slaac!Cancelled, AnnounceTimer, NoTimer
<1>6. Slaac(H)!Start(NoTimer, "probe") = ProbeTimer
  BY DEF Slaac!Start, NoTimer, ProbeTimer
<1>7. [ProbeTimer EXCEPT !.probe = @ - 1] = NoTimer
  BY DEF ProbeTimer, NoTimer
<1>8. Slaac(H)!Start(NoTimer, "announce") = AnnounceTimer
  BY DEF Slaac!Start, NoTimer, AnnounceTimer
<1>9. [AnnounceTimer EXCEPT !.announce = @ - 1] = NoTimer
  BY DEF NoTimer, AnnounceTimer
<1> QED
  BY <1>1, <1>2, <1>3, <1>4, <1>5, <1>6, <1>7, <1>8, <1>9

\* The fields of a cookie from which probing starts.
LEMMA SlaacBegins ==
  ASSUME NEW H \in BOOLEAN, NEW k, DOMAIN k = {"state", "probes", "conflicts", "announces", "ip"}
  PROVE  LET b == Slaac(H)!Begin(k) IN
         DOMAIN b = DOMAIN k /\ b.state = "claiming" /\ b.probes = 0 /\ b.ip = k.ip
BY DEF Slaac!Begin

\* An address is probed for, from the first probe.
LEMMA SlaacProbes ==
  ASSUME NEW H \in BOOLEAN, NEW k, DOMAIN k = {"state", "probes", "conflicts", "announces", "ip"},
         k.state = "claiming", k.probes = 0, Slaac(H)!ProbeFor(k, NoTimer),
         hotplug' \in [registered : BOOLEAN, up : BOOLEAN, seen : BOOLEAN],
         hotplug'.registered => H, SeesLink(H)'
  PROVE  SlaacInv(H)'
<1>1. slaac' = [k EXCEPT !.probes = @ + 1] /\ timers' = ProbeTimer /\ probed' = 1
  BY TimersFollow DEF Slaac!ProbeFor
<1>2. /\ DOMAIN slaac' = {"state", "probes", "conflicts", "announces", "ip"}
      /\ slaac'.state = "claiming" /\ slaac'.probes = 1
  BY <1>1
<1> QED
  BY <1>1, <1>2 DEF SlaacInv, SlaacStates

LEMMA SlaacStep ==
  ASSUME NEW H \in BOOLEAN, ProbeNb \in Nat, SlaacInv(H), Slaac(H)!Next \/ UNCHANGED Slaac(H)!vars
  PROVE  SlaacInv(H)'
<1>1. CASE UNCHANGED Slaac(H)!vars
  BY <1>1 DEF Slaac!vars, SlaacInv, SeesLink
<1> SUFFICES ASSUME Slaac(H)!Next PROVE SlaacInv(H)'
  BY <1>1
<1>2. /\ Slaac(H)!NoTimers = NoTimer
      /\ Slaac(H)!Cancelled(timers) = NoTimer
      /\ timers.probe > 0 => slaac.state = "claiming" /\ SeesLink(H) /\ timers = ProbeTimer
      /\ timers.announce > 0 => slaac.state = "announcing" /\ SeesLink(H) /\ timers = AnnounceTimer
  BY TimersFollow DEF SlaacInv
<1>3. DOMAIN slaac = {"state", "probes", "conflicts", "announces", "ip"}
  BY DEF SlaacInv
<1>4. ASSUME NEW ip, Slaac(H)!Claim(ip)
      PROVE  SlaacInv(H)'
  <2>1. /\ timers = NoTimer /\ slaac.state \in {"reset", "error"}
        /\ DOMAIN Slaac(H)!Cookie(ip) = {"state", "probes", "conflicts", "announces", "ip"}
        /\ Slaac(H)!Cookie(ip).state = "reset" /\ Slaac(H)!Cookie(ip).probes = 0
    BY <1>2, <1>4 DEF Slaac!Claim, Slaac!Cookie
  <2>2. CASE ~H
    <3>1. Slaac(H)!ProbeFor(Slaac(H)!Begin(Slaac(H)!Cookie(ip)), NoTimer) /\ hotplug' = hotplug
      BY <1>4, <2>1, <2>2 DEF Slaac!Claim
    <3>2. SeesLink(H)'
      BY <2>2 DEF SeesLink
    <3> QED
      BY <2>1, <3>1, <3>2, SlaacBegins, SlaacProbes DEF SlaacInv
  <2>3. CASE H /\ hotplug.up
    <3>1. /\ Slaac(H)!ProbeFor(Slaac(H)!Begin(Slaac(H)!Cookie(ip)), NoTimer)
          /\ hotplug' = [hotplug EXCEPT !.registered = TRUE, !.seen = hotplug.up]
      BY <1>4, <2>1, <2>3 DEF Slaac!Claim
    <3>2. hotplug' \in [registered : BOOLEAN, up : BOOLEAN, seen : BOOLEAN] /\ hotplug'.seen
      BY <2>3, <3>1 DEF SlaacInv
    <3> QED
      BY <2>1, <2>3, <3>1, <3>2, SlaacBegins, SlaacProbes DEF SeesLink
  <2>4. CASE H /\ ~hotplug.up
    <3>1. /\ slaac' = Slaac(H)!Cookie(ip) /\ timers' = timers /\ probed' = 0 /\ slaacLinks' = slaacLinks
          /\ hotplug' = [hotplug EXCEPT !.registered = TRUE, !.seen = hotplug.up]
      BY <1>4, <2>4 DEF Slaac!Claim
    <3>2. hotplug' \in [registered : BOOLEAN, up : BOOLEAN, seen : BOOLEAN]
      BY <3>1 DEF SlaacInv
    <3>3. /\ DOMAIN slaac' = {"state", "probes", "conflicts", "announces", "ip"}
          /\ slaac'.state = "reset" /\ slaac'.probes = 0 /\ timers' = NoTimer /\ probed' = 0
      BY <2>1, <3>1
    <3> QED
      BY <2>4, <3>2, <3>3 DEF SlaacInv, SlaacStates
  <2> QED
    BY <2>2, <2>3, <2>4
<1>5. ASSUME Slaac(H)!SendProbe
      PROVE  SlaacInv(H)'
  <2>1. slaac.state = "claiming" /\ SeesLink(H) /\ timers = ProbeTimer
    BY <1>2, <1>5 DEF Slaac!SendProbe
  <2>2. slaacLinks' = slaacLinks /\ hotplug' = hotplug
    BY <1>5 DEF Slaac!SendProbe
  <2>3. CASE slaac.probes < ProbeNb
    <3>1. slaac' = [slaac EXCEPT !.probes = @ + 1] /\ probed' = probed + 1 /\ timers' = timers
      BY <1>5, <2>3 DEF Slaac!SendProbe
    <3> QED
      BY <2>1, <2>2, <3>1 DEF SlaacInv, SeesLink
  <2>4. CASE ~(slaac.probes < ProbeNb)
    <3>1. slaac' = [slaac EXCEPT !.state = "announcing"] /\ timers' = AnnounceTimer /\ probed' = probed
      BY <1>5, <2>1, <2>4, TimersFollow DEF Slaac!SendProbe
    <3> QED
      BY <2>1, <2>2, <2>4, <3>1 DEF SlaacInv, SeesLink, SlaacStates
  <2> QED
    BY <2>3, <2>4
<1>6. ASSUME Slaac(H)!SendAnnounce
      PROVE  SlaacInv(H)'
  <2>1. slaac.state = "announcing" /\ SeesLink(H) /\ timers = AnnounceTimer
    BY <1>2, <1>6 DEF Slaac!SendAnnounce
  <2>2. hotplug' = hotplug /\ probed' = probed
    BY <1>6 DEF Slaac!SendAnnounce
  <2>3. CASE slaac.announces < AnnounceNb
    <3>1. slaac' = [slaac EXCEPT !.announces = @ + 1] /\ timers' = timers /\ slaacLinks' = slaacLinks
      BY <1>6, <2>3 DEF Slaac!SendAnnounce
    <3> QED
      BY <2>1, <2>2, <3>1 DEF SlaacInv, SeesLink
  <2>4. CASE ~(slaac.announces < AnnounceNb)
    <3>1. /\ slaac' = [slaac EXCEPT !.state = "claimed"] /\ timers' = NoTimer
          /\ slaacLinks' = slaacLinks \cup {slaac.ip}
      BY <1>6, <2>1, <2>4, TimersFollow DEF Slaac!SendAnnounce
    <3> QED
      BY <2>1, <2>2, <3>1 DEF SlaacInv, SeesLink, SlaacStates
  <2> QED
    BY <2>3, <2>4
<1>7. ASSUME NEW reason, NEW ip, Slaac(H)!Conflict(reason, ip)
      PROVE  SlaacInv(H)'
  <2> DEFINE k == [slaac EXCEPT !.conflicts = @ + 1]
             r == Slaac(H)!Restart(k, ip)
  <2>1. /\ DOMAIN k = {"state", "probes", "conflicts", "announces", "ip"}
        /\ k.state = slaac.state /\ k.probes = slaac.probes
    BY <1>3
  <2>2. SeesLink(H)
    BY <1>7 DEF Slaac!Conflict, SeesLink
  <2>3. \/ Slaac(H)!ProbeFor(r, NoTimer) /\ hotplug' = hotplug
        \/ slaac' = r /\ timers' = ProbeTimer /\ probed' = 0 /\ hotplug' = hotplug
        \/ /\ slaac' = [k EXCEPT !.state = "error"] /\ timers' = NoTimer
           /\ hotplug' = [hotplug EXCEPT !.registered = FALSE] /\ probed' = probed
    BY <1>2, <1>7, TimersFollow DEF Slaac!Conflict
  <2> HIDE DEF k
  <2>4. /\ DOMAIN r = {"state", "probes", "conflicts", "announces", "ip"}
        /\ r.state = "claiming" /\ r.probes = 0
    BY <2>1, SlaacBegins DEF Slaac!Restart
  <2> HIDE DEF r
  <2>5. CASE Slaac(H)!ProbeFor(r, NoTimer) /\ hotplug' = hotplug
    BY <2>2, <2>4, <2>5, SlaacProbes DEF SlaacInv, SeesLink
  <2>6. CASE slaac' = r /\ timers' = ProbeTimer /\ probed' = 0 /\ hotplug' = hotplug
    BY <2>2, <2>4, <2>6 DEF SlaacInv, SeesLink, SlaacStates
  <2>7. CASE /\ slaac' = [k EXCEPT !.state = "error"] /\ timers' = NoTimer
             /\ hotplug' = [hotplug EXCEPT !.registered = FALSE] /\ probed' = probed
    <3>1. hotplug' \in [registered : BOOLEAN, up : BOOLEAN, seen : BOOLEAN] /\ ~hotplug'.registered
      BY <2>7 DEF SlaacInv
    <3>2. /\ DOMAIN slaac' = {"state", "probes", "conflicts", "announces", "ip"}
          /\ slaac'.state = "error" /\ slaac'.probes = slaac.probes
      BY <2>1, <2>7
    <3> QED
      BY <2>7, <3>1, <3>2 DEF SlaacInv, SlaacStates
  <2> QED
    BY <2>3, <2>5, <2>6, <2>7
<1>8. ASSUME Slaac(H)!LinkChanges
      PROVE  SlaacInv(H)'
  <2>1. /\ hotplug' = [hotplug EXCEPT !.up = ~@] /\ slaac' = slaac /\ timers' = timers
        /\ slaacLinks' = slaacLinks /\ probed' = probed
    BY <1>8 DEF Slaac!LinkChanges
  <2>2. /\ hotplug' \in [registered : BOOLEAN, up : BOOLEAN, seen : BOOLEAN]
        /\ hotplug'.registered = hotplug.registered /\ hotplug'.seen = hotplug.seen
    BY <2>1 DEF SlaacInv
  <2> QED
    BY <2>1, <2>2 DEF SlaacInv, SeesLink
<1>9. ASSUME Slaac(H)!HotplugPoll
      PROVE  SlaacInv(H)'
  <2>1. hotplug' = [hotplug EXCEPT !.seen = hotplug.up]
    BY <1>9 DEF Slaac!HotplugPoll
  <2>2. /\ hotplug' \in [registered : BOOLEAN, up : BOOLEAN, seen : BOOLEAN]
        /\ hotplug'.registered = hotplug.registered /\ hotplug'.seen = hotplug.up
    BY <2>1 DEF SlaacInv
  <2>3. H /\ hotplug.up # hotplug.seen
    BY <1>9 DEF Slaac!HotplugPoll, SlaacInv
  <2>4. CASE hotplug.up
    <3>1. ~SeesLink(H) /\ SeesLink(H)'
      BY <2>2, <2>3, <2>4 DEF SeesLink, SlaacInv
    <3>2. timers = NoTimer
      BY <3>1 DEF SlaacInv
    <3>3. Slaac(H)!ProbeFor(Slaac(H)!Begin(slaac), NoTimer)
      BY <1>9, <2>4, <3>2 DEF Slaac!HotplugPoll
    <3>4. hotplug'.registered => H
      BY <2>2 DEF SlaacInv
    <3> QED
      BY <1>3, <2>2, <3>1, <3>3, <3>4, SlaacBegins, SlaacProbes
  <2>5. CASE ~hotplug.up
    <3>1. SeesLink(H) /\ ~SeesLink(H)'
      BY <2>2, <2>3, <2>5 DEF SeesLink, SlaacInv
    <3>2. /\ slaacLinks' = IF slaac.state = "claimed" THEN slaacLinks \ {slaac.ip} ELSE slaacLinks
          /\ timers' = NoTimer /\ slaac' = slaac /\ probed' = probed
      BY <1>2, <1>9, <2>5 DEF Slaac!HotplugPoll, Slaac!Down
    <3> QED
      BY <2>2, <3>1, <3>2 DEF SlaacInv
  <2> QED
    BY <2>4, <2>5
<1>10. ASSUME Slaac(H)!Unregister
       PROVE  SlaacInv(H)'
  <2>1. /\ timers' = NoTimer /\ probed' = 0 /\ hotplug' = hotplug
        /\ slaac' = IF hotplug.registered THEN [Slaac(H)!Cookie(0) EXCEPT !.state = "crashed"]
                    ELSE Slaac(H)!Cookie(0)
    BY <1>2, <1>10 DEF Slaac!Unregister
  <2>2. /\ DOMAIN slaac' = {"state", "probes", "conflicts", "announces", "ip"}
        /\ slaac'.state \in {"crashed", "reset"} /\ slaac'.probes = 0
    BY <2>1 DEF Slaac!Cookie
  <2> QED
    BY <2>1, <2>2 DEF SlaacInv, SlaacStates
<1> QED
  BY <1>4, <1>5, <1>6, <1>7, <1>8, <1>9, <1>10, Zenon DEF Slaac!Next

LEMMA SlaacMeans ==
  ASSUME NEW H \in BOOLEAN, SlaacInv(H)
  PROVE  Slaac(H)!ClaimedWasProbed /\ Slaac(H)!ClaimedIsLinked /\ Slaac(H)!TimerOfState
<1>1. Slaac(H)!ClaimedWasProbed /\ Slaac(H)!ClaimedIsLinked
  BY DEF SlaacInv, SeesLink, Slaac!ClaimedWasProbed, Slaac!ClaimedIsLinked
<1>2. Slaac(H)!TimerOfState
  BY DEF SlaacInv, SeesLink, Slaac!TimerOfState, Slaac!NoTimers, ProbeTimer, AnnounceTimer, NoTimer
<1> QED
  BY <1>1, <1>2

-----------------------------------------------------------------------------
(* Mdns: a host that claims one record                                      *)

\* Every host claims one type of records at most, and each is probed for.
IsLink(L) ==
  /\ \A h \in L.hosts : L.claims[h] \subseteq {"A", "TXT"} /\ \A s, t \in L.claims[h] : s = t
  /\ L.probes \in Nat \ {0} /\ L.announces \in Nat \ {0} /\ L.reliable \in BOOLEAN

RecOf(r) == [name |-> r.name, type |-> r.type]
IsRec(r) == DOMAIN r = {"name", "type", "flags"} /\ r.name \in Int
IsCookie(c) ==
  /\ DOMAIN c = {"kind", "recs", "count", "status", "timer", "tree"}
  /\ c.count \in Int /\ c.kind \in {"probe", "query", "announce"}
IsMail(m) ==
  DOMAIN m = {"from", "to", "kind", "recs", "auth"} /\ m.kind \in {"probe", "query", "answer"}
IsHostState(k) ==
  /\ DOMAIN k = {"my", "cookies", "cache", "out"}
  /\ k = [my |-> k.my, cookies |-> k.cookies, cache |-> k.cache, out |-> k.out]
  /\ \A c \in k.cookies : IsCookie(c)
  /\ \A m \in k.out : IsMail(m)
OnlyQueries(cookies) == \A c \in cookies : c.kind = "query"
Claims0(k) == k.my = {} /\ OnlyQueries(k.cookies)
ProbeFlags == {"probing"}
ProbesWith(k, r, c) ==
  /\ k.my = {r} /\ IsRec(r) /\ r.flags = {"probing"}
  /\ c \in k.cookies /\ c.kind = "probe" /\ c.timer = TRUE /\ c.tree = TRUE /\ c.recs = {RecOf(r)}
  /\ OnlyQueries(k.cookies \ {c})
OwnsRec(k, r) ==
  /\ k.my = {r} /\ IsRec(r) /\ "probed" \in r.flags /\ "probing" \notin r.flags
  /\ \A c \in k.cookies : c.kind # "probe"

LEMMA NothingToProbe ==
  ASSUME NEW L, NEW k, IsHostState(k), \A r \in k.my : r.flags \cap {"probed", "probing"} # {}
  PROVE  Mdns(L)!Probe(k) = k
<1>1. Mdns(L)!FindToProbe(k) = {}
  BY DEF Mdns!FindToProbe
<1>2. {[r EXCEPT !.flags = @ \cup {"probing"}] : r \in Mdns(L)!FindToProbe(k)} = {}
  BY <1>1
<1>3. Mdns(L)!Probe(k) = [k EXCEPT !.my = (@ \ {}) \cup {}]
  BY <1>1, <1>2 DEF Mdns!Probe
<1>4. DOMAIN k = {"my", "cookies", "cache", "out"}
  BY DEF IsHostState
<1>5. [k EXCEPT !.my = (@ \ {}) \cup {}] =
        [my |-> k.my, cookies |-> k.cookies, cache |-> k.cache, out |-> k.out]
  BY <1>4
<1> QED
  BY <1>3, <1>5, Zenon DEF IsHostState

LEMMA NothingToAnnounce ==
  ASSUME NEW L, NEW h, NEW k, \A r \in k.my : "probed" \notin r.flags
  PROVE  Mdns(L)!Announce(h, k) = k
<1>1. Mdns(L)!FindProbed(k) = {}
  BY DEF Mdns!FindProbed
<1>2. {Mdns(L)!Rec(r) : r \in Mdns(L)!FindProbed(k)} = {}
  BY <1>1
<1> QED
  BY <1>2 DEF Mdns!Announce

\* Probing begins: the record has its flag and its cookie.
Begins(L, k, d, r) ==
  LET s == [r EXCEPT !.flags = {"probing"}]
      c == Mdns(L)!Cookie("probe", {RecOf(r)}, L.probes) IN
  /\ d = [k EXCEPT !.my = {s}, !.cookies = @ \cup {c}]
  /\ ProbesWith(d, s, c) /\ RecOf(s) = RecOf(r)
LEMMA ProbingBegins ==
  ASSUME NEW L, NEW h, NEW k, IsHostState(k), k.my = {}, OnlyQueries(k.cookies),
         NEW r, IsRec(r), r.flags = {}
  PROVE  Begins(L, k, Mdns(L)!ClaimGeneric(h, k, {r}), r)
<1> DEFINE a == Mdns(L)!MyRecordsAdd(k, {r})
           s == [r EXCEPT !.flags = {"probing"}]
           c == Mdns(L)!Cookie("probe", {RecOf(r)}, L.probes)
           b == [k EXCEPT !.my = {s}, !.cookies = @ \cup {c}]
<1>1. a = [k EXCEPT !.my = {r}]
  <2>1. {x \in {r} : Mdns(L)!Of(k.my, x) = {}} = {r}
    BY DEF Mdns!Of
  <2> QED
    BY <2>1 DEF Mdns!MyRecordsAdd
<1>2. DOMAIN a = {"my", "cookies", "cache", "out"} /\ a.my = {r} /\ a.cookies = k.cookies
  BY <1>1 DEF IsHostState
<1>3. /\ IsRec(s) /\ s.flags = {"probing"} /\ RecOf(s) = RecOf(r)
      /\ s = [r EXCEPT !.flags = @ \cup {"probing"}]
  BY DEF IsRec, RecOf
<1> HIDE DEF a, s
<1>4. Mdns(L)!FindToProbe(a) = {r}
  BY <1>2 DEF Mdns!FindToProbe
<1>5. /\ {Mdns(L)!Rec(x) : x \in {r}} = {RecOf(r)}
      /\ {[x EXCEPT !.flags = @ \cup {"probing"}] : x \in {r}} = {s}
  BY <1>3 DEF Mdns!Rec, RecOf
<1>6. c.kind = "probe" /\ c.timer = TRUE /\ c.tree = TRUE /\ c.recs = {RecOf(r)}
  BY DEF Mdns!Cookie
<1>7. \A d \in a.cookies : ~Mdns(L)!SameQuestions(d, c)
  BY <1>2, <1>6 DEF Mdns!SameQuestions, OnlyQueries
<1>8. Mdns(L)!Probe(a) = [[a EXCEPT !.my = (@ \ {r}) \cup {s}] EXCEPT !.cookies = @ \cup {c}]
  BY <1>4, <1>5, <1>7, Zenon DEF Mdns!Probe
<1> HIDE DEF c
<1>9. (a.my \ {r}) \cup {s} = {s}
  BY <1>2
<1>10. [[a EXCEPT !.my = (@ \ {r}) \cup {s}] EXCEPT !.cookies = @ \cup {c}] = b
  BY <1>1, <1>2, <1>9 DEF IsHostState
<1>11. b.my = {s} /\ b.cookies = k.cookies \cup {c}
  BY DEF IsHostState
<1>12. Mdns(L)!Announce(h, b) = b
  <2> HIDE DEF b
  <2>1. \A x \in b.my : "probed" \notin x.flags
    <3>1. s.flags = {"probing"} /\ b.my = {s}
      BY <1>3, <1>11, Zenon
    <3>2. "probed" \notin {"probing"}
      OBVIOUS
    <3> QED
      BY <3>1, <3>2, Zenon
  <2> QED
    BY <2>1, NothingToAnnounce, Zenon
<1>13. ProbesWith(b, s, c)
  BY <1>3, <1>6, <1>11 DEF ProbesWith, OnlyQueries
<1> HIDE DEF b
<1>14. Mdns(L)!ClaimGeneric(h, k, {r}) = b
  BY <1>8, <1>10, <1>12, Zenon DEF Mdns!ClaimGeneric, a
<1> QED
  BY <1>3, <1>13, <1>14 DEF b, s, c, Begins

\* A host in a new state, with the same cache.
ResponderIs(k, e, my, cookies, out) ==
  /\ IsHostState(e) /\ e.cache = k.cache
  /\ e.my = my /\ e.cookies = cookies /\ e.out = out
LEMMA CookieIsSet ==
  ASSUME NEW L, NEW k, IsHostState(k), NEW c, NEW d, IsCookie(d)
  PROVE  ResponderIs(k, Mdns(L)!SetCookie(k, c, d), k.my, (k.cookies \ {c}) \cup {d}, k.out)
BY DEF Mdns!SetCookie, IsHostState, ResponderIs
LEMMA CookieIsDeleted ==
  ASSUME NEW L, NEW k, IsHostState(k), NEW c
  PROVE  ResponderIs(k, Mdns(L)!DelCookie(k, c), k.my, k.cookies \ {c}, k.out)
BY DEF Mdns!DelCookie, IsHostState, ResponderIs
LEMMA MessagesAreMail ==
  ASSUME NEW L, NEW h, NEW kind \in {"probe", "query", "answer"}, NEW recs, NEW auth
  PROVE  LET m == Mdns(L)!Msg(h, kind, recs, auth) IN
         IsMail(m) /\ m.from = h /\ m.kind = kind /\ m.recs = recs /\ m.auth = auth
BY DEF Mdns!Msg, IsMail
LEMMA MessageIsSent ==
  ASSUME NEW L, NEW k, IsHostState(k), NEW m, IsMail(m)
  PROVE  ResponderIs(k, Mdns(L)!Send(k, m), k.my, k.cookies, k.out \cup {m})
BY DEF Mdns!Send, IsHostState, ResponderIs

\* A record that is announced is marked, and stays what it is.
Same(r, s) ==
  /\ IsRec(s) /\ RecOf(s) = RecOf(r)
  /\ "probed" \in s.flags /\ "probing" \notin s.flags
Announces(k, e, r, c, m) ==
  /\ IsHostState(e) /\ e.cache = k.cache
  /\ \E s : e.my = {s} /\ Same(r, s)
  /\ \A x \in e.cookies : x \in k.cookies \ {c} \/ (x.kind = "announce" /\ x.recs = c.recs)
  /\ e.out = k.out \cup {m}
LEMMA RecordIsAnnounced ==
  ASSUME NEW L, NEW h, NEW k, IsHostState(k), NEW r, k.my = {r}, IsRec(r),
         "probed" \in r.flags, "probing" \notin r.flags, NEW c, IsCookie(c)
  PROVE  Announces(k, Mdns(L)!Announcement(h, k, c), r, c, Mdns(L)!Msg(h, "answer", c.recs, {}))
<1> DEFINE d == [c EXCEPT !.kind = "announce", !.status = "active", !.count = @ - 1]
           m == Mdns(L)!Msg(h, "answer", c.recs, {})
           s == Mdns(L)!Send(k, m)
           a == Mdns(L)!SetCookie(s, c, d)
           b == Mdns(L)!DelCookie(s, c)
           e == Mdns(L)!Announcement(h, k, c)
<1>1. IsCookie(d) /\ d.kind = "announce" /\ d.recs = c.recs
  BY DEF IsCookie
<1>0. IsMail(m)
  BY MessagesAreMail
<1>2. e = IF d.count > 0 THEN a ELSE [b EXCEPT !.my = Mdns(L)!MarkClaimed(@, c.recs)]
  BY DEF Mdns!Announcement
<1> HIDE DEF d, m, e
<1>3. IsHostState(s) /\ s.my = k.my /\ s.cookies = k.cookies /\ s.cache = k.cache /\ s.out = k.out \cup {m}
  <2>1. ResponderIs(k, s, k.my, k.cookies, k.out \cup {m})
    BY <1>0, MessageIsSent
  <2> QED
    BY <2>1 DEF ResponderIs
<1> HIDE DEF s
<1>4. /\ IsHostState(a) /\ a.my = k.my /\ a.cookies = (k.cookies \ {c}) \cup {d} /\ a.cache = k.cache
      /\ a.out = k.out \cup {m}
  <2>1. ResponderIs(s, a, s.my, (s.cookies \ {c}) \cup {d}, s.out)
    BY <1>1, <1>3, CookieIsSet
  <2> QED
    BY <1>3, <2>1 DEF ResponderIs
<1>5. /\ IsHostState(b) /\ b.my = k.my /\ b.cookies = k.cookies \ {c} /\ b.cache = k.cache
      /\ b.out = k.out \cup {m}
  <2>1. ResponderIs(s, b, s.my, s.cookies \ {c}, s.out)
    BY <1>3, CookieIsDeleted
  <2> QED
    BY <1>3, <2>1 DEF ResponderIs
<1> HIDE DEF a, b
<1>6. CASE d.count > 0
  <2>1. e = a /\ Same(r, r)
    BY <1>2, <1>6 DEF Same
  <2>2. \E x : e.my = {x} /\ Same(r, x)
    BY <1>4, <2>1
  <2> QED
    BY <1>1, <1>4, <2>1, <2>2 DEF m, e, Announces
<1>7. CASE ~(d.count > 0)
  <2>1. e = [b EXCEPT !.my = Mdns(L)!MarkClaimed(k.my, c.recs)]
    BY <1>2, <1>5, <1>7
  <2>2. /\ IsHostState(e) /\ e.my = Mdns(L)!MarkClaimed(k.my, c.recs) /\ e.cookies = k.cookies \ {c}
        /\ e.cache = k.cache /\ e.out = k.out \cup {m}
    BY <1>5, <2>1 DEF IsHostState
  <2> DEFINE x == IF Mdns(L)!Rec(r) \in c.recs THEN [r EXCEPT !.flags = @ \cup {"claimed"}] ELSE r
  <2>3. Same(r, x)
    BY DEF Same, IsRec, RecOf
  <2>4. Mdns(L)!MarkClaimed(k.my, c.recs) = {x}
    BY DEF Mdns!MarkClaimed
  <2> HIDE DEF x
  <2>5. \E y : e.my = {y} /\ Same(r, y)
    BY <2>2, <2>3, <2>4
  <2> QED
    BY <2>2, <2>5 DEF m, e, Announces
<1> QED
  BY <1>6, <1>7

\* The timer of a cookie that probes: the next probe, or the first announcement.
TimerProbes(L, h, k, e, r, c) ==
  /\ IsHostState(e) /\ e.cache = k.cache
  /\ \A x \in e.cookies : x.kind = "query" => x \in k.cookies
  /\ c.count > 0 => /\ ProbesWith(e, r, [c EXCEPT !.status = "active", !.count = @ - 1])
                    /\ e.out = k.out \cup {Mdns(L)!Msg(h, "probe", {}, {RecOf(r)})}
  /\ ~(c.count > 0) => /\ \E s : OwnsRec(e, s) /\ RecOf(s) = RecOf(r)
                       /\ \A x \in e.cookies : x.kind = "query" \/ x.recs = {RecOf(r)}
                       /\ e.out = k.out \cup {Mdns(L)!Msg(h, "answer", {RecOf(r)}, {})}
LEMMA ProbeTimes ==
  ASSUME NEW L, IsLink(L), NEW h, NEW k, IsHostState(k), NEW r, NEW c, ProbesWith(k, r, c)
  PROVE  TimerProbes(L, h, k, Mdns(L)!ProbeTimer(h, k, c), r, c)
<1> DEFINE d == [c EXCEPT !.status = "active", !.count = @ - 1]
           m == Mdns(L)!Msg(h, "probe", {}, c.recs)
           e == Mdns(L)!ProbeTimer(h, k, c)
<1>1. IsCookie(c) /\ IsRec(r) /\ c.recs = {RecOf(r)} /\ k.my = {r}
  BY DEF ProbesWith, IsHostState
<1>2. CASE c.count > 0
  <2> DEFINE s == Mdns(L)!Send(k, m)
             a == Mdns(L)!SetCookie(s, c, d)
  <2>1. e = a
    BY <1>2 DEF Mdns!ProbeTimer
  <2>2. IsCookie(d) /\ d.kind = c.kind /\ d.timer = c.timer /\ d.tree = c.tree /\ d.recs = c.recs
    BY <1>1 DEF IsCookie
  <2>0. IsMail(m)
    BY MessagesAreMail
  <2> HIDE DEF d, e, m
  <2>3. IsHostState(s) /\ s.my = k.my /\ s.cookies = k.cookies /\ s.cache = k.cache /\ s.out = k.out \cup {m}
    BY <2>0, MessageIsSent DEF ResponderIs
  <2> HIDE DEF s
  <2>4. /\ IsHostState(a) /\ a.my = k.my /\ a.cookies = (k.cookies \ {c}) \cup {d} /\ a.cache = k.cache
        /\ a.out = k.out \cup {m}
    <3>1. ResponderIs(s, a, s.my, (s.cookies \ {c}) \cup {d}, s.out)
      BY <2>2, <2>3, CookieIsSet
    <3> QED
      BY <2>3, <3>1 DEF ResponderIs
  <2> HIDE DEF a
  <2>5. ProbesWith(a, r, d)
    BY <1>1, <2>2, <2>4 DEF ProbesWith, OnlyQueries
  <2>6. \A x \in a.cookies : x.kind = "query" => x \in k.cookies
    BY <2>2, <2>4 DEF ProbesWith
  <2> QED
    BY <1>1, <1>2, <2>1, <2>4, <2>5, <2>6 DEF d, e, m, TimerProbes
<1>3. CASE ~(c.count > 0)
  <2> DEFINE d0 == [c EXCEPT !.count = L.announces]
             s == Mdns(L)!SetCookie(k, c, d0)
             p == IF Mdns(L)!Rec(r) \in c.recs THEN Mdns(L)!Probed(r) ELSE r
             b == [s EXCEPT !.my = {p}]
             a == Mdns(L)!Announcement(h, b, d0)
  <2>1. IsCookie(d0) /\ d0.recs = c.recs
    BY <1>1 DEF IsCookie, IsLink
  <2>2. Mdns(L)!Rec(r) \in c.recs
    BY <1>1 DEF Mdns!Rec, RecOf
  <2>3. Same(r, p)
    BY <1>1, <2>2 DEF Same, Mdns!Probed, IsRec, RecOf
  <2>4. {IF Mdns(L)!Rec(x) \in c.recs THEN Mdns(L)!Probed(x) ELSE x : x \in k.my} = {p}
    BY <1>1
  <2> HIDE DEF p, d0
  <2>5. IsHostState(s) /\ s.my = k.my /\ s.cookies = (k.cookies \ {c}) \cup {d0} /\ s.cache = k.cache /\ s.out = k.out
    BY <2>1, CookieIsSet DEF ResponderIs
  <2>6. e = Mdns(L)!Announcement(h, [s EXCEPT !.my = {IF Mdns(L)!Rec(x) \in c.recs THEN Mdns(L)!Probed(x) ELSE x : x \in @}], d0)
    BY <1>3 DEF Mdns!ProbeTimer, d0
  <2> HIDE DEF s, e
  <2>7. e = a
    BY <2>4, <2>5, <2>6
  <2>8. /\ IsHostState(b) /\ b.my = {p} /\ b.cookies = (k.cookies \ {c}) \cup {d0} /\ b.cache = k.cache
        /\ b.out = k.out
    BY <2>5 DEF IsHostState
  <2> HIDE DEF b
  <2>9. /\ IsHostState(a) /\ a.cache = k.cache
        /\ \E x : a.my = {x} /\ Same(p, x)
        /\ \A x \in a.cookies : x \in b.cookies \ {d0} \/ (x.kind = "announce" /\ x.recs = c.recs)
        /\ a.out = k.out \cup {Mdns(L)!Msg(h, "answer", c.recs, {})}
    <3>1. IsRec(p) /\ "probed" \in p.flags /\ "probing" \notin p.flags
      BY <2>3 DEF Same
    <3>2. Announces(b, a, p, d0, Mdns(L)!Msg(h, "answer", d0.recs, {}))
      BY <2>1, <2>8, <3>1, RecordIsAnnounced
    <3> QED
      BY <2>1, <2>8, <3>2 DEF Announces
  <2> HIDE DEF a
  <2>10. PICK x : a.my = {x} /\ Same(p, x)
    BY <2>9
  <2>11. \A y \in a.cookies : y.kind # "probe"
    BY <2>8, <2>9 DEF ProbesWith, OnlyQueries
  <2>12. OwnsRec(e, x) /\ RecOf(x) = RecOf(r)
    BY <2>3, <2>7, <2>10, <2>11 DEF OwnsRec, Same
  <2>13. \A y \in e.cookies : y.kind = "query" \/ y.recs = {RecOf(r)}
    BY <1>1, <2>7, <2>8, <2>9 DEF ProbesWith, OnlyQueries
  <2>14. \A y \in e.cookies : y.kind = "query" => y \in k.cookies
    BY <2>7, <2>8, <2>9
  <2> QED
    BY <1>1, <1>3, <2>7, <2>9, <2>12, <2>13, <2>14 DEF e, TimerProbes
<1> QED
  BY <1>2, <1>3

\* Cookies are found by the names they ask for.
LEMMA CookiesAreFound ==
  ASSUME NEW L, NEW k, IsHostState(k), NEW name, NEW kinds
  PROVE  /\ \A x \in Mdns(L)!FindCookie(k, name, kinds) : x \in k.cookies /\ x.kind \in kinds
         /\ (\A x \in k.cookies : x.kind \notin kinds) => Mdns(L)!FindCookie(k, name, kinds) = {}
BY DEF Mdns!FindCookie

LEMMA ProbeIsFound ==
  ASSUME NEW L, NEW k, IsHostState(k), NEW name, NEW r, NEW c, ProbesWith(k, r, c)
  PROVE  /\ Mdns(L)!FindCookie(k, name, {"probe"}) = IF name = r.name THEN {c} ELSE {}
         /\ c \in Mdns(L)!FindCookie(k, name, {"query", "probe", "announce"}) => name = r.name
         /\ k.cookies = {c} => Mdns(L)!FindCookie(k, name, {"query", "probe", "announce"}) =
                                 IF name = r.name THEN {c} ELSE {}
<1>1. Mdns(L)!Names(c) = {r.name}
  BY DEF ProbesWith, Mdns!Names, RecOf
<1>2. c.kind = "probe" /\ c.tree = TRUE /\ c \in k.cookies /\ \A x \in k.cookies : x = c \/ x.kind = "query"
  BY DEF ProbesWith, OnlyQueries
<1>3. c \in Mdns(L)!FindCookie(k, name, {"query", "probe", "announce"}) => name = r.name
  BY <1>1 DEF Mdns!FindCookie
<1>4. Mdns(L)!FindCookie(k, name, {"probe"}) = IF name = r.name THEN {c} ELSE {}
  BY <1>1, <1>2 DEF Mdns!FindCookie
<1>5. k.cookies = {c} => Mdns(L)!FindCookie(k, name, {"query", "probe", "announce"}) =
                           IF name = r.name THEN {c} ELSE {}
  BY <1>1, <1>2 DEF Mdns!FindCookie
<1> QED
  BY <1>3, <1>4, <1>5

\* A question changes queries only; it is answered where nothing is asked.
Questioned(k, e, answers, m) ==
  /\ IsHostState(e) /\ e.cache = k.cache /\ e.my = k.my
  /\ \A x : x.kind # "query" => (x \in e.cookies <=> x \in k.cookies)
  /\ (\A x \in k.cookies : x.kind # "query") => e.cookies = k.cookies
  /\ e.out = k.out \/ (answers # {} /\ e.out = k.out \cup {m})
  /\ (\A x \in k.cookies : x.kind # "query") /\ answers # {} => e.out = k.out \cup {m}
LEMMA QuestionKeeps ==
  ASSUME NEW L, NEW h, NEW k, IsHostState(k), NEW name, NEW types
  PROVE  LET answers == Mdns(L)!Populate(k, name, types) IN
         Questioned(k, Mdns(L)!Question(h, k, name, types), answers,
                    Mdns(L)!Msg(h, "answer", answers, {}))
<1> DEFINE mine == Mdns(L)!FindCookie(k, name, {"query"})
           answers == Mdns(L)!Populate(k, name, types)
           m == Mdns(L)!Msg(h, "answer", answers, {})
           e == Mdns(L)!Question(h, k, name, types)
<1>1. /\ \A x \in mine : x \in k.cookies /\ x.kind = "query"
      /\ (\A x \in k.cookies : x.kind # "query") => mine = {}
  BY CookiesAreFound
<1>2. CASE mine # {}
  <2> DEFINE new == (k.cookies \ mine) \cup {[c EXCEPT !.status = "cancelled"] : c \in mine}
  <2>1. e = [k EXCEPT !.cookies = new]
    BY <1>2 DEF Mdns!Question
  <2>2. \A x \in new : x \in k.cookies \/ (IsCookie(x) /\ x.kind = "query")
    BY <1>1 DEF IsHostState, IsCookie
  <2>3. \A x \in k.cookies : x.kind # "query" => x \in new
    BY <1>1
  <2> HIDE DEF new, e
  <2>4. IsHostState(e) /\ e.cache = k.cache /\ e.my = k.my /\ e.cookies = new /\ e.out = k.out
    BY <2>1, <2>2 DEF IsHostState
  <2> HIDE DEF mine
  <2>5. ~(\A x \in k.cookies : x.kind # "query")
    BY <1>1, <1>2
  <2>6. \A x : x.kind # "query" => (x \in e.cookies <=> x \in k.cookies)
    BY <2>2, <2>3, <2>4
  <2> QED
    BY <2>4, <2>5, <2>6 DEF Questioned, e
<1>3. CASE mine = {} /\ answers # {}
  <2>1. e = Mdns(L)!Send(k, m)
    BY <1>3 DEF Mdns!Question
  <2>0. IsMail(m)
    BY MessagesAreMail
  <2> HIDE DEF e, m
  <2>2. ResponderIs(k, e, k.my, k.cookies, k.out \cup {m})
    BY <2>0, <2>1, MessageIsSent
  <2> QED
    BY <1>3, <2>2 DEF Questioned, ResponderIs, e, m
<1>4. CASE mine = {} /\ answers = {}
  <2>1. e = k
    BY <1>4 DEF Mdns!Question
  <2> HIDE DEF e, m
  <2> QED
    BY <1>4, <2>1 DEF Questioned, e
<1> QED
  BY <1>2, <1>3, <1>4

\* Another host probes for the record as well: this one goes on or begins again.
Deferred(L, c, d, r, r0) ==
  \/ d = c
  \/ /\ c.status = "active" /\ r.name = r0.name
     /\ \/ d = Mdns(L)!Defer(c)
        \/ d = [c EXCEPT !.status = "inactive"] /\ RecOf(r) # RecOf(r0)
Defers(L, k, e, r, r0, c) ==
  /\ IsHostState(e) /\ e.cache = k.cache /\ e.out = k.out
  /\ \E d : ProbesWith(e, r0, d) /\ Deferred(L, c, d, r, r0)
  /\ k.cookies = {c} => \A x \in e.cookies : x.kind = "probe"
LEMMA AuthorityDefers ==
  ASSUME NEW L, IsLink(L), NEW h, NEW k, IsHostState(k), NEW r, NEW from,
         NEW r0, NEW c, ProbesWith(k, r0, c)
  PROVE  Defers(L, k, Mdns(L)!Authority(h, k, r, from), r, r0, c)
<1> DEFINE e == Mdns(L)!Authority(h, k, r, from)
           d1 == [c EXCEPT !.status = "inactive"]
           d2 == Mdns(L)!Defer(c)
           found == Mdns(L)!FindCookie(k, r.name, {"probe"})
           probing == {x \in Mdns(L)!Of(k.my, r) : "probing" \in x.flags}
<1>1. found = IF r.name = r0.name THEN {c} ELSE {}
  BY ProbeIsFound
<1>2. probing = IF RecOf(r) = RecOf(r0) THEN {r0} ELSE {}
  BY DEF ProbesWith, Mdns!Of, Mdns!Rec, RecOf
<1>3. IsCookie(c) /\ c.kind = "probe"
  BY DEF ProbesWith, IsHostState
<1>4. \A d \in {d1, d2} : IsCookie(d) /\ d.kind = "probe" /\ d.timer = TRUE /\ d.tree = TRUE /\ d.recs = c.recs
  <2>1. IsCookie(d1) /\ d1.kind = "probe" /\ d1.timer = c.timer /\ d1.tree = c.tree /\ d1.recs = c.recs
    BY <1>3 DEF IsCookie
  <2>2. IsCookie(d2) /\ d2.kind = "probe" /\ d2.timer = TRUE /\ d2.tree = c.tree /\ d2.recs = c.recs
    BY <1>3 DEF IsCookie, Mdns!Defer, IsLink
  <2> HIDE DEF d1, d2
  <2> QED
    BY <2>1, <2>2 DEF ProbesWith
<1>5. \/ e = k
      \/ /\ r.name = r0.name /\ c.status = "active"
         /\ \/ probing = {} /\ e = Mdns(L)!SetCookie(k, c, d1)
            \/ e = Mdns(L)!SetCookie(k, c, d2)
  <2>1. CASE r.name # r0.name
    BY <1>1, <2>1 DEF Mdns!Authority
  <2>2. CASE r.name = r0.name
    <3>1. found = {c} /\ (CHOOSE x \in found : TRUE) = c
      BY <1>1, <2>2
    <3> QED
      BY <2>2, <3>1 DEF Mdns!Authority
  <2> QED
    BY <2>1, <2>2
<1> HIDE DEF e, d1, d2, found, probing
<1>6. CASE e = k
  BY <1>3, <1>6 DEF e, Defers, Deferred
<1>7. ASSUME NEW d \in {d1, d2}, e = Mdns(L)!SetCookie(k, c, d)
      PROVE  /\ IsHostState(e) /\ e.cache = k.cache /\ e.out = k.out /\ ProbesWith(e, r0, d)
             /\ k.cookies = {c} => \A x \in e.cookies : x.kind = "probe"
  <2>1. IsCookie(d) /\ d.kind = "probe" /\ d.timer = TRUE /\ d.tree = TRUE /\ d.recs = c.recs
    BY <1>4
  <2>2. ResponderIs(k, e, k.my, (k.cookies \ {c}) \cup {d}, k.out)
    BY <1>7, <2>1, CookieIsSet
  <2> QED
    BY <2>1, <2>2 DEF ResponderIs, ProbesWith, OnlyQueries
<1>8. CASE r.name = r0.name /\ c.status = "active" /\ probing = {} /\ e = Mdns(L)!SetCookie(k, c, d1)
  <2>1. RecOf(r) # RecOf(r0)
    BY <1>2, <1>8
  <2> QED
    BY <1>7, <1>8, <2>1 DEF Defers, Deferred, e, d1
<1>9. CASE r.name = r0.name /\ c.status = "active" /\ e = Mdns(L)!SetCookie(k, c, d2)
  BY <1>7, <1>9 DEF Defers, Deferred, e, d2
<1> QED
  BY <1>5, <1>6, <1>8, <1>9

LEMMA AuthorityIgnored ==
  ASSUME NEW L, NEW h, NEW k, IsHostState(k), NEW r, NEW from, \A c \in k.cookies : c.kind # "probe"
  PROVE  Mdns(L)!Authority(h, k, r, from) = k
<1>1. Mdns(L)!FindCookie(k, r.name, {"probe"}) = {}
  BY CookiesAreFound
<1> QED
  BY <1>1 DEF Mdns!Authority

\* An answer for a record that the host probes for, or has.
Conflicted(L, k, e, r0) ==
  LET r1 == [name |-> r0.name + 1, type |-> r0.type, flags |-> ProbeFlags]
      c1 == Mdns(L)!Cookie("probe", {RecOf(r1)}, L.probes) IN
  /\ IsHostState(e) /\ e.out = k.out /\ ProbesWith(e, r1, c1)
  /\ \A x \in e.cookies : x = c1 \/ x \in k.cookies

LEMMA CookieConflicts ==
  ASSUME NEW L, IsLink(L), NEW h, NEW k, IsHostState(k), NEW r0, NEW c, ProbesWith(k, r0, c)
  PROVE  Conflicted(L, k, Mdns(L)!CookieConflict(h, k, c, r0.name), r0)
<1> DEFINE left == {r \in c.recs : r.name # r0.name}
           d == Mdns(L)!DelCookie(k, c)
           n == [name |-> r0.name + 1, type |-> r0.type, flags |-> {}]
           b == [d EXCEPT !.my = {}]
           e == Mdns(L)!CookieConflict(h, k, c, r0.name)
           f == Mdns(L)!ClaimGeneric(h, b, {n})
<1>1. c.recs = {RecOf(r0)} /\ k.my = {r0} /\ IsRec(r0) /\ left = {} /\ c.recs \ left = {RecOf(r0)}
  BY DEF ProbesWith, RecOf
<1>2. Mdns(L)!NewRecords({RecOf(r0)}) = {n}
  BY DEF Mdns!NewRecords, Mdns!NewName, RecOf
<1>3. IsRec(n) /\ n.flags = {}
  BY <1>1 DEF IsRec
<1>4. {r \in k.my : r.name # r0.name} = {}
  BY <1>1
<1>5. ResponderIs(k, d, k.my, k.cookies \ {c}, k.out)
  BY CookieIsDeleted
<1>6. e = Mdns(L)!ClaimGeneric(h, [d EXCEPT !.my = {r \in @ : r.name # r0.name}], Mdns(L)!NewRecords(c.recs \ left))
  BY <1>1 DEF Mdns!CookieConflict
<1> HIDE DEF d, e, left, n
<1>7. e = f
  BY <1>1, <1>2, <1>4, <1>5, <1>6 DEF ResponderIs
<1>8. IsHostState(b) /\ b.my = {} /\ b.cookies = k.cookies \ {c} /\ b.out = k.out /\ OnlyQueries(b.cookies)
  BY <1>5 DEF ResponderIs, IsHostState, ProbesWith
<1> HIDE DEF b
<1> DEFINE s == [n EXCEPT !.flags = {"probing"}]
           c1 == Mdns(L)!Cookie("probe", {RecOf(n)}, L.probes)
           r1 == [name |-> r0.name + 1, type |-> r0.type, flags |-> ProbeFlags]
<1>9. f = [b EXCEPT !.my = {s}, !.cookies = @ \cup {c1}] /\ ProbesWith(f, s, c1) /\ RecOf(s) = RecOf(n)
  <2> HIDE DEF s, c1
  <2>1. Begins(L, b, f, n)
    BY <1>3, <1>8, ProbingBegins
  <2> QED
    BY <2>1 DEF Begins, s, c1
<1>10. s = r1 /\ RecOf(n) = RecOf(r1)
  BY DEF n, RecOf, ProbeFlags
<1>11. IsCookie(c1)
  BY DEF Mdns!Cookie, IsCookie, IsLink
<1> HIDE DEF s, c1, f, r1
<1>12. IsHostState(f) /\ f.out = k.out /\ f.cookies = (k.cookies \ {c}) \cup {c1}
  BY <1>8, <1>9, <1>11 DEF IsHostState
<1>13. c1 = Mdns(L)!Cookie("probe", {RecOf(r1)}, L.probes)
  BY <1>10 DEF c1
<1>14. ProbesWith(f, r1, c1) /\ \A x \in f.cookies : x = c1 \/ x \in k.cookies
  BY <1>9, <1>10, <1>12
<1> QED
  BY <1>7, <1>12, <1>13, <1>14 DEF Conflicted, e, r1

\* A record that the host has comes back with a new name and its flags.
LEMMA PassiveConflicts ==
  ASSUME NEW L, IsLink(L), NEW h, NEW k, IsHostState(k), NEW r, OwnsRec(k, r)
  PROVE  LET e == Mdns(L)!PassiveConflict(h, k, r) IN
         IsHostState(e) /\ e.cache = k.cache /\ \E s : OwnsRec(e, s) /\ s.type = r.type
<1> DEFINE n == Mdns(L)!NewName(r)
           a == [k EXCEPT !.my = @ \ {r}]
           b == Mdns(L)!MyRecordsAdd(a, {n})
           e == Mdns(L)!PassiveConflict(h, k, r)
           recs == {Mdns(L)!Rec(x) : x \in Mdns(L)!FindProbed(b)}
           c == [Mdns(L)!Cookie("announce", recs, L.announces) EXCEPT !.tree = FALSE]
<1>1. IsRec(n) /\ n.flags = r.flags /\ n.type = r.type
  BY DEF OwnsRec, Mdns!NewName, IsRec
<1>2. Same(n, n)
  BY <1>1 DEF OwnsRec, Same
<1>3. a.my = {} /\ a.cookies = k.cookies /\ a.cache = k.cache /\ IsHostState(a)
  <2>1. k.my \ {r} = {}
    BY DEF OwnsRec
  <2>2. a = [k EXCEPT !.my = {}]
    BY <2>1
  <2> HIDE DEF a
  <2> QED
    BY <2>2 DEF IsHostState
<1>4. e = Mdns(L)!Announce(h, Mdns(L)!Probe(b))
  BY DEF Mdns!PassiveConflict, Mdns!ClaimGeneric
<1>5. c.recs = recs /\ IsCookie(c)
  BY DEF Mdns!Cookie, IsCookie, IsLink
<1> HIDE DEF n, a, e
<1>6. {x \in {n} : Mdns(L)!Of(a.my, x) = {}} = {n}
  BY <1>3 DEF Mdns!Of
<1>7. IsHostState(b) /\ b.my = {n} /\ b.cookies = k.cookies /\ b.cache = k.cache
  BY <1>3, <1>6 DEF Mdns!MyRecordsAdd, IsHostState
<1> HIDE DEF b
<1>8. Mdns(L)!Probe(b) = b
  <2>1. \A x \in b.my : x.flags \cap {"probed", "probing"} # {}
    BY <1>2, <1>7 DEF Same
  <2> QED
    BY <1>7, <2>1, NothingToProbe
<1>9. CASE recs = {}
  <2>1. e = b
    BY <1>4, <1>8, <1>9 DEF Mdns!Announce
  <2>2. OwnsRec(b, n)
    BY <1>2, <1>7 DEF OwnsRec, Same
  <2> QED
    BY <1>1, <1>7, <2>1, <2>2 DEF e
<1>10. CASE recs # {}
  <2>1. e = Mdns(L)!Announcement(h, b, c)
    BY <1>4, <1>8, <1>10 DEF Mdns!Announce
  <2> HIDE DEF recs, c
  <2>2. Announces(b, e, n, c, Mdns(L)!Msg(h, "answer", c.recs, {}))
    BY <1>2, <1>5, <1>7, <2>1, RecordIsAnnounced DEF Same
  <2>3. PICK s : e.my = {s} /\ Same(n, s)
    BY <2>2 DEF Announces
  <2>4. \A x \in e.cookies : x.kind # "probe"
    BY <1>7, <2>2 DEF Announces, OwnsRec
  <2>5. OwnsRec(e, s) /\ s.type = r.type
    BY <1>1, <2>3, <2>4 DEF OwnsRec, Same, RecOf
  <2> QED
    BY <1>7, <2>2, <2>5 DEF Announces, e
<1> QED
  BY <1>9, <1>10

LEMMA IsCached ==
  ASSUME NEW L, NEW k, IsHostState(k), NEW r, NEW from
  PROVE  LET e == Mdns(L)!CacheAdd(k, r, from) IN
         IsHostState(e) /\ e.my = k.my /\ e.cookies = k.cookies /\ e.out = k.out
BY DEF Mdns!CacheAdd, IsHostState

\* The host is as it was, but for its cache.
Unmoved(k, e) == IsHostState(e) /\ e.my = k.my /\ e.cookies = k.cookies /\ e.out = k.out
LEMMA AnswerConflicts ==
  ASSUME NEW L, IsLink(L), NEW h, NEW k, IsHostState(k), NEW r, NEW from
  PROVE  LET e == Mdns(L)!Answer(h, k, r, from) IN
         /\ Claims0(k) => Unmoved(k, e)
         /\ \A r0 : OwnsRec(k, r0) => IF RecOf(r) = RecOf(r0) THEN IsHostState(e) /\ \E s : OwnsRec(e, s) /\ s.type = r0.type
                                      ELSE Unmoved(k, e)
         /\ \A r0, c : ProbesWith(k, r0, c) =>
              \/ Unmoved(k, e) /\ (k.cookies = {c} => ~(r.name = r0.name /\ c.status = "active"))
              \/ Conflicted(L, k, e, r0)
<1> DEFINE found == Mdns(L)!FindCookie(k, r.name, {"query", "probe", "announce"})
           x == CHOOSE x \in found : TRUE
           hit == found # {} /\ x.kind = "probe" /\ x.status = "active"
           a == IF hit THEN Mdns(L)!CookieConflict(h, k, x, r.name) ELSE k
           mine == {y \in Mdns(L)!Of(a.my, r) : "probing" \notin y.flags}
           b == IF mine # {} THEN Mdns(L)!PassiveConflict(h, a, CHOOSE y \in mine : TRUE) ELSE a
           e == Mdns(L)!Answer(h, k, r, from)
<1>1. e = Mdns(L)!CacheAdd(b, r, from)
  BY DEF Mdns!Answer
<1>2. hit => x \in k.cookies /\ x \in found /\ x.kind = "probe" /\ x.status = "active"
  BY CookiesAreFound
<1> HIDE DEF found, x, e
<1>3. CASE Claims0(k)
  <2>1. a = k /\ mine = {}
    BY <1>2, <1>3 DEF Claims0, OnlyQueries, Mdns!Of
  <2>2. b = k
    BY <2>1
  <2> QED
    <3> HIDE DEF b
    <3>1. Unmoved(k, e)
      BY <1>1, <2>2, IsCached DEF Unmoved
    <3>2. (\A r0 : ~OwnsRec(k, r0)) /\ (\A r0, c : ~ProbesWith(k, r0, c))
      BY <1>3 DEF Claims0, OwnsRec, ProbesWith
    <3> QED
      BY <3>1, <3>2 DEF e
<1>4. ASSUME NEW r0, OwnsRec(k, r0)
      PROVE  IF RecOf(r) = RecOf(r0) THEN IsHostState(e) /\ \E s : OwnsRec(e, s) /\ s.type = r0.type
             ELSE Unmoved(k, e)
  <2>1. ~hit
    BY <1>2, <1>4 DEF OwnsRec
  <2>2. a = k
    BY <2>1
  <2>3. mine = IF RecOf(r) = RecOf(r0) THEN {r0} ELSE {}
    BY <1>4, <2>2 DEF OwnsRec, Mdns!Of, Mdns!Rec, RecOf
  <2> HIDE DEF a, hit
  <2>4. CASE RecOf(r) = RecOf(r0)
    <3>1. b = Mdns(L)!PassiveConflict(h, k, r0)
      BY <2>2, <2>3, <2>4
    <3> HIDE DEF b
    <3>2. IsHostState(b) /\ \E s : OwnsRec(b, s) /\ s.type = r0.type
      BY <1>4, <3>1, PassiveConflicts
    <3>3. PICK s : OwnsRec(b, s) /\ s.type = r0.type
      BY <3>2
    <3>4. IsHostState(e) /\ OwnsRec(e, s)
      BY <1>1, <3>2, <3>3, IsCached DEF OwnsRec
    <3> QED
      BY <2>4, <3>3, <3>4
  <2>5. CASE RecOf(r) # RecOf(r0)
    <3>1. b = k
      BY <2>2, <2>3, <2>5
    <3> HIDE DEF b
    <3> QED
      BY <1>1, <2>5, <3>1, IsCached DEF Unmoved
  <2> QED
    BY <2>4, <2>5
<1>5. ASSUME NEW r0, NEW c, ProbesWith(k, r0, c)
      PROVE  \/ Unmoved(k, e) /\ (k.cookies = {c} => ~(r.name = r0.name /\ c.status = "active"))
             \/ Conflicted(L, k, e, r0)
  <2>1. CASE hit
    <3>1. x = c /\ r.name = r0.name
      BY <1>2, <1>5, <2>1, ProbeIsFound DEF ProbesWith, OnlyQueries, found
    <3>2. a = Mdns(L)!CookieConflict(h, k, c, r0.name)
      BY <2>1, <3>1
    <3> HIDE DEF a, hit
    <3>3. Conflicted(L, k, a, r0)
      BY <1>5, <3>2, CookieConflicts
    <3>4. mine = {}
      BY <3>3 DEF Conflicted, ProbesWith, Mdns!Of, ProbeFlags
    <3>5. b = a
      BY <3>4
    <3> HIDE DEF b
    <3>6. Unmoved(a, e)
      BY <1>1, <3>3, <3>5, IsCached DEF Unmoved, Conflicted
    <3>7. Conflicted(L, k, e, r0)
      BY <3>3, <3>6 DEF Conflicted, Unmoved, ProbesWith
    <3> QED
      BY <3>7
  <2>2. CASE ~hit
    <3>1. a = k
      BY <2>2
    <3>2. k.cookies = {c} => ~(r.name = r0.name /\ c.status = "active")
      <4>1. SUFFICES ASSUME k.cookies = {c}, r.name = r0.name, c.status = "active" PROVE FALSE
        OBVIOUS
      <4>2. found = {c}
        BY <1>5, <4>1, ProbeIsFound DEF found
      <4>3. x = c
        BY <4>2 DEF x
      <4> QED
        BY <1>5, <2>2, <4>1, <4>2, <4>3 DEF ProbesWith
    <3> HIDE DEF a, hit
    <3>3. mine = {}
      BY <1>5, <3>1 DEF ProbesWith, Mdns!Of
    <3>4. b = k
      BY <3>1, <3>3
    <3> HIDE DEF b
    <3> QED
      BY <1>1, <3>2, <3>4, IsCached DEF Unmoved
  <2> QED
    BY <2>1, <2>2
<1> QED
  BY <1>3, <1>4, <1>5 DEF e

\* What a host is doing: nothing yet, probing for its record, or it has it.
HostShape(L, h, k) ==
  /\ IsHostState(k) /\ \A r \in k.my : r.type \in L.claims[h]
  /\ \/ Claims0(k)
     \/ \E r, c : ProbesWith(k, r, c)
     \/ \E r : OwnsRec(k, r)
LEMMA OneKeeps ==
  ASSUME NEW L, IsLink(L), NEW h, NEW k, HostShape(L, h, k), NEW m, NEW r
  PROVE  HostShape(L, h, Mdns(L)!One(h, k, m, r))
<1> DEFINE e == Mdns(L)!Answer(h, k, r, m.from)
           d == Mdns(L)!Authority(h, k, r, m.from)
<1>1. IsHostState(k)
  BY DEF HostShape
<1>2. Unmoved(k, e) => HostShape(L, h, e)
  <2> HIDE DEF e
  <2> QED
    BY DEF Unmoved, HostShape, Claims0, ProbesWith, OwnsRec
<1>3. HostShape(L, h, e)
  <2>1. CASE Claims0(k)
    BY <1>1, <1>2, <2>1, AnswerConflicts
  <2>2. ASSUME NEW r0, NEW c, ProbesWith(k, r0, c)
        PROVE  HostShape(L, h, e)
    <3>1. Unmoved(k, e) \/ Conflicted(L, k, e, r0)
      BY <1>1, <2>2, AnswerConflicts
    <3> HIDE DEF e
    <3>2. ASSUME Conflicted(L, k, e, r0)
          PROVE  HostShape(L, h, e)
      <4>1. PICK r1, c1 : r1.type = r0.type /\ ProbesWith(e, r1, c1) /\ IsHostState(e)
        BY <3>2 DEF Conflicted
      <4>2. \A x \in e.my : x.type \in L.claims[h]
        BY <2>2, <4>1 DEF ProbesWith, HostShape
      <4> QED
        BY <4>1, <4>2 DEF HostShape
    <3> QED
      BY <1>2, <3>1, <3>2
  <2>3. ASSUME NEW r0, OwnsRec(k, r0)
        PROVE  HostShape(L, h, e)
    <3>1. Unmoved(k, e) \/ (IsHostState(e) /\ \E s : OwnsRec(e, s) /\ s.type = r0.type)
      BY <1>1, <2>3, AnswerConflicts
    <3> HIDE DEF e
    <3>2. ASSUME IsHostState(e), NEW s, OwnsRec(e, s), s.type = r0.type
          PROVE  HostShape(L, h, e)
      <4>1. \A x \in e.my : x.type \in L.claims[h]
        BY <2>3, <3>2 DEF OwnsRec, HostShape
      <4> QED
        BY <3>2, <4>1 DEF HostShape
    <3> QED
      BY <1>2, <3>1, <3>2
  <2> QED
    BY <2>1, <2>2, <2>3 DEF HostShape
<1>4. HostShape(L, h, d)
  <2>1. CASE \A c \in k.cookies : c.kind # "probe"
    BY <1>1, <2>1, AuthorityIgnored
  <2>2. ASSUME NEW r0, NEW c, ProbesWith(k, r0, c)
        PROVE  HostShape(L, h, d)
    <3>1. IsHostState(d) /\ \E x : ProbesWith(d, r0, x)
      BY <1>1, <2>2, AuthorityDefers DEF Defers
    <3> HIDE DEF d
    <3>2. d.my = k.my
      BY <2>2, <3>1 DEF ProbesWith
    <3> QED
      BY <3>1, <3>2 DEF HostShape
  <2> QED
    BY <2>1, <2>2 DEF HostShape, Claims0, OwnsRec, OnlyQueries
<1> QED
  BY <1>3, <1>4 DEF Mdns!One

LEMMA EachKeeps ==
  ASSUME NEW L, IsLink(L), NEW h, NEW k, HostShape(L, h, k), NEW m, NEW e \in Mdns(L)!Each(h, k, m)
  PROVE  HostShape(L, h, e)
<1>1. PICK r \in m.recs \cup m.auth :
        e = IF m.recs \cup m.auth = {r} THEN Mdns(L)!One(h, k, m, r)
            ELSE Mdns(L)!One(h, Mdns(L)!One(h, k, m, r), m, CHOOSE x \in m.recs \cup m.auth : x # r)
  BY DEF Mdns!Each
<1>2. HostShape(L, h, Mdns(L)!One(h, k, m, r))
  BY OneKeeps
<1>3. \A x : HostShape(L, h, Mdns(L)!One(h, Mdns(L)!One(h, k, m, r), m, x))
  <2> DEFINE d == Mdns(L)!One(h, k, m, r)
  <2>1. HostShape(L, h, d)
    BY <1>2
  <2> HIDE DEF d
  <2>2. \A x : HostShape(L, h, Mdns(L)!One(h, d, m, x))
    BY <2>1, OneKeeps
  <2> QED
    BY <2>2 DEF d
<1> QED
  BY <1>1, <1>2, <1>3

LEMMA QuestionShape ==
  ASSUME NEW L, NEW h, NEW k, HostShape(L, h, k), NEW name, NEW types
  PROVE  HostShape(L, h, Mdns(L)!Question(h, k, name, types))
<1> DEFINE e == Mdns(L)!Question(h, k, name, types)
<1>1. PICK answers, m : Questioned(k, e, answers, m)
  BY QuestionKeeps DEF HostShape
<1> HIDE DEF e
<1>2. /\ IsHostState(e) /\ e.my = k.my
      /\ \A x : x.kind # "query" => (x \in e.cookies <=> x \in k.cookies)
  BY <1>1 DEF Questioned
<1>3. CASE Claims0(k)
  <2>1. Claims0(e)
    BY <1>2, <1>3 DEF Claims0, OnlyQueries
  <2> QED
    BY <1>2, <2>1 DEF HostShape, e
<1>4. ASSUME NEW r, NEW c, ProbesWith(k, r, c)
      PROVE  HostShape(L, h, e)
  <2>1. ProbesWith(e, r, c)
    BY <1>2, <1>4 DEF ProbesWith, OnlyQueries
  <2> QED
    BY <1>2, <2>1 DEF HostShape
<1>5. ASSUME NEW r, OwnsRec(k, r)
      PROVE  HostShape(L, h, e)
  <2>1. OwnsRec(e, r)
    BY <1>2, <1>5 DEF OwnsRec
  <2> QED
    BY <1>2, <2>1 DEF HostShape
<1> QED
  BY <1>3, <1>4, <1>5 DEF HostShape, e

MdnsShape(L) ==
  /\ DOMAIN mdns = L.hosts
  /\ \A h \in L.hosts : HostShape(L, h, mdns[h]) /\ mdns[h].out = {}
  /\ \A m \in mail : IsMail(m)

LEMMA MdnsInitially ==
  ASSUME NEW L, Mdns(L)!Init
  PROVE  MdnsShape(L)
<1>1. mdns = [h \in L.hosts |-> Mdns(L)!Idle] /\ mail = {}
  BY DEF Mdns!Init
<1>2. \A h : HostShape(L, h, Mdns(L)!Idle) /\ Mdns(L)!Idle.out = {}
  BY DEF Mdns!Idle, HostShape, IsHostState, Claims0, OnlyQueries
<1> QED
  BY <1>1, <1>2 DEF MdnsShape

\* What a handler leaves is what the host is, and what it sent is mail.
LEMMA MailKeeps ==
  ASSUME NEW L, MdnsShape(L), NEW h \in L.hosts, NEW k, HostShape(L, h, k),
         mdns' = [mdns EXCEPT ![h] = [k EXCEPT !.out = {}]],
         \A m \in mail' : m \in mail \/ \E x \in k.out : \E g \in L.hosts : m = [x EXCEPT !.to = g]
  PROVE  MdnsShape(L)'
<1> DEFINE s == [k EXCEPT !.out = {}]
<1>1. /\ IsHostState(s) /\ s.my = k.my /\ s.cookies = k.cookies /\ s.out = {}
  BY DEF HostShape, IsHostState
<1>2. mdns' = [mdns EXCEPT ![h] = s]
  OBVIOUS
<1> HIDE DEF s
<1>3. HostShape(L, h, s)
  BY <1>1 DEF HostShape, Claims0, ProbesWith, OwnsRec
<1>4. \A m \in mail' : IsMail(m)
  BY DEF MdnsShape, HostShape, IsHostState, IsMail
<1> QED
  BY <1>1, <1>2, <1>3, <1>4 DEF MdnsShape

LEMMA PostKeeps ==
  ASSUME NEW L, MdnsShape(L), NEW h \in L.hosts, NEW k, HostShape(L, h, k), Mdns(L)!Post(h, k)
  PROVE  MdnsShape(L)'
<1>1. /\ mdns' = [mdns EXCEPT ![h] = [k EXCEPT !.out = {}]]
      /\ mail' \subseteq mail \cup Mdns(L)!Sent(h, k.out)
  BY DEF Mdns!Post
<1>2. \A m \in mail' : m \in mail \/ \E x \in k.out : \E g \in L.hosts : m = [x EXCEPT !.to = g]
  BY <1>1 DEF Mdns!Sent
<1> QED
  BY <1>1, <1>2, MailKeeps

\* An application claims a record.
LEMMA ClaimKeeps ==
  ASSUME NEW L, IsLink(L), MdnsShape(L), NEW h \in L.hosts, NEW t \in L.claims[h],
         \A r \in mdns[h].my : r.type # t
  PROVE  LET n == [name |-> 1, type |-> t, flags |-> {}] IN
         /\ Begins(L, mdns[h], Mdns(L)!ClaimGeneric(h, mdns[h], {n}), n)
         /\ Claims0(mdns[h])
         /\ HostShape(L, h, Mdns(L)!ClaimGeneric(h, mdns[h], {n}))
<1> DEFINE n == [name |-> 1, type |-> t, flags |-> {}]
           k == mdns[h]
           d == Mdns(L)!ClaimGeneric(h, k, {n})
           s == [n EXCEPT !.flags = {"probing"}]
           c == Mdns(L)!Cookie("probe", {RecOf(n)}, L.probes)
<1>1. IsRec(n) /\ n.flags = {} /\ n.type = t
  BY DEF IsRec
<1>2. HostShape(L, h, k)
  BY DEF MdnsShape
<1>3. \A r \in k.my : r.type = t
  BY <1>2 DEF HostShape, IsLink
<1> HIDE DEF n
<1>4. k.my = {}
  BY <1>3
<1> HIDE DEF k
<1>5. Claims0(k) /\ IsHostState(k)
  BY <1>2, <1>4 DEF HostShape, Claims0, ProbesWith, OwnsRec
<1>6. Begins(L, k, d, n)
  BY <1>1, <1>5, ProbingBegins DEF Claims0
<1>7. IsCookie(c)
  BY DEF Mdns!Cookie, IsCookie, IsLink
<1> HIDE DEF d, c
<1>8. d = [k EXCEPT !.my = {s}, !.cookies = @ \cup {c}] /\ ProbesWith(d, s, c) /\ RecOf(s) = RecOf(n)
  BY <1>6 DEF Begins, c
<1>9. s.type = t
  BY <1>1, <1>8 DEF RecOf
<1> HIDE DEF s
<1>10. IsHostState(d) /\ d.my = {s}
  BY <1>5, <1>7, <1>8 DEF IsHostState
<1>11. HostShape(L, h, d)
  BY <1>8, <1>9, <1>10 DEF HostShape
<1> QED
  BY <1>5, <1>6, <1>11 DEF k, d, n

LEMMA TimerKeeps ==
  ASSUME NEW L, IsLink(L), MdnsShape(L), NEW h \in L.hosts, NEW c \in mdns[h].cookies
  PROVE  LET k == mdns[h] IN
         HostShape(L, h, CASE c.kind = "probe" -> Mdns(L)!ProbeTimer(h, k, c)
                           [] c.kind = "query" -> Mdns(L)!QueryTimer(h, k, c)
                           [] c.kind = "announce" -> Mdns(L)!Announcement(h, k, c))
<1> DEFINE k == mdns[h]
<1>1. HostShape(L, h, k) /\ IsCookie(c) /\ c \in k.cookies /\ IsHostState(k)
  BY DEF MdnsShape, HostShape, IsHostState
<1> HIDE DEF k
<1>2. CASE c.kind = "query"
  <2> DEFINE e == Mdns(L)!QueryTimer(h, k, c)
             m == Mdns(L)!Msg(h, "query", c.recs, {})
             d == [c EXCEPT !.status = "active", !.timer = FALSE]
             s == Mdns(L)!Send(k, m)
  <2>1. IsCookie(d) /\ d.kind = "query" /\ IsMail(m)
    BY <1>1, <1>2, MessagesAreMail DEF IsCookie
  <2>2. e = Mdns(L)!DelCookie(k, c) \/ e = Mdns(L)!SetCookie(s, c, d)
    BY DEF Mdns!QueryTimer
  <2> HIDE DEF e, m, d
  <2>3. IsHostState(s) /\ s.my = k.my /\ s.cookies = k.cookies
    BY <1>1, <2>1, MessageIsSent DEF ResponderIs
  <2> HIDE DEF s
  <2>4. IsHostState(e) /\ e.my = k.my /\ (e.cookies = k.cookies \ {c} \/ e.cookies = (k.cookies \ {c}) \cup {d})
    <3>1. CASE e = Mdns(L)!DelCookie(k, c)
      BY <1>1, <3>1, CookieIsDeleted DEF ResponderIs
    <3>2. CASE e = Mdns(L)!SetCookie(s, c, d)
      <4>1. ResponderIs(s, e, s.my, (s.cookies \ {c}) \cup {d}, s.out)
        BY <2>1, <2>3, <3>2, CookieIsSet
      <4> QED
        BY <2>3, <4>1 DEF ResponderIs
    <3> QED
      BY <2>2, <3>1, <3>2
  <2>5. HostShape(L, h, e)
    <3>1. CASE Claims0(k)
      <4>1. Claims0(e)
        BY <2>1, <2>4, <3>1 DEF Claims0, OnlyQueries
      <4> QED
        BY <1>1, <2>4, <4>1 DEF HostShape
    <3>2. ASSUME NEW r, NEW x, ProbesWith(k, r, x)
          PROVE  HostShape(L, h, e)
      <4>1. ProbesWith(e, r, x)
        BY <1>2, <2>1, <2>4, <3>2 DEF ProbesWith, OnlyQueries
      <4> QED
        BY <1>1, <2>4, <4>1 DEF HostShape
    <3>3. ASSUME NEW r, OwnsRec(k, r)
          PROVE  HostShape(L, h, e)
      <4>1. OwnsRec(e, r)
        BY <2>1, <2>4, <3>3 DEF OwnsRec
      <4> QED
        BY <1>1, <2>4, <4>1 DEF HostShape
    <3> QED
      BY <1>1, <3>1, <3>2, <3>3 DEF HostShape
  <2> QED
    BY <1>2, <2>5 DEF e, k
<1>3. CASE c.kind = "probe"
  <2> DEFINE e == Mdns(L)!ProbeTimer(h, k, c)
  <2>1. PICK r, x : ProbesWith(k, r, x)
    BY <1>1, <1>3 DEF HostShape, Claims0, OwnsRec, OnlyQueries
  <2>2. x = c
    BY <1>1, <1>3, <2>1 DEF ProbesWith, OnlyQueries
  <2>3. /\ IsHostState(e)
        /\ \/ \E d : ProbesWith(e, r, d)
           \/ \E s : OwnsRec(e, s) /\ RecOf(s) = RecOf(r)
    BY <1>1, <2>1, <2>2, ProbeTimes DEF TimerProbes
  <2> HIDE DEF e
  <2>4. r.type \in L.claims[h]
    BY <1>1, <2>1 DEF HostShape, ProbesWith
  <2>5. HostShape(L, h, e)
    <3>1. ASSUME NEW d, ProbesWith(e, r, d)
          PROVE  HostShape(L, h, e)
      <4>1. \A y \in e.my : y.type \in L.claims[h]
        BY <2>4, <3>1 DEF ProbesWith
      <4> QED
        BY <2>3, <3>1, <4>1 DEF HostShape
    <3>2. ASSUME NEW s, OwnsRec(e, s), RecOf(s) = RecOf(r)
          PROVE  HostShape(L, h, e)
      <4>1. \A y \in e.my : y.type \in L.claims[h]
        BY <2>4, <3>2 DEF OwnsRec, RecOf
      <4> QED
        BY <2>3, <3>2, <4>1 DEF HostShape
    <3> QED
      BY <2>3, <3>1, <3>2
  <2> QED
    BY <1>3, <2>5 DEF e, k
<1>4. CASE c.kind = "announce"
  <2> DEFINE e == Mdns(L)!Announcement(h, k, c)
  <2>1. PICK r : OwnsRec(k, r)
    BY <1>1, <1>4 DEF HostShape, Claims0, ProbesWith, OnlyQueries
  <2>2. Announces(k, e, r, c, Mdns(L)!Msg(h, "answer", c.recs, {}))
    BY <1>1, <2>1, RecordIsAnnounced DEF OwnsRec
  <2> HIDE DEF e
  <2>3. PICK s : e.my = {s} /\ Same(r, s)
    BY <2>2 DEF Announces
  <2>4. \A x \in e.cookies : x.kind # "probe"
    BY <2>1, <2>2 DEF Announces, OwnsRec
  <2>5. OwnsRec(e, s) /\ IsHostState(e)
    BY <2>2, <2>3, <2>4 DEF OwnsRec, Same, Announces
  <2>6. \A y \in e.my : y.type \in L.claims[h]
    BY <1>1, <2>1, <2>3 DEF HostShape, OwnsRec, Same, RecOf
  <2>7. HostShape(L, h, e)
    BY <2>5, <2>6 DEF HostShape
  <2> QED
    BY <1>4, <2>7 DEF e, k
<1> QED
  BY <1>1, <1>2, <1>3, <1>4 DEF IsCookie, k

LEMMA HandledKeeps ==
  ASSUME NEW L, IsLink(L), NEW h, NEW k, HostShape(L, h, k), NEW m, IsMail(m),
         NEW d \in Mdns(L)!Handled(h, k, m)
  PROVE  HostShape(L, h, d)
<1>1. CASE m.kind = "answer"
  <2>1. d \in Mdns(L)!Each(h, k, m)
    BY <1>1 DEF Mdns!Handled
  <2> QED
    BY <2>1, EachKeeps
<1>2. CASE m.kind = "query"
  <2>1. \E q \in m.recs : d = Mdns(L)!Question(h, k, q.name, {q.type})
    BY <1>2 DEF Mdns!Handled
  <2> QED
    BY <2>1, QuestionShape
<1>3. CASE m.kind = "probe"
  <2>1. d \in UNION {Mdns(L)!Each(h, Mdns(L)!Question(h, k, a.name, {"A", "TXT"}), m) : a \in m.auth}
    BY <1>3 DEF Mdns!Handled
  <2>2. PICK a \in m.auth : d \in Mdns(L)!Each(h, Mdns(L)!Question(h, k, a.name, {"A", "TXT"}), m)
    BY <2>1
  <2> DEFINE e == Mdns(L)!Question(h, k, a.name, {"A", "TXT"})
  <2>3. HostShape(L, h, e)
    BY QuestionShape
  <2>4. d \in Mdns(L)!Each(h, e, m)
    BY <2>2
  <2> HIDE DEF e
  <2> QED
    BY <2>3, <2>4, EachKeeps
<1> QED
  BY <1>1, <1>2, <1>3 DEF IsMail

LEMMA MdnsStep ==
  ASSUME NEW L, IsLink(L), MdnsShape(L), Mdns(L)!Next \/ UNCHANGED Mdns(L)!vars
  PROVE  MdnsShape(L)'
<1>1. CASE UNCHANGED Mdns(L)!vars
  BY <1>1 DEF Mdns!vars, MdnsShape
<1> SUFFICES ASSUME NEW h \in L.hosts,
                    \/ Mdns(L)!Claim(h) \/ Mdns(L)!Timer(h) \/ Mdns(L)!Receive(h)
                    \/ Mdns(L)!GetRecord(h) \/ Mdns(L)!CookieExpires(h) \/ Mdns(L)!RecordExpires(h)
             PROVE  MdnsShape(L)'
  BY <1>1, Zenon DEF Mdns!Next
<1> DEFINE k == mdns[h]
<1>2. HostShape(L, h, k) /\ IsHostState(k)
  BY DEF MdnsShape, HostShape
<1>3. CASE Mdns(L)!Claim(h)
  <2>1. PICK t \in L.claims[h] :
          /\ \A r \in mdns[h].my : r.type # t
          /\ Mdns(L)!Post(h, Mdns(L)!ClaimGeneric(h, mdns[h], {[name |-> 1, type |-> t, flags |-> {}]}))
    BY <1>3 DEF Mdns!Claim
  <2>2. HostShape(L, h, Mdns(L)!ClaimGeneric(h, mdns[h], {[name |-> 1, type |-> t, flags |-> {}]}))
    BY <2>1, ClaimKeeps
  <2> QED
    BY <2>1, <2>2, PostKeeps
<1>4. CASE Mdns(L)!Timer(h)
  <2>1. PICK c \in mdns[h].cookies :
          Mdns(L)!Post(h, CASE c.kind = "probe" -> Mdns(L)!ProbeTimer(h, mdns[h], c)
                            [] c.kind = "query" -> Mdns(L)!QueryTimer(h, mdns[h], c)
                            [] c.kind = "announce" -> Mdns(L)!Announcement(h, mdns[h], c))
    BY <1>4, Zenon DEF Mdns!Timer
  <2>2. HostShape(L, h, CASE c.kind = "probe" -> Mdns(L)!ProbeTimer(h, mdns[h], c)
                          [] c.kind = "query" -> Mdns(L)!QueryTimer(h, mdns[h], c)
                          [] c.kind = "announce" -> Mdns(L)!Announcement(h, mdns[h], c))
    BY TimerKeeps
  <2> QED
    BY <2>1, <2>2, PostKeeps, Zenon
<1>5. CASE Mdns(L)!Receive(h)
  <2>0. PICK m \in mail : \E d \in Mdns(L)!Handled(h, mdns[h], m) :
          /\ mdns' = [mdns EXCEPT ![h] = [d EXCEPT !.out = {}]]
          /\ mail' = (IF L.reliable THEN mail \ {m} ELSE mail) \cup Mdns(L)!Sent(h, d.out)
    BY <1>5 DEF Mdns!Receive
  <2>1. PICK d \in Mdns(L)!Handled(h, mdns[h], m) :
          /\ mdns' = [mdns EXCEPT ![h] = [d EXCEPT !.out = {}]]
          /\ mail' = (IF L.reliable THEN mail \ {m} ELSE mail) \cup Mdns(L)!Sent(h, d.out)
    BY <2>0
  <2>3. IsMail(m)
    BY DEF MdnsShape
  <2>4. HostShape(L, h, d)
    BY <1>2, <2>3, HandledKeeps
  <2>5. \A x \in mail' : x \in mail \/ \E y \in d.out : \E g \in L.hosts : x = [y EXCEPT !.to = g]
    BY <2>1 DEF Mdns!Sent
  <2> QED
    BY <2>1, <2>4, <2>5, MailKeeps
<1>6. CASE Mdns(L)!GetRecord(h)
  <2>1. PICK q : Mdns(L)!Post(h, [k EXCEPT !.cookies = @ \cup {Mdns(L)!Cookie("query", {q}, 1)}])
    BY <1>6 DEF Mdns!GetRecord
  <2> DEFINE c == Mdns(L)!Cookie("query", {q}, 1)
             e == [k EXCEPT !.cookies = @ \cup {c}]
  <2>2. IsCookie(c) /\ c.kind = "query"
    BY DEF Mdns!Cookie, IsCookie
  <2>3. Mdns(L)!Post(h, e)
    BY <2>1
  <2> HIDE DEF c, k
  <2>4. IsHostState(e) /\ e.my = k.my /\ e.cookies = k.cookies \cup {c}
    BY <1>2, <2>2 DEF IsHostState
  <2> HIDE DEF e
  <2>5. HostShape(L, h, e)
    BY <1>2, <2>2, <2>4 DEF HostShape, Claims0, ProbesWith, OwnsRec, OnlyQueries
  <2> QED
    BY <2>3, <2>5, PostKeeps
<1>7. CASE Mdns(L)!CookieExpires(h)
  <2>1. PICK c \in k.cookies : c.kind = "query" /\ Mdns(L)!Post(h, Mdns(L)!DelCookie(k, c))
    BY <1>7 DEF Mdns!CookieExpires
  <2> DEFINE e == Mdns(L)!DelCookie(k, c)
  <2>2. Mdns(L)!Post(h, e)
    BY <2>1
  <2> HIDE DEF k
  <2>3. IsHostState(e) /\ e.my = k.my /\ e.cookies = k.cookies \ {c}
    BY <1>2, CookieIsDeleted DEF ResponderIs
  <2> HIDE DEF e
  <2>4. HostShape(L, h, e)
    BY <1>2, <2>1, <2>3 DEF HostShape, Claims0, ProbesWith, OwnsRec, OnlyQueries
  <2> QED
    BY <2>2, <2>4, PostKeeps
<1>8. CASE Mdns(L)!RecordExpires(h)
  <2>1. PICK r : Mdns(L)!Post(h, [k EXCEPT !.cache = @ \ {r}])
    BY <1>8 DEF Mdns!RecordExpires
  <2> DEFINE e == [k EXCEPT !.cache = @ \ {r}]
  <2>2. Mdns(L)!Post(h, e)
    BY <2>1
  <2> HIDE DEF k
  <2>3. IsHostState(e) /\ e.my = k.my /\ e.cookies = k.cookies
    BY <1>2 DEF IsHostState
  <2> HIDE DEF e
  <2>4. HostShape(L, h, e)
    BY <1>2, <2>3 DEF HostShape, Claims0, ProbesWith, OwnsRec
  <2> QED
    BY <2>2, <2>4, PostKeeps
<1> QED
  BY <1>3, <1>4, <1>5, <1>6, <1>7, <1>8

LEMMA MdnsMeans ==
  ASSUME NEW L, MdnsShape(L)
  PROVE  Mdns(L)!TypeOK /\ Mdns(L)!ProbingHasCookie
<1>1. ASSUME NEW h \in L.hosts, NEW r \in mdns[h].my
      PROVE  /\ Mdns(L)!Of(mdns[h].my, r) = {r}
             /\ "claimed" \in r.flags => "probed" \in r.flags
             /\ ~({"probing", "probed"} \subseteq r.flags)
             /\ "probing" \in r.flags =>
                  \E c \in mdns[h].cookies : c.kind = "probe" /\ c.timer /\ Mdns(L)!Rec(r) \in c.recs
  <2> DEFINE k == mdns[h]
  <2>1. HostShape(L, h, k) /\ r \in k.my
    BY <1>1 DEF MdnsShape
  <2> HIDE DEF k
  <2>2. Mdns(L)!Of(k.my, r) = {r}
    BY <2>1 DEF HostShape, Claims0, ProbesWith, OwnsRec, Mdns!Of
  <2>3. ASSUME NEW s, NEW c, ProbesWith(k, s, c)
        PROVE  /\ "probed" \notin r.flags /\ "claimed" \notin r.flags
               /\ c \in k.cookies /\ c.kind = "probe" /\ c.timer /\ Mdns(L)!Rec(r) \in c.recs
    BY <2>1, <2>3 DEF ProbesWith, Mdns!Rec, RecOf
  <2>4. ASSUME NEW s, OwnsRec(k, s)
        PROVE  "probed" \in r.flags /\ "probing" \notin r.flags
    BY <2>1, <2>4 DEF OwnsRec
  <2>5. k.my # {}
    BY <2>1
  <2> QED
    BY <2>1, <2>2, <2>3, <2>4, <2>5 DEF HostShape, Claims0, k
<1>2. \A h \in L.hosts : mdns[h].out = {}
  BY DEF MdnsShape
<1> QED
  BY <1>1, <1>2, Zenon DEF Mdns!TypeOK, Mdns!ProbingHasCookie

\* A link that loses nothing, where all claim records of one type and nobody asks.
IsQuiet(L, t) ==
  /\ IsLink(L) /\ L.reliable = TRUE /\ L.queries = {} /\ t \in {"A", "TXT"}
  /\ \A h \in L.hosts : L.claims[h] \subseteq {t}
HasRec(k, x) == \E r : OwnsRec(k, r) /\ RecOf(r) = x
\* A probe for the record was sent since its probing began.
Asks(L, k, x) == \E r, c : ProbesWith(k, r, c) /\ RecOf(r) = x /\ c.count # L.probes
ProbeMail(g, h, x) == [from |-> g, to |-> h, kind |-> "probe", recs |-> {}, auth |-> {x}]
AnswerMail(g, h, x) == [from |-> g, to |-> h, kind |-> "answer", recs |-> {x}, auth |-> {}]
QuietHost(L, k) ==
  /\ \A c \in k.cookies : c.kind # "query"
  /\ \A r, c : ProbesWith(k, r, c) /\ c.count # L.probes => c.status = "active"
  /\ \A r : OwnsRec(k, r) => \A c \in k.cookies : c.recs = {RecOf(r)}
IsSent(hosts, m, at, t) ==
  /\ m.from \in hosts /\ m.to \in hosts /\ m.from # m.to
  /\ \E x : /\ x.type = t
            /\ m = ProbeMail(m.from, m.to, x) \/ (m = AnswerMail(m.from, m.to, x) /\ HasRec(at[m.from], x))
\* Who has a record has heard of the host that asks for it, or has answered.
Hears(net, g, h, x) == ProbeMail(h, g, x) \in net \/ AnswerMail(g, h, x) \in net
MdnsUnique(L, t) ==
  /\ MdnsShape(L)
  /\ \A h \in L.hosts : QuietHost(L, mdns[h])
  /\ \A g, h \in L.hosts : g # h => \A x :
       /\ ~(HasRec(mdns[g], x) /\ HasRec(mdns[h], x))
       /\ HasRec(mdns[g], x) /\ Asks(L, mdns[h], x) => Hears(mail, g, h, x)
  /\ \A m \in mail : IsSent(L.hosts, m, mdns, t)

LEMMA UniqueInitially ==
  ASSUME NEW L, NEW t, IsQuiet(L, t), Mdns(L)!Init
  PROVE  MdnsUnique(L, t)
<1>1. MdnsShape(L) /\ mail = {} /\ mdns = [h \in L.hosts |-> Mdns(L)!Idle]
  BY MdnsInitially DEF Mdns!Init
<1>2. Mdns(L)!Idle.my = {} /\ Mdns(L)!Idle.cookies = {}
  BY DEF Mdns!Idle
<1>3. /\ \A x : ~HasRec(Mdns(L)!Idle, x)
      /\ QuietHost(L, Mdns(L)!Idle)
  BY <1>2 DEF HasRec, OwnsRec, QuietHost, ProbesWith
<1> QED
  BY <1>1, <1>3 DEF MdnsUnique

\* One host moves, and keeps the record it has.
LEMMA MdnsMoves ==
  ASSUME NEW L, NEW t, MdnsUnique(L, t), MdnsShape(L)', NEW h \in L.hosts, NEW s,
         mdns' = [mdns EXCEPT ![h] = s], QuietHost(L, s),
         \A x : HasRec(mdns[h], x) => HasRec(s, x),
         \A x : HasRec(s, x) => \/ HasRec(mdns[h], x)
                                \/ \A g \in L.hosts \ {h} : ~HasRec(mdns[g], x),
         \A g \in L.hosts \ {h} : \A x :
           /\ HasRec(mdns[g], x) /\ Asks(L, s, x) => Hears(mail', g, h, x)
           /\ HasRec(s, x) /\ Asks(L, mdns[g], x) => Hears(mail', h, g, x),
         \A m \in mail : m.from # h /\ m.to # h => m \in mail',
         \A m \in mail' : m \in mail \/ (m.from = h /\ IsSent(L.hosts, m, [mdns EXCEPT ![h] = s], t))
  PROVE  MdnsUnique(L, t)'
<1>1. DOMAIN mdns = L.hosts
  BY DEF MdnsUnique, MdnsShape
<1>2. mdns'[h] = s /\ \A g \in L.hosts \ {h} : mdns'[g] = mdns[g]
  BY <1>1
<1>3. \A g \in L.hosts : QuietHost(L, mdns'[g])
  BY <1>2 DEF MdnsUnique
<1>4. \A m \in mail' : IsSent(L.hosts, m, mdns', t)
  <2> SUFFICES ASSUME NEW m \in mail' PROVE IsSent(L.hosts, m, mdns', t)
    OBVIOUS
  <2>1. CASE m \in mail
    <3>1. IsSent(L.hosts, m, mdns, t)
      BY <2>1 DEF MdnsUnique
    <3>2. m.from \in L.hosts /\ \A x : HasRec(mdns[m.from], x) => HasRec(mdns'[m.from], x)
      BY <1>2, <3>1 DEF IsSent
    <3> QED
      BY <3>1, <3>2 DEF IsSent
  <2>2. CASE m \notin mail
    BY <2>2, Zenon
  <2> QED
    BY <2>1, <2>2
<1>5. ASSUME NEW f \in L.hosts, NEW g \in L.hosts, f # g, NEW x
      PROVE  /\ ~(HasRec(mdns'[f], x) /\ HasRec(mdns'[g], x))
             /\ HasRec(mdns'[f], x) /\ Asks(L, mdns'[g], x) => Hears(mail', f, g, x)
  <2>1. /\ ~(HasRec(mdns[f], x) /\ HasRec(mdns[g], x))
        /\ HasRec(mdns[f], x) /\ Asks(L, mdns[g], x) => Hears(mail, f, g, x)
    BY <1>5 DEF MdnsUnique
  <2>2. CASE f = h
    <3>1. mdns'[f] = s /\ mdns'[g] = mdns[g] /\ g \in L.hosts \ {h}
      BY <1>2, <1>5, <2>2
    <3> QED
      BY <2>1, <2>2, <3>1
  <2>3. CASE g = h
    <3>1. mdns'[g] = s /\ mdns'[f] = mdns[f] /\ f \in L.hosts \ {h}
      BY <1>2, <1>5, <2>3
    <3> QED
      BY <2>1, <2>3, <3>1
  <2>4. CASE f # h /\ g # h
    <3>1. mdns'[g] = mdns[g] /\ mdns'[f] = mdns[f]
      BY <1>2, <2>4
    <3>2. Hears(mail, f, g, x) => Hears(mail', f, g, x)
      BY <2>4 DEF Hears, ProbeMail, AnswerMail
    <3> QED
      BY <2>1, <3>1, <3>2
  <2> QED
    BY <2>2, <2>3, <2>4
<1> QED
  BY <1>3, <1>4, <1>5 DEF MdnsUnique

\* The state of a host is what its records and cookies are.
LEMMA HostsAlike ==
  ASSUME NEW L, NEW k, NEW s, s.my = k.my, s.cookies = k.cookies
  PROVE  /\ \A x : HasRec(s, x) <=> HasRec(k, x)
         /\ \A x : Asks(L, s, x) <=> Asks(L, k, x)
         /\ QuietHost(L, s) <=> QuietHost(L, k)
<1>1. \A r : OwnsRec(s, r) <=> OwnsRec(k, r)
  BY DEF OwnsRec
<1>2. \A r, c : ProbesWith(s, r, c) <=> ProbesWith(k, r, c)
  BY DEF ProbesWith
<1> QED
  BY <1>1, <1>2 DEF HasRec, Asks, QuietHost

LEMMA ProbeMeans ==
  ASSUME NEW L, NEW k, NEW r, NEW c, ProbesWith(k, r, c), \A x \in k.cookies : x.kind # "query"
  PROVE  /\ k.cookies = {c}
         /\ \A r1, c1 : ProbesWith(k, r1, c1) => r1 = r /\ c1 = c
         /\ \A x : ~HasRec(k, x)
         /\ (c.count # L.probes => c.status = "active") => QuietHost(L, k)
         /\ \A x : Asks(L, k, x) => x = RecOf(r) /\ c.count # L.probes
<1>1. k.cookies = {c}
  BY DEF ProbesWith, OnlyQueries
<1>2. \A r1, c1 : ProbesWith(k, r1, c1) => r1 = r /\ c1 = c
  BY <1>1 DEF ProbesWith
<1>3. \A r1 : ~OwnsRec(k, r1)
  BY DEF OwnsRec, ProbesWith
<1> QED
  BY <1>1, <1>2, <1>3 DEF HasRec, QuietHost, Asks

LEMMA OwnMeans ==
  ASSUME NEW L, NEW k, NEW r, OwnsRec(k, r)
  PROVE  /\ \A x : HasRec(k, x) <=> x = RecOf(r)
         /\ \A x : ~Asks(L, k, x)
         /\ (\A c \in k.cookies : c.kind # "query" /\ c.recs = {RecOf(r)}) => QuietHost(L, k)
<1>1. \A s : OwnsRec(k, s) => s = r
  BY DEF OwnsRec
<1>2. \A s, c : ~ProbesWith(k, s, c)
  BY DEF OwnsRec, ProbesWith
<1> QED
  BY <1>1, <1>2 DEF HasRec, Asks, QuietHost

LEMMA NothingMeans ==
  ASSUME NEW L, NEW k, Claims0(k), \A c \in k.cookies : c.kind # "query"
  PROVE  (\A x : ~HasRec(k, x)) /\ (\A x : ~Asks(L, k, x)) /\ QuietHost(L, k)
BY DEF Claims0, HasRec, Asks, QuietHost, OwnsRec, ProbesWith

\* What a message to all of the others is.
ProbeGoesOut(L, h, x, out) ==
  \A y : y \in Mdns(L)!Sent(h, out) <=> \E g \in L.hosts \ {h} : y = ProbeMail(h, g, x)
AnswerGoesOut(L, h, x, out) ==
  \A y : y \in Mdns(L)!Sent(h, out) <=> \E g \in L.hosts \ {h} : y = AnswerMail(h, g, x)

LEMMA ProbeIsSent ==
  ASSUME NEW L, NEW h, NEW x
  PROVE  ProbeGoesOut(L, h, x, {Mdns(L)!Msg(h, "probe", {}, {x})})
<1> DEFINE m == Mdns(L)!Msg(h, "probe", {}, {x})
<1>1. \A g : [m EXCEPT !.to = g] = ProbeMail(h, g, x)
  BY DEF Mdns!Msg, ProbeMail
<1> HIDE DEF m
<1>2. \A out : \A y : y \in Mdns(L)!Sent(h, out) <=> \E z \in out : \E g \in L.hosts \ {h} : y = [z EXCEPT !.to = g]
  BY DEF Mdns!Sent
<1>3. \A y : y \in Mdns(L)!Sent(h, {m}) <=> \E g \in L.hosts \ {h} : y = [m EXCEPT !.to = g]
  BY <1>2
<1>4. \A y : (\E g \in L.hosts \ {h} : y = [m EXCEPT !.to = g]) <=> \E g \in L.hosts \ {h} : y = ProbeMail(h, g, x)
  BY <1>1, Zenon
<1>5. \A y : y \in Mdns(L)!Sent(h, {m}) <=> \E g \in L.hosts \ {h} : y = ProbeMail(h, g, x)
  BY <1>3, <1>4, Zenon
<1> QED
  BY <1>5, Zenon DEF m, ProbeGoesOut

LEMMA AnswerIsSent ==
  ASSUME NEW L, NEW h, NEW x
  PROVE  AnswerGoesOut(L, h, x, {Mdns(L)!Msg(h, "answer", {x}, {})})
<1> DEFINE m == Mdns(L)!Msg(h, "answer", {x}, {})
<1>1. \A g : [m EXCEPT !.to = g] = AnswerMail(h, g, x)
  BY DEF Mdns!Msg, AnswerMail
<1> HIDE DEF m
<1>2. \A out : \A y : y \in Mdns(L)!Sent(h, out) <=> \E z \in out : \E g \in L.hosts \ {h} : y = [z EXCEPT !.to = g]
  BY DEF Mdns!Sent
<1>3. \A y : y \in Mdns(L)!Sent(h, {m}) <=> \E g \in L.hosts \ {h} : y = [m EXCEPT !.to = g]
  BY <1>2
<1>4. \A y : (\E g \in L.hosts \ {h} : y = [m EXCEPT !.to = g]) <=> \E g \in L.hosts \ {h} : y = AnswerMail(h, g, x)
  BY <1>1, Zenon
<1>5. \A y : y \in Mdns(L)!Sent(h, {m}) <=> \E g \in L.hosts \ {h} : y = AnswerMail(h, g, x)
  BY <1>3, <1>4, Zenon
<1> QED
  BY <1>5, Zenon DEF m, AnswerGoesOut

LEMMA NothingSent ==
  ASSUME NEW L, NEW h
  PROVE  Mdns(L)!Sent(h, {}) = {}
BY DEF Mdns!Sent

\* An application claims a record, when the link is quiet.
LEMMA ClaimIsUnique ==
  ASSUME NEW L, NEW t, IsQuiet(L, t), MdnsUnique(L, t), MdnsShape(L)', NEW h \in L.hosts, Mdns(L)!Claim(h)
  PROVE  MdnsUnique(L, t)'
<1>1. PICK u \in L.claims[h] :
        /\ Mdns(L)!Quiet /\ \A r \in mdns[h].my : r.type # u
        /\ Mdns(L)!Post(h, Mdns(L)!ClaimGeneric(h, mdns[h], {[name |-> 1, type |-> u, flags |-> {}]}))
  BY DEF Mdns!Claim
<1> DEFINE k == mdns[h]
           n == [name |-> 1, type |-> u, flags |-> {}]
           d == Mdns(L)!ClaimGeneric(h, k, {n})
           s == [d EXCEPT !.out = {}]
<1>2. mail = {}
  BY <1>1 DEF Mdns!Quiet, IsQuiet
<1>3. Begins(L, k, d, n) /\ Claims0(k) /\ HostShape(L, h, d)
  BY <1>1, ClaimKeeps DEF IsQuiet, MdnsUnique
<1>4. mdns' = [mdns EXCEPT ![h] = s] /\ mail' = (mail \ {m \in mail : m.to = h}) \cup Mdns(L)!Sent(h, d.out)
  BY <1>1 DEF Mdns!Post, IsQuiet
<1>5. k.out = {} /\ IsHostState(k) /\ QuietHost(L, k)
  BY DEF MdnsUnique, MdnsShape, HostShape
<1> DEFINE r == [n EXCEPT !.flags = {"probing"}]
           c == Mdns(L)!Cookie("probe", {RecOf(n)}, L.probes)
<1> HIDE DEF k, d, n
<1>6. /\ ProbesWith(d, r, c) /\ d = [k EXCEPT !.my = {r}, !.cookies = @ \cup {c}]
      /\ c.count = L.probes /\ c.kind = "probe"
  BY <1>3 DEF Begins, Mdns!Cookie
<1> HIDE DEF r, c
<1>7. d.out = {} /\ d.cookies = k.cookies \cup {c} /\ DOMAIN d = {"my", "cookies", "cache", "out"}
  BY <1>5, <1>6 DEF IsHostState
<1>8. s.my = d.my /\ s.cookies = d.cookies
  BY <1>7
<1> HIDE DEF s
<1>9. mail' = {}
  BY <1>2, <1>4, <1>7, NothingSent
<1>10. \A x \in d.cookies : x.kind # "query"
  BY <1>5, <1>6, <1>7 DEF QuietHost
<1>11. /\ QuietHost(L, d) /\ \A x : ~HasRec(d, x) /\ ~Asks(L, d, x)
  <2>1. ProbesWith(d, r, c)
    BY <1>6
  <2>2. /\ \A x : ~HasRec(d, x)
        /\ (c.count # L.probes => c.status = "active") => QuietHost(L, d)
        /\ \A x : Asks(L, d, x) => x = RecOf(r) /\ c.count # L.probes
    BY <1>10, <2>1, ProbeMeans, Zenon
  <2> QED
    BY <1>6, <2>2
<1>12. QuietHost(L, s) /\ \A x : ~HasRec(s, x) /\ ~Asks(L, s, x)
  BY <1>8, <1>11, HostsAlike
<1>13. \A x : ~HasRec(k, x)
  BY <1>3, <1>5, NothingMeans DEF QuietHost
<1> QED
  BY <1>2, <1>4, <1>9, <1>12, <1>13, MdnsMoves DEF k

\* The timer of the cookie of a host.
LEMMA TimerIsUnique ==
  ASSUME NEW L, NEW t, IsQuiet(L, t), MdnsUnique(L, t), MdnsShape(L)', NEW h \in L.hosts, Mdns(L)!Timer(h)
  PROVE  MdnsUnique(L, t)'
<1> DEFINE k == mdns[h]
<1>1. PICK c \in mdns[h].cookies :
        /\ Mdns(L)!Quiet
        /\ Mdns(L)!Post(h, CASE c.kind = "probe" -> Mdns(L)!ProbeTimer(h, mdns[h], c)
                             [] c.kind = "query" -> Mdns(L)!QueryTimer(h, mdns[h], c)
                             [] c.kind = "announce" -> Mdns(L)!Announcement(h, mdns[h], c))
  BY Zenon DEF Mdns!Timer
<1>2. mail = {} /\ IsLink(L)
  BY <1>1 DEF Mdns!Quiet, IsQuiet
<1>3. HostShape(L, h, k) /\ IsHostState(k) /\ k.out = {} /\ QuietHost(L, k) /\ c \in k.cookies /\ IsCookie(c)
  BY DEF MdnsUnique, MdnsShape, HostShape, IsHostState
<1>4. \A r \in k.my : r.type = t
  BY <1>3 DEF HostShape, IsQuiet
<1>5. \A g \in L.hosts \ {h} : \A x :
        /\ ~(HasRec(mdns[g], x) /\ HasRec(k, x))
        /\ ~(HasRec(mdns[g], x) /\ Asks(L, k, x))
        /\ ~(HasRec(k, x) /\ Asks(L, mdns[g], x))
  BY <1>2 DEF MdnsUnique, Hears
<1>6. ASSUME NEW e, Mdns(L)!Post(h, e)
      PROVE  mdns' = [mdns EXCEPT ![h] = [e EXCEPT !.out = {}]] /\ mail' = Mdns(L)!Sent(h, e.out)
  BY <1>2, <1>6 DEF Mdns!Post, IsQuiet
<1>7. CASE c.kind = "probe"
  <2> DEFINE e == Mdns(L)!ProbeTimer(h, k, c)
             s == [e EXCEPT !.out = {}]
  <2>1. mdns' = [mdns EXCEPT ![h] = s] /\ mail' = Mdns(L)!Sent(h, e.out)
    BY <1>1, <1>6, <1>7
  <2> HIDE DEF k
  <2>2. PICK r : ProbesWith(k, r, c)
    BY <1>3, <1>7 DEF HostShape, Claims0, OwnsRec, ProbesWith, OnlyQueries
  <2>3. r.type = t
    BY <1>4, <2>2 DEF ProbesWith
  <2>4. k.cookies = {c} /\ \A x : ~HasRec(k, x)
    BY <1>3, <2>2, ProbeMeans DEF QuietHost
  <2>5a. TimerProbes(L, h, k, e, r, c)
    BY <1>2, <1>3, <2>2, ProbeTimes
  <2> HIDE DEF e
  <2>5. /\ IsHostState(e)
        /\ c.count > 0 =>
             /\ ProbesWith(e, r, [c EXCEPT !.status = "active", !.count = @ - 1])
             /\ e.out = {Mdns(L)!Msg(h, "probe", {}, {RecOf(r)})}
        /\ ~(c.count > 0) =>
             /\ \E x : OwnsRec(e, x) /\ RecOf(x) = RecOf(r)
             /\ \A x \in e.cookies : x.kind = "query" \/ x.recs = {RecOf(r)}
             /\ e.out = {Mdns(L)!Msg(h, "answer", {RecOf(r)}, {})}
    BY <1>3, <2>5a DEF TimerProbes
  <2>6. s.my = e.my /\ s.cookies = e.cookies
    BY <2>5 DEF IsHostState
  <2> HIDE DEF s
  <2>7. \A x \in e.cookies : x.kind # "query"
    BY <1>3, <2>5a DEF QuietHost, TimerProbes
  <2>8. CASE c.count > 0
    <3> DEFINE d == [c EXCEPT !.status = "active", !.count = @ - 1]
    <3>1. d.status = "active"
      BY <1>3 DEF IsCookie
    <3>2. ProbesWith(e, r, d) /\ e.out = {Mdns(L)!Msg(h, "probe", {}, {RecOf(r)})}
      BY <2>5, <2>8
    <3> HIDE DEF d
    <3>3. QuietHost(L, e) /\ (\A x : ~HasRec(e, x)) /\ \A x : Asks(L, e, x) => x = RecOf(r)
      <4>1. /\ \A x : ~HasRec(e, x)
            /\ (d.count # L.probes => d.status = "active") => QuietHost(L, e)
            /\ \A x : Asks(L, e, x) => x = RecOf(r) /\ d.count # L.probes
        BY <2>7, <3>2, ProbeMeans, Zenon
      <4> QED
        BY <3>1, <4>1
    <3>4. QuietHost(L, s) /\ (\A x : ~HasRec(s, x)) /\ \A x : Asks(L, s, x) => x = RecOf(r)
      BY <2>6, <3>3, HostsAlike
    <3>5. \A y : y \in mail' <=> \E g \in L.hosts \ {h} : y = ProbeMail(h, g, RecOf(r))
      BY <2>1, <3>2, ProbeIsSent DEF ProbeGoesOut
    <3>6. \A g \in L.hosts \ {h} : \A x :
            /\ HasRec(mdns[g], x) /\ Asks(L, s, x) => Hears(mail', g, h, x)
            /\ HasRec(s, x) /\ Asks(L, mdns[g], x) => Hears(mail', h, g, x)
      BY <3>4, <3>5 DEF Hears
    <3>7. \A m \in mail' : m.from = h /\ IsSent(L.hosts, m, [mdns EXCEPT ![h] = s], t)
      <4> SUFFICES ASSUME NEW m \in mail'
                   PROVE  m.from = h /\ IsSent(L.hosts, m, [mdns EXCEPT ![h] = s], t)
        OBVIOUS
      <4>1. PICK g \in L.hosts \ {h} : m = ProbeMail(h, g, RecOf(r))
        BY <3>5
      <4>2. m.from = h /\ m.to = g /\ RecOf(r).type = t
        BY <2>3, <4>1 DEF ProbeMail, RecOf
      <4> QED
        BY <4>1, <4>2 DEF IsSent
    <3> QED
      BY <1>2, <2>1, <2>4, <3>4, <3>6, <3>7, MdnsMoves DEF k
  <2>9. CASE ~(c.count > 0)
    <3>1. PICK r1 : OwnsRec(e, r1) /\ RecOf(r1) = RecOf(r)
      BY <2>5, <2>9
    <3>2. (\A x \in e.cookies : x.recs = {RecOf(r)}) /\ e.out = {Mdns(L)!Msg(h, "answer", {RecOf(r)}, {})}
      BY <2>5, <2>7, <2>9
    <3>3. QuietHost(L, e) /\ (\A x : HasRec(e, x) <=> x = RecOf(r)) /\ \A x : ~Asks(L, e, x)
      BY <2>7, <3>1, <3>2, OwnMeans
    <3>4. QuietHost(L, s) /\ (\A x : HasRec(s, x) <=> x = RecOf(r)) /\ \A x : ~Asks(L, s, x)
      BY <2>6, <3>3, HostsAlike
    <3>5. \A y : y \in mail' <=> \E g \in L.hosts \ {h} : y = AnswerMail(h, g, RecOf(r))
      BY <2>1, <3>2, AnswerIsSent DEF AnswerGoesOut
    <3>6. \A g \in L.hosts \ {h} : \A x :
            /\ HasRec(mdns[g], x) /\ Asks(L, s, x) => Hears(mail', g, h, x)
            /\ HasRec(s, x) /\ Asks(L, mdns[g], x) => Hears(mail', h, g, x)
      BY <3>4, <3>5 DEF Hears
    <3>7. \A m \in mail' : m.from = h /\ IsSent(L.hosts, m, [mdns EXCEPT ![h] = s], t)
      <4> SUFFICES ASSUME NEW m \in mail'
                   PROVE  m.from = h /\ IsSent(L.hosts, m, [mdns EXCEPT ![h] = s], t)
        OBVIOUS
      <4>1. PICK g \in L.hosts \ {h} : m = AnswerMail(h, g, RecOf(r))
        BY <3>5
      <4>2. m.from = h /\ m.to = g /\ RecOf(r).type = t
        BY <2>3, <4>1 DEF AnswerMail, RecOf
      <4>3. DOMAIN mdns = L.hosts
        BY DEF MdnsUnique, MdnsShape
      <4>4. HasRec([mdns EXCEPT ![h] = s][h], RecOf(r))
        BY <3>4, <4>3
      <4> QED
        BY <4>1, <4>2, <4>4 DEF IsSent
    <3>8. Asks(L, k, RecOf(r))
      <4>1. c.count # L.probes
        BY <1>2, <1>3, <2>9 DEF IsLink, IsCookie
      <4> QED
        BY <2>2, <4>1, Zenon DEF Asks
    <3>9. \A g \in L.hosts \ {h} : ~HasRec(mdns[g], RecOf(r))
      BY <1>5, <3>8
    <3>10. \A x : HasRec(mdns[h], x) => HasRec(s, x)
      BY <2>4 DEF k
    <3>11. \A x : HasRec(s, x) => \/ HasRec(mdns[h], x)
                                 \/ \A g \in L.hosts \ {h} : ~HasRec(mdns[g], x)
      BY <3>4, <3>9
    <3>12. /\ mdns' = [mdns EXCEPT ![h] = s] /\ QuietHost(L, s)
           /\ \A m \in mail : m.from # h /\ m.to # h => m \in mail'
      BY <1>2, <2>1, <3>4
    <3> QED
      BY <3>6, <3>7, <3>10, <3>11, <3>12, MdnsMoves, Zenon
  <2> QED
    BY <2>8, <2>9
<1>8. CASE c.kind = "announce"
  <2> DEFINE e == Mdns(L)!Announcement(h, k, c)
             s == [e EXCEPT !.out = {}]
  <2>1. mdns' = [mdns EXCEPT ![h] = s] /\ mail' = Mdns(L)!Sent(h, e.out)
    BY <1>1, <1>6, <1>8
  <2> HIDE DEF k
  <2>2. PICK r : OwnsRec(k, r)
    BY <1>3, <1>8 DEF HostShape, Claims0, ProbesWith, OnlyQueries
  <2>3. r.type = t /\ c.recs = {RecOf(r)}
    BY <1>3, <1>4, <2>2 DEF OwnsRec, QuietHost
  <2>4. Announces(k, e, r, c, Mdns(L)!Msg(h, "answer", c.recs, {}))
    BY <1>3, <2>2, RecordIsAnnounced DEF OwnsRec
  <2> HIDE DEF e
  <2>5. PICK r1 : e.my = {r1} /\ Same(r, r1)
    BY <2>4 DEF Announces
  <2>6. /\ \A x \in e.cookies : x.kind \notin {"query", "probe"} /\ x.recs = {RecOf(r)}
        /\ e.out = {Mdns(L)!Msg(h, "answer", {RecOf(r)}, {})} /\ IsHostState(e)
    BY <1>3, <2>2, <2>3, <2>4 DEF Announces, QuietHost, OwnsRec
  <2>7. OwnsRec(e, r1) /\ RecOf(r1) = RecOf(r)
    BY <2>5, <2>6 DEF OwnsRec, Same
  <2>8. s.my = e.my /\ s.cookies = e.cookies
    BY <2>6 DEF IsHostState
  <2> HIDE DEF s
  <2>9. QuietHost(L, e) /\ (\A x : HasRec(e, x) <=> x = RecOf(r)) /\ \A x : ~Asks(L, e, x)
    BY <2>6, <2>7, OwnMeans
  <2>10. QuietHost(L, s) /\ (\A x : HasRec(s, x) <=> x = RecOf(r)) /\ \A x : ~Asks(L, s, x)
    BY <2>8, <2>9, HostsAlike
  <2>11. \A x : HasRec(k, x) <=> x = RecOf(r)
    BY <2>2, OwnMeans, Zenon
  <2>12. \A y : y \in mail' <=> \E g \in L.hosts \ {h} : y = AnswerMail(h, g, RecOf(r))
    BY <2>1, <2>6, AnswerIsSent DEF AnswerGoesOut
  <2>13. \A g \in L.hosts \ {h} : \A x :
           /\ HasRec(mdns[g], x) /\ Asks(L, s, x) => Hears(mail', g, h, x)
           /\ HasRec(s, x) /\ Asks(L, mdns[g], x) => Hears(mail', h, g, x)
    BY <2>10, <2>12 DEF Hears
  <2>14. \A m \in mail' : m.from = h /\ IsSent(L.hosts, m, [mdns EXCEPT ![h] = s], t)
    <3> SUFFICES ASSUME NEW m \in mail'
                 PROVE  m.from = h /\ IsSent(L.hosts, m, [mdns EXCEPT ![h] = s], t)
      OBVIOUS
    <3>1. PICK g \in L.hosts \ {h} : m = AnswerMail(h, g, RecOf(r))
      BY <2>12
    <3>2. m.from = h /\ m.to = g /\ RecOf(r).type = t
      BY <2>3, <3>1 DEF AnswerMail, RecOf
    <3>3. DOMAIN mdns = L.hosts
      BY DEF MdnsUnique, MdnsShape
    <3>4. HasRec([mdns EXCEPT ![h] = s][h], RecOf(r))
      BY <2>10, <3>3
    <3> QED
      BY <3>1, <3>2, <3>4 DEF IsSent
  <2> QED
    BY <1>2, <2>1, <2>10, <2>11, <2>13, <2>14, MdnsMoves DEF k
<1> QED
  BY <1>3, <1>7, <1>8 DEF IsCookie, QuietHost

\* A host handles a message and sends nothing.
LEMMA ReceivedMoves ==
  ASSUME NEW L, NEW t, MdnsUnique(L, t), MdnsShape(L)', NEW h \in L.hosts,
         NEW m \in mail, m.to = h, NEW s, mdns' = [mdns EXCEPT ![h] = s], mail' = mail \ {m},
         QuietHost(L, s), \A x : HasRec(s, x) <=> HasRec(mdns[h], x),
         \A x : Asks(L, s, x) => Asks(L, mdns[h], x),
         \A g, x : m = AnswerMail(g, h, x) => ~Asks(L, s, x),
         \A g, x : m = ProbeMail(g, h, x) => ~HasRec(s, x)
  PROVE  MdnsUnique(L, t)'
<1>1. ASSUME NEW g \in L.hosts \ {h}, NEW x
      PROVE  /\ HasRec(mdns[g], x) /\ Asks(L, mdns[h], x) => Hears(mail, g, h, x)
             /\ HasRec(mdns[h], x) /\ Asks(L, mdns[g], x) => Hears(mail, h, g, x)
  BY <1>1 DEF MdnsUnique
<1>2. \A g \in L.hosts \ {h} : \A x : ProbeMail(h, g, x) # m /\ AnswerMail(h, g, x) # m
  BY DEF ProbeMail, AnswerMail
<1>3. ASSUME NEW g \in L.hosts \ {h}, NEW x
      PROVE  /\ HasRec(mdns[g], x) /\ Asks(L, s, x) => Hears(mail', g, h, x)
             /\ HasRec(s, x) /\ Asks(L, mdns[g], x) => Hears(mail', h, g, x)
  BY <1>1, <1>2, <1>3 DEF Hears
<1>4. \A m1 \in mail : m1.from # h /\ m1.to # h => m1 \in mail'
  OBVIOUS
<1>5. \A m1 \in mail' : m1 \in mail \/ (m1.from = h /\ IsSent(L.hosts, m1, [mdns EXCEPT ![h] = s], t))
  OBVIOUS
<1> QED
  BY <1>3, <1>4, <1>5, MdnsMoves

\* A host answers a probe for the record it has.
LEMMA AnsweredMoves ==
  ASSUME NEW L, NEW t, MdnsUnique(L, t), MdnsShape(L)', NEW h \in L.hosts,
         NEW m \in mail, m.to = h, NEW s, mdns' = [mdns EXCEPT ![h] = s],
         NEW x, x.type = t, \A y : HasRec(s, y) <=> y = x, HasRec(mdns[h], x),
         \A y : HasRec(mdns[h], y) => y = x, \A y : ~Asks(L, s, y), QuietHost(L, s),
         NEW out, AnswerGoesOut(L, h, x, out), mail' = (mail \ {m}) \cup Mdns(L)!Sent(h, out)
  PROVE  MdnsUnique(L, t)'
<1>1. \A y : y \in mail' <=> (y \in mail /\ y # m) \/ \E g \in L.hosts \ {h} : y = AnswerMail(h, g, x)
  BY DEF AnswerGoesOut
<1>2. \A g \in L.hosts \ {h} : \A y :
        /\ HasRec(mdns[g], y) /\ Asks(L, s, y) => Hears(mail', g, h, y)
        /\ HasRec(s, y) /\ Asks(L, mdns[g], y) => Hears(mail', h, g, y)
  BY <1>1 DEF Hears
<1>3. \A m1 \in mail : m1.from # h /\ m1.to # h => m1 \in mail'
  BY <1>1
<1>4. ASSUME NEW m1 \in mail'
      PROVE  m1 \in mail \/ (m1.from = h /\ IsSent(L.hosts, m1, [mdns EXCEPT ![h] = s], t))
  <2>1. CASE m1 \in mail
    BY <2>1
  <2>2. CASE m1 \notin mail
    <3>1. PICK g \in L.hosts \ {h} : m1 = AnswerMail(h, g, x)
      BY <1>1, <1>4, <2>2
    <3>2. m1.from = h /\ m1.to = g
      BY <3>1 DEF AnswerMail
    <3>3. DOMAIN mdns = L.hosts
      BY DEF MdnsUnique, MdnsShape
    <3>4. HasRec([mdns EXCEPT ![h] = s][h], x)
      BY <3>3
    <3> QED
      BY <3>1, <3>2, <3>4 DEF IsSent
  <2> QED
    BY <2>1, <2>2
<1>5. \A y : HasRec(mdns[h], y) => HasRec(s, y)
  OBVIOUS
<1>6. \A y : HasRec(s, y) => HasRec(mdns[h], y)
  OBVIOUS
<1> QED
  BY <1>2, <1>3, <1>4, <1>5, <1>6, MdnsMoves, Zenon

\* What the handlers do with a probe and with an answer of one record.
LEMMA ProbeIsHandled ==
  ASSUME NEW L, NEW g, NEW h, NEW x, NEW k, NEW d \in Mdns(L)!Handled(h, k, ProbeMail(g, h, x))
  PROVE  d = Mdns(L)!Authority(h, Mdns(L)!Question(h, k, x.name, {"A", "TXT"}), x, g)
<1> DEFINE m == ProbeMail(g, h, x)
           q == Mdns(L)!Question(h, k, x.name, {"A", "TXT"})
<1>1. m.kind = "probe" /\ m.recs = {} /\ m.auth = {x} /\ m.from = g
  BY DEF ProbeMail
<1> HIDE DEF m
<1>2. d \in UNION {Mdns(L)!Each(h, Mdns(L)!Question(h, k, a.name, {"A", "TXT"}), m) : a \in m.auth}
  <2>1. d \in Mdns(L)!Handled(h, k, m)
    BY DEF m
  <2> QED
    BY <1>1, <2>1 DEF Mdns!Handled
<1>3. d \in Mdns(L)!Each(h, q, m)
  BY <1>1, <1>2
<1> HIDE DEF q
<1>4. m.recs \cup m.auth = {x}
  BY <1>1
<1>5. d = Mdns(L)!One(h, q, m, x)
  BY <1>3, <1>4 DEF Mdns!Each
<1>6. Mdns(L)!One(h, q, m, x) = Mdns(L)!Authority(h, q, x, g)
  BY <1>1 DEF Mdns!One
<1> QED
  BY <1>5, <1>6 DEF q

LEMMA AnswerIsHandled ==
  ASSUME NEW L, NEW g, NEW h, NEW x, NEW k, NEW d \in Mdns(L)!Handled(h, k, AnswerMail(g, h, x))
  PROVE  d = Mdns(L)!Answer(h, k, x, g)
<1> DEFINE m == AnswerMail(g, h, x)
<1>1. m.kind = "answer" /\ m.recs = {x} /\ m.auth = {} /\ m.from = g
  BY DEF AnswerMail
<1> HIDE DEF m
<1>2. d \in Mdns(L)!Each(h, k, m)
  <2>1. d \in Mdns(L)!Handled(h, k, m)
    BY DEF m
  <2> QED
    BY <1>1, <2>1 DEF Mdns!Handled
<1>3. m.recs \cup m.auth = {x}
  BY <1>1
<1>4. d = Mdns(L)!One(h, k, m, x)
  BY <1>2, <1>3 DEF Mdns!Each
<1> QED
  BY <1>1, <1>4 DEF Mdns!One

\* What is known of a host of the quiet link, and of its verified records.
LEMMA QuietMeans ==
  ASSUME NEW L, NEW t, IsQuiet(L, t), MdnsUnique(L, t), NEW h \in L.hosts
  PROVE  /\ IsLink(L) /\ t \in {"A", "TXT"}
         /\ HostShape(L, h, mdns[h]) /\ IsHostState(mdns[h]) /\ mdns[h].out = {} /\ QuietHost(L, mdns[h])
         /\ \A r \in mdns[h].my : r.type = t
         /\ \A c \in mdns[h].cookies : c.kind # "query"
<1>1. /\ HostShape(L, h, mdns[h]) /\ mdns[h].out = {} /\ QuietHost(L, mdns[h]) /\ IsLink(L) /\ t \in {"A", "TXT"}
  BY DEF MdnsUnique, MdnsShape, IsQuiet
<1> QED
  BY <1>1 DEF HostShape, IsQuiet, QuietHost

\* The probe of another host.
LEMMA ProbeIsReceived ==
  ASSUME NEW L, NEW t, IsQuiet(L, t), MdnsUnique(L, t), MdnsShape(L)', NEW h \in L.hosts,
         NEW g, NEW x, x.type = t, ProbeMail(g, h, x) \in mail,
         NEW d \in Mdns(L)!Handled(h, mdns[h], ProbeMail(g, h, x)),
         mdns' = [mdns EXCEPT ![h] = [d EXCEPT !.out = {}]],
         mail' = (mail \ {ProbeMail(g, h, x)}) \cup Mdns(L)!Sent(h, d.out)
  PROVE  MdnsUnique(L, t)'
<1> DEFINE k == mdns[h]
           types == {"A", "TXT"}
           q == Mdns(L)!Question(h, k, x.name, types)
           answers == Mdns(L)!Populate(k, x.name, types)
           m == ProbeMail(g, h, x)
           s == [d EXCEPT !.out = {}]
<1>1. d = Mdns(L)!Authority(h, q, x, g)
  BY ProbeIsHandled
<1>2. /\ IsLink(L) /\ t \in types /\ HostShape(L, h, k) /\ IsHostState(k) /\ k.out = {} /\ QuietHost(L, k)
      /\ \A r \in k.my : r.type = t
      /\ \A c \in k.cookies : c.kind # "query"
  BY QuietMeans
<1>3. m.to = h /\ m \in mail /\ mdns' = [mdns EXCEPT ![h] = s] /\ mail' = (mail \ {m}) \cup Mdns(L)!Sent(h, d.out)
  BY DEF ProbeMail
<1>4. /\ \A f, y : m # AnswerMail(f, h, y)
      /\ \A f, y : m = ProbeMail(f, h, y) => y = x
  BY DEF ProbeMail, AnswerMail
<1> HIDE DEF k, m, s, q
<1>5. Questioned(k, q, answers, Mdns(L)!Msg(h, "answer", answers, {}))
  BY <1>2, QuestionKeeps DEF q
<1>6. /\ IsHostState(q) /\ q.my = k.my /\ q.cookies = k.cookies
      /\ answers = {} => q.out = {}
      /\ answers # {} => q.out = {Mdns(L)!Msg(h, "answer", answers, {})}
  BY <1>2, <1>5 DEF Questioned
<1>7. answers = {Mdns(L)!Rec(r) : r \in {y \in k.my : y.name = x.name /\ y.type \in types /\ "probed" \in y.flags}}
  BY DEF Mdns!Populate
<1> HIDE DEF answers
<1>8. ASSUME IsHostState(d)
      PROVE  s.my = d.my /\ s.cookies = d.cookies
  BY <1>8 DEF s, IsHostState
<1>9. CASE Claims0(k)
  <2>1. answers = {}
    BY <1>7, <1>9 DEF Claims0
  <2>2. d = q
    BY <1>1, <1>2, <1>6, <1>9, AuthorityIgnored DEF Claims0, OnlyQueries
  <2>3. s.my = k.my /\ s.cookies = k.cookies /\ d.out = {}
    BY <1>6, <1>8, <2>1, <2>2
  <2>4. /\ \A y : ~HasRec(k, y)
        /\ \A y : ~Asks(L, k, y)
    BY <1>2, <1>9, NothingMeans
  <2>5. /\ \A y : HasRec(s, y) <=> HasRec(k, y)
        /\ \A y : Asks(L, s, y) <=> Asks(L, k, y)
        /\ QuietHost(L, s)
    BY <1>2, <2>3, HostsAlike
  <2>6. mail' = mail \ {m}
    BY <1>3, <2>3, NothingSent
  <2> QED
    BY <1>3, <1>4, <2>4, <2>5, <2>6, ReceivedMoves DEF k
<1>10. ASSUME NEW r, OwnsRec(k, r)
       PROVE  MdnsUnique(L, t)'
  <2>1. d = q
    BY <1>1, <1>6, <1>10, AuthorityIgnored DEF OwnsRec
  <2>2. s.my = k.my /\ s.cookies = k.cookies
    BY <1>6, <1>8, <2>1
  <2>3. /\ \A y : HasRec(s, y) <=> HasRec(k, y)
        /\ \A y : Asks(L, s, y) <=> Asks(L, k, y)
        /\ QuietHost(L, s)
    BY <1>2, <2>2, HostsAlike
  <2>4. (\A y : HasRec(k, y) <=> y = RecOf(r)) /\ \A y : ~Asks(L, k, y)
    BY <1>10, OwnMeans
  <2>5. r.type = t
    BY <1>2, <1>10 DEF OwnsRec
  <2>6. CASE r.name = x.name
    <3>1. answers = {RecOf(r)}
      <4>1. {y \in k.my : y.name = x.name /\ y.type \in types /\ "probed" \in y.flags} = {r}
        BY <1>2, <1>10, <2>5, <2>6 DEF OwnsRec
      <4> QED
        BY <1>7, <4>1 DEF Mdns!Rec, RecOf
    <3>2. d.out = {Mdns(L)!Msg(h, "answer", {RecOf(r)}, {})}
      BY <1>6, <2>1, <3>1
    <3>3. AnswerGoesOut(L, h, RecOf(r), d.out) /\ RecOf(r).type = t
      BY <2>5, <3>2, AnswerIsSent DEF RecOf
    <3>4. HasRec(mdns[h], RecOf(r)) /\ \A y : HasRec(mdns[h], y) => y = RecOf(r)
      BY <2>4 DEF k
    <3>5. (\A y : HasRec(s, y) <=> y = RecOf(r)) /\ \A y : ~Asks(L, s, y)
      BY <2>3, <2>4
    <3> QED
      BY <1>3, <2>3, <3>3, <3>4, <3>5, AnsweredMoves
  <2>7. CASE r.name # x.name
    <3>1. answers = {}
      <4>1. {y \in k.my : y.name = x.name /\ y.type \in types /\ "probed" \in y.flags} = {}
        BY <1>10, <2>7 DEF OwnsRec
      <4> QED
        BY <1>7, <4>1
    <3>2. mail' = mail \ {m}
      BY <1>3, <1>6, <2>1, <3>1, NothingSent
    <3>3. ~HasRec(s, x)
      BY <2>3, <2>4, <2>7 DEF RecOf
    <3> QED
      <4>1. /\ \A y : HasRec(s, y) <=> HasRec(mdns[h], y)
            /\ \A y : Asks(L, s, y) => Asks(L, mdns[h], y)
            /\ \A f, y : m = ProbeMail(f, h, y) => ~HasRec(s, y)
        BY <1>4, <2>3, <3>3 DEF k
      <4> QED
        BY <1>3, <1>4, <2>3, <3>2, <4>1, ReceivedMoves
  <2> QED
    BY <2>6, <2>7
<1>11. ASSUME NEW r, NEW c, ProbesWith(k, r, c)
       PROVE  MdnsUnique(L, t)'
  <2>1. k.cookies = {c} /\ c.count # L.probes => c.status = "active"
    BY <1>2, <1>11, ProbeMeans DEF QuietHost
  <2>2. answers = {}
    BY <1>7, <1>11 DEF ProbesWith
  <2>3. ProbesWith(q, r, c)
    BY <1>6, <1>11 DEF ProbesWith
  <2>4. /\ IsHostState(d) /\ d.out = {}
        /\ \E e : ProbesWith(d, r, e) /\ Deferred(L, c, e, x, r)
        /\ \A y \in d.cookies : y.kind = "probe"
    <3>1. q.cookies = {c}
      BY <1>2, <1>6, <1>11, ProbeMeans
    <3> DEFINE a == Mdns(L)!Authority(h, q, x, g)
    <3>2. Defers(L, q, a, x, r, c)
      BY <1>2, <1>6, <2>3, AuthorityDefers
    <3> QED
      BY <1>1, <1>6, <2>2, <3>1, <3>2 DEF Defers
  <2>5. PICK e : ProbesWith(d, r, e) /\ Deferred(L, c, e, x, r)
    BY <2>4
  <2>6. r.type = t
    BY <1>2, <1>11 DEF ProbesWith
  <2>7. e = c \/ e = Mdns(L)!Defer(c)
    BY <2>5, <2>6 DEF Deferred, RecOf
  <2>8. e.count # L.probes => e = c
    <3>1. CASE e = Mdns(L)!Defer(c)
      <4>1. IsCookie(c)
        BY <1>2, <1>11 DEF IsHostState, ProbesWith
      <4> QED
        BY <3>1, <4>1 DEF Mdns!Defer, IsCookie
    <3> QED
      BY <2>7, <3>1
  <2>9. /\ \A y : ~HasRec(d, y)
        /\ (e.count # L.probes => e.status = "active") => QuietHost(L, d)
        /\ \A y : Asks(L, d, y) => y = RecOf(r) /\ e.count # L.probes
    BY <2>4, <2>5, ProbeMeans
  <2>10. c.count # L.probes => c.status = "active"
    BY <1>2, <1>11 DEF QuietHost
  <2>11. QuietHost(L, d)
    BY <2>8, <2>9, <2>10
  <2>12. \A y : Asks(L, d, y) => Asks(L, k, y)
    BY <1>11, <2>8, <2>9 DEF Asks
  <2>13. \A y : ~HasRec(k, y)
    BY <1>2, <1>11, ProbeMeans
  <2>14. /\ \A y : HasRec(s, y) <=> HasRec(d, y)
         /\ \A y : Asks(L, s, y) <=> Asks(L, d, y)
         /\ QuietHost(L, s)
    BY <1>8, <2>4, <2>11, HostsAlike
  <2>15. mail' = mail \ {m}
    BY <1>3, <2>4, NothingSent
  <2>16. /\ \A y : ~HasRec(s, y)
         /\ \A y : HasRec(s, y) <=> HasRec(mdns[h], y)
         /\ \A y : Asks(L, s, y) => Asks(L, mdns[h], y)
    BY <2>9, <2>12, <2>13, <2>14 DEF k
  <2> QED
    BY <1>3, <1>4, <2>14, <2>15, <2>16, ReceivedMoves
<1> QED
  BY <1>2, <1>9, <1>10, <1>11 DEF HostShape

\* The answer of another host, which has the record.
LEMMA AnswerIsReceived ==
  ASSUME NEW L, NEW t, IsQuiet(L, t), MdnsUnique(L, t), MdnsShape(L)', NEW h \in L.hosts,
         NEW g \in L.hosts, g # h, NEW x, HasRec(mdns[g], x), AnswerMail(g, h, x) \in mail,
         NEW d \in Mdns(L)!Handled(h, mdns[h], AnswerMail(g, h, x)),
         mdns' = [mdns EXCEPT ![h] = [d EXCEPT !.out = {}]],
         mail' = (mail \ {AnswerMail(g, h, x)}) \cup Mdns(L)!Sent(h, d.out)
  PROVE  MdnsUnique(L, t)'
<1> DEFINE k == mdns[h]
           m == AnswerMail(g, h, x)
           s == [d EXCEPT !.out = {}]
           a == Mdns(L)!Answer(h, k, x, g)
<1>1. d = a
  BY AnswerIsHandled
<1>2. /\ IsLink(L) /\ HostShape(L, h, k) /\ IsHostState(k) /\ k.out = {} /\ QuietHost(L, k)
      /\ \A c \in k.cookies : c.kind # "query"
  BY QuietMeans
<1>3. m.to = h /\ m \in mail /\ mdns' = [mdns EXCEPT ![h] = s] /\ mail' = (mail \ {m}) \cup Mdns(L)!Sent(h, d.out)
  BY DEF AnswerMail
<1>4. /\ \A f, y : m # ProbeMail(f, h, y)
      /\ \A f, y : m = AnswerMail(f, h, y) => y = x
  BY DEF ProbeMail, AnswerMail
<1>5. RecOf(x) = x /\ ~HasRec(k, x)
  BY DEF MdnsUnique, HasRec, RecOf
<1> HIDE DEF k, m, s
<1>6. /\ Claims0(k) => Unmoved(k, a)
      /\ \A r : OwnsRec(k, r) => RecOf(x) = RecOf(r) \/ Unmoved(k, a)
      /\ \A r, c : ProbesWith(k, r, c) =>
           \/ Unmoved(k, a) /\ (k.cookies = {c} => ~(x.name = r.name /\ c.status = "active"))
           \/ Conflicted(L, k, a, r)
  BY <1>2, AnswerConflicts
<1> HIDE DEF a
<1>7. ASSUME IsHostState(d), d.out = {}
      PROVE  s.my = d.my /\ s.cookies = d.cookies /\ mail' = mail \ {m}
  BY <1>3, <1>7, NothingSent DEF s, IsHostState
<1>8. ASSUME Unmoved(k, d), ~Asks(L, k, x)
      PROVE  MdnsUnique(L, t)'
  <2>1. s.my = k.my /\ s.cookies = k.cookies /\ mail' = mail \ {m}
    BY <1>2, <1>7, <1>8 DEF Unmoved
  <2>2. /\ \A y : HasRec(s, y) <=> HasRec(k, y)
        /\ \A y : Asks(L, s, y) <=> Asks(L, k, y)
        /\ QuietHost(L, s)
    BY <1>2, <2>1, HostsAlike
  <2>3. /\ \A y : HasRec(s, y) <=> HasRec(mdns[h], y)
        /\ \A y : Asks(L, s, y) => Asks(L, mdns[h], y)
        /\ \A f, y : m = AnswerMail(f, h, y) => ~Asks(L, s, y)
        /\ \A f, y : m = ProbeMail(f, h, y) => ~HasRec(s, y)
    BY <1>4, <1>8, <2>2 DEF k
  <2> QED
    BY <1>3, <2>1, <2>2, <2>3, ReceivedMoves, Zenon
<1>9. CASE Claims0(k)
  <2>1. \A y : ~Asks(L, k, y)
    BY <1>2, <1>9, NothingMeans
  <2> QED
    BY <1>1, <1>6, <1>8, <1>9, <2>1
<1>10. ASSUME NEW r, OwnsRec(k, r)
       PROVE  MdnsUnique(L, t)'
  <2>1. (\A y : HasRec(k, y) <=> y = RecOf(r)) /\ \A y : ~Asks(L, k, y)
    BY <1>10, OwnMeans
  <2> QED
    BY <1>1, <1>5, <1>6, <1>8, <1>10, <2>1
<1>11. ASSUME NEW r, NEW c, ProbesWith(k, r, c)
       PROVE  MdnsUnique(L, t)'
  <2>1. /\ k.cookies = {c}
        /\ \A y : ~HasRec(k, y)
        /\ \A y : Asks(L, k, y) => y = RecOf(r) /\ c.count # L.probes
    BY <1>2, <1>11, ProbeMeans
  <2>2. c.count # L.probes => c.status = "active"
    BY <1>2, <1>11 DEF QuietHost
  <2>3. CASE Unmoved(k, a) /\ ~(x.name = r.name /\ c.status = "active")
    <3>1. ~Asks(L, k, x)
      BY <2>1, <2>2, <2>3 DEF RecOf
    <3> QED
      BY <1>1, <1>8, <2>3, <3>1
  <2>4. CASE Conflicted(L, k, a, r)
    <3> DEFINE r1 == [name |-> r.name + 1, type |-> r.type, flags |-> ProbeFlags]
               c1 == Mdns(L)!Cookie("probe", {RecOf(r1)}, L.probes)
    <3>1. /\ IsHostState(d) /\ d.out = {} /\ ProbesWith(d, r1, c1)
          /\ \A y \in d.cookies : y = c1 \/ y \in k.cookies
      BY <1>1, <1>2, <2>4 DEF Conflicted
    <3>2. c1.kind = "probe" /\ c1.count = L.probes
      BY DEF Mdns!Cookie
    <3> HIDE DEF r1, c1
    <3>3. \A y \in d.cookies : y.kind # "query"
      BY <1>2, <3>1, <3>2
    <3>4. /\ \A y : ~HasRec(d, y)
          /\ (c1.count # L.probes => c1.status = "active") => QuietHost(L, d)
          /\ \A y : Asks(L, d, y) => y = RecOf(r1) /\ c1.count # L.probes
      BY <3>1, <3>3, ProbeMeans
    <3>5. s.my = d.my /\ s.cookies = d.cookies /\ mail' = mail \ {m}
      BY <1>7, <3>1
    <3>6. /\ \A y : HasRec(s, y) <=> HasRec(d, y)
          /\ \A y : Asks(L, s, y) <=> Asks(L, d, y)
          /\ QuietHost(L, s)
      BY <3>2, <3>4, <3>5, HostsAlike
    <3>7. /\ \A y : HasRec(s, y) <=> HasRec(mdns[h], y)
          /\ \A y : Asks(L, s, y) => Asks(L, mdns[h], y)
          /\ \A f, y : m = AnswerMail(f, h, y) => ~Asks(L, s, y)
          /\ \A f, y : m = ProbeMail(f, h, y) => ~HasRec(s, y)
      BY <1>4, <2>1, <3>2, <3>4, <3>6 DEF k
    <3> QED
      BY <1>3, <3>5, <3>6, <3>7, ReceivedMoves, Zenon
  <2> QED
    BY <1>6, <1>11, <2>1, <2>3, <2>4
<1> QED
  BY <1>2, <1>9, <1>10, <1>11 DEF HostShape

\* A step of the quiet link.
LEMMA UniqueStep ==
  ASSUME NEW L, NEW t, IsQuiet(L, t), MdnsUnique(L, t), Mdns(L)!Next \/ UNCHANGED Mdns(L)!vars
  PROVE  MdnsUnique(L, t)'
<1>1. MdnsShape(L)'
  BY MdnsStep DEF MdnsUnique, IsQuiet
<1>2. CASE UNCHANGED Mdns(L)!vars
  <2>1. mdns' = mdns /\ mail' = mail
    BY <1>2 DEF Mdns!vars
  <2>2. MdnsShape(L)' <=> MdnsShape(L)
    BY <2>1 DEF MdnsShape
  <2> QED
    BY <1>1, <2>1 DEF MdnsUnique
<1>3. ASSUME NEW h \in L.hosts, Mdns(L)!Receive(h)
      PROVE  MdnsUnique(L, t)'
  <2>1. PICK m \in mail :
          /\ m.to = h
          /\ \E d \in Mdns(L)!Handled(h, mdns[h], m) :
               /\ mdns' = [mdns EXCEPT ![h] = [d EXCEPT !.out = {}]]
               /\ mail' = (mail \ {m}) \cup Mdns(L)!Sent(h, d.out)
    BY <1>3 DEF Mdns!Receive, IsQuiet
  <2>2. PICK d \in Mdns(L)!Handled(h, mdns[h], m) :
          /\ mdns' = [mdns EXCEPT ![h] = [d EXCEPT !.out = {}]]
          /\ mail' = (mail \ {m}) \cup Mdns(L)!Sent(h, d.out)
    BY <2>1
  <2>3. IsSent(L.hosts, m, mdns, t)
    BY DEF MdnsUnique
  <2>4. PICK x : /\ x.type = t
                 /\ m = ProbeMail(m.from, m.to, x) \/ (m = AnswerMail(m.from, m.to, x) /\ HasRec(mdns[m.from], x))
    BY <2>3 DEF IsSent
  <2>5. CASE m = ProbeMail(m.from, m.to, x)
    <3> DEFINE g == m.from
    <3>1. m = ProbeMail(g, h, x)
      BY <2>1, <2>5
    <3> HIDE DEF g
    <3> QED
      BY <1>1, <2>2, <2>4, <3>1, ProbeIsReceived
  <2>6. CASE m = AnswerMail(m.from, m.to, x) /\ HasRec(mdns[m.from], x)
    <3> DEFINE g == m.from
    <3>1. m = AnswerMail(g, h, x) /\ g \in L.hosts /\ g # h /\ HasRec(mdns[g], x)
      BY <2>1, <2>3, <2>6 DEF IsSent
    <3> HIDE DEF g
    <3> QED
      BY <1>1, <2>2, <3>1, AnswerIsReceived
  <2> QED
    BY <2>4, <2>5, <2>6
<1>4. ASSUME NEW h \in L.hosts, Mdns(L)!RecordExpires(h)
      PROVE  MdnsUnique(L, t)'
  <2>1. PICK r \in mdns[h].cache : Mdns(L)!Quiet /\ Mdns(L)!Post(h, [mdns[h] EXCEPT !.cache = @ \ {r}])
    BY <1>4 DEF Mdns!RecordExpires
  <2> DEFINE k == mdns[h]
             d == [k EXCEPT !.cache = @ \ {r}]
             s == [d EXCEPT !.out = {}]
  <2>2. mail = {} /\ mdns' = [mdns EXCEPT ![h] = s] /\ mail' = Mdns(L)!Sent(h, d.out)
    BY <2>1 DEF Mdns!Post, Mdns!Quiet, IsQuiet
  <2>3. IsHostState(k) /\ k.out = {} /\ QuietHost(L, k)
    BY QuietMeans
  <2> HIDE DEF k
  <2>4. s.my = k.my /\ s.cookies = k.cookies /\ d.out = {}
    BY <2>3 DEF IsHostState
  <2> HIDE DEF s, d
  <2>5. mail' = {}
    BY <2>2, <2>4, NothingSent
  <2>6. /\ \A y : HasRec(s, y) <=> HasRec(mdns[h], y)
        /\ \A y : Asks(L, s, y) <=> Asks(L, mdns[h], y)
        /\ QuietHost(L, s)
    BY <2>3, <2>4, HostsAlike DEF k
  <2>7. \A g \in L.hosts \ {h} : \A y :
          /\ HasRec(mdns[g], y) /\ Asks(L, s, y) => Hears(mail', g, h, y)
          /\ HasRec(s, y) /\ Asks(L, mdns[g], y) => Hears(mail', h, g, y)
    BY <2>2, <2>6 DEF MdnsUnique, Hears
  <2> QED
    BY <1>1, <2>2, <2>5, <2>6, <2>7, MdnsMoves
<1>5. ASSUME NEW h \in L.hosts
      PROVE  ~Mdns(L)!GetRecord(h) /\ ~Mdns(L)!CookieExpires(h)
  <2>1. ~Mdns(L)!GetRecord(h)
    BY DEF Mdns!GetRecord, IsQuiet
  <2>2. \A c \in mdns[h].cookies : c.kind # "query"
    BY QuietMeans
  <2> QED
    BY <2>1, <2>2 DEF Mdns!CookieExpires
<1> QED
  <2>1. CASE Mdns(L)!Next
    <3>1. PICK h \in L.hosts : \/ Mdns(L)!Claim(h) \/ Mdns(L)!Timer(h) \/ Mdns(L)!Receive(h)
                               \/ Mdns(L)!GetRecord(h) \/ Mdns(L)!CookieExpires(h) \/ Mdns(L)!RecordExpires(h)
      BY <2>1 DEF Mdns!Next
    <3> QED
      BY <1>1, <1>3, <1>4, <1>5, <3>1, ClaimIsUnique, TimerIsUnique
  <2> QED
    BY <1>2, <2>1

LEMMA UniqueMeans ==
  ASSUME NEW L, NEW t, MdnsUnique(L, t)
  PROVE  Mdns(L)!UniqueOnLink
<1>1. ASSUME NEW g \in L.hosts, NEW r \in mdns[g].my, "probed" \in r.flags
      PROVE  HasRec(mdns[g], RecOf(r))
  <2>1. HostShape(L, g, mdns[g])
    BY DEF MdnsUnique, MdnsShape
  <2>2. ~Claims0(mdns[g]) /\ \A s, c : ~ProbesWith(mdns[g], s, c)
    BY <1>1 DEF Claims0, ProbesWith
  <2>3. PICK s : OwnsRec(mdns[g], s)
    BY <2>1, <2>2 DEF HostShape
  <2>4. s = r
    BY <2>3 DEF OwnsRec
  <2> QED
    BY <2>3, <2>4, Zenon DEF HasRec
<1>2. ASSUME NEW g \in L.hosts, NEW h \in L.hosts, g # h, NEW r \in mdns[g].my, NEW s \in mdns[h].my,
             Mdns(L)!Rec(r) = Mdns(L)!Rec(s), "probed" \in r.flags, "probed" \in s.flags
      PROVE  FALSE
  <2>1. HasRec(mdns[g], RecOf(r)) /\ HasRec(mdns[h], RecOf(s))
    BY <1>1, <1>2
  <2>2. RecOf(r) = RecOf(s)
    BY <1>2 DEF Mdns!Rec, RecOf
  <2> QED
    BY <1>2, <2>1, <2>2 DEF MdnsUnique
<1> QED
  BY <1>2 DEF Mdns!UniqueOnLink

-----------------------------------------------------------------------------
(* TcpConnection: what the other end wrote                                 *)

\* What is written is counted; the bounds of the retries are numbers.
Counting(W) == /\ W["A"] \in Nat /\ W["B"] \in Nat
               /\ SegmentRetries \in Nat /\ SynRetries \in Nat

Sides == {"A", "B"}
Other(e) == IF e = "A" THEN "B" ELSE "A"
FinStates == {"FIN_WAIT1", "FIN_WAIT2", "LAST_ACK", "TIME_WAIT"}
Early == {"LISTEN", "SYN_SENT", "SYN_RECV"}
Talking == {"ESTABLISHED", "CLOSE_WAIT"} \cup FinStates

IsSocket(k) ==
  /\ DOMAIN k = {"state", "snd_nxt", "snd_last", "rcv_nxt", "rcv_ackd", "rcv_processed",
                 "out", "in", "remote_closed", "shut_local", "shut_remote", "blackout",
                 "backoff", "retrans_tmr", "fin_tmr", "written", "read"}
  /\ k.state \in Early \cup Talking \cup {"CLOSED"}
  /\ k.remote_closed \in BOOLEAN /\ k.shut_local \in BOOLEAN /\ k.shut_remote \in BOOLEAN
  /\ k.snd_nxt \in Nat /\ k.snd_last \in Nat /\ k.rcv_nxt \in Nat /\ k.backoff \in Nat

\* What was received of the stream, read or still in the queue.
Got(k) == (1 .. Len(k.read)) \cup DOMAIN k.in
ToldEnd(k) == k.shut_remote \/ k.remote_closed
\* How often the state can go back to CLOSE_WAIT and a FIN be sent again.
Once(b) == IF b THEN 1 ELSE 0
Fins(k) == Len(k.read) + Once(k.shut_remote) + Once(k.state \in FinStates \cup {"CLOSED"})

\* The queues hold what their numbers say.
QueuesGood(k) ==
  /\ k.written = k.snd_last
  /\ DOMAIN k.out \subseteq 1 .. k.snd_last /\ \A s \in DOMAIN k.out : k.out[s] = s
  /\ k.read \in Seq(Nat) /\ \A i \in 1 .. Len(k.read) : k.read[i] = i
  /\ IsFiniteSet(DOMAIN k.in)
  /\ \A s \in DOMAIN k.in : s \in Nat /\ k.in[s] = s /\ s > Len(k.read)
\* The state tells where the numbers are.
StateGood(k) ==
  /\ k.state \in Early =>
       /\ DOMAIN k.out = {} /\ DOMAIN k.in = {} /\ Len(k.read) = 0 /\ k.snd_last = 0
       /\ ~ToldEnd(k) /\ ~k.shut_local
       /\ k.snd_nxt = k.rcv_nxt /\ k.snd_nxt = IF k.state = "SYN_RECV" THEN 1 ELSE 0
  /\ k.state \in Talking =>
       \/ /\ k.rcv_processed = Len(k.read) + 1 /\ Len(k.read) < k.rcv_nxt
          /\ k.rcv_nxt \notin DOMAIN k.in
       \/ k.shut_remote /\ DOMAIN k.in = {} /\ Len(k.read) = 0
  /\ k.shut_remote => k.state \notin {"ESTABLISHED", "FIN_WAIT1", "FIN_WAIT2"}
  /\ k.state \in FinStates => k.fin_tmr
Bounded(n, k) ==
  /\ k.snd_last <= n /\ k.snd_nxt <= n + 1 + Fins(k)
  /\ k.backoff <= 1 + SegmentRetries \/ k.backoff <= 1 + SynRetries
Own(n, k) == IsSocket(k) /\ QueuesGood(k) /\ StateGood(k) /\ Bounded(n, k)

\* The socket k has all of the stream of h, which is shut.
Over(k, h) == h.shut_local /\ (k.state # "CLOSED" => Got(k) = 1 .. h.snd_last)
\* The number a stands for what the socket k has of the stream of h.
Stands(a, k, h) ==
  /\ a \in Nat
  /\ k.state # "CLOSED" => \A s \in 1 .. h.snd_last : s < a => s \in Got(k)
  /\ ~h.shut_local => a <= h.snd_last + 1
\* What the socket k has of the stream of h, which keeps what k may not have.
Trails(k, h) ==
  /\ Got(k) \subseteq 1 .. h.snd_last
  /\ Stands(k.rcv_nxt, k, h)
  /\ k.state # "CLOSED" /\ h.state # "CLOSED" =>
       \A s \in 1 .. h.snd_last : s \notin DOMAIN h.out => s \in Got(k)
  /\ ToldEnd(k) => Over(k, h)
\* The segment m from h to k.
SegGood(m, k, h) ==
  /\ m = [to |-> m.to, flags |-> m.flags, seq |-> m.seq, ack |-> m.ack, data |-> m.data]
  /\ Stands(m.ack, h, k)
  /\ m.flags = "DATA" => m.seq \in 1 .. h.snd_last /\ m.data = m.seq
  /\ m.flags \in {"SYN", "SYNACK"} => m.seq = 0
  /\ m.flags = "FINACK" => Over(k, h)

TcpInv(W) ==
  /\ DOMAIN sock = Sides
  /\ \A e \in Sides : Own(W[e], sock[e]) /\ Trails(sock[e], sock[Other(e)])
  /\ \A m \in segs : m.to \in Sides /\ SegGood(m, sock[m.to], sock[Other(m.to)])

\* The socket k and the other one, h.
Good(n, k, h) == Own(n, k) /\ Trails(k, h) /\ Trails(h, k)
\* What no step but a write takes back or adds to.
Grows(k, d) ==
  /\ d.snd_last = k.snd_last
  /\ k.shut_local => d.shut_local
  /\ k.state = "CLOSED" => d.state = "CLOSED"
  /\ d.state # "CLOSED" => Got(k) \subseteq Got(d)
Alters(n, k, d, h) == Good(n, d, h) /\ Grows(k, d)
\* The segment m is one that the socket d of e may send.
Sends(m, e, d) ==
  /\ m = [to |-> Other(e), flags |-> m.flags, seq |-> m.seq, ack |-> d.rcv_nxt,
          data |-> m.data]
  /\ m.flags = "DATA" => m.seq \in 1 .. d.snd_last /\ m.data = m.seq
  /\ m.flags \in {"SYN", "SYNACK"} => m.seq = 0
  /\ m.flags = "FINACK" => d.shut_local /\ DOMAIN d.out = {} /\ d.state # "CLOSED"

LEMMA SidesDiffer ==
  ASSUME NEW e \in Sides
  PROVE  /\ Other(e) \in Sides /\ Other(e) # e /\ Other(Other(e)) = e
         /\ \A f \in Sides : f = e \/ f = Other(e)
BY DEF Sides, Other

\* A number that stands for what one has still does when the ones grow.
LEMMA StandsOn ==
  ASSUME NEW k, NEW d, NEW h, NEW a, Grows(k, d)
  PROVE  /\ Stands(a, k, h) => Stands(a, d, h)
         /\ Stands(a, h, k) => Stands(a, h, d)
BY DEF Grows, Stands

LEMMA OverOn ==
  ASSUME NEW k, NEW d, NEW h, Grows(k, d), Got(d) \subseteq 1 .. h.snd_last
  PROVE  /\ Over(k, h) => Over(d, h)
         /\ Over(h, k) => Over(h, d)
BY DEF Grows, Over

LEMMA SegOn ==
  ASSUME NEW k, NEW d, NEW h, NEW m, Grows(k, d), Got(d) \subseteq 1 .. h.snd_last
  PROVE  /\ SegGood(m, k, h) => SegGood(m, d, h)
         /\ SegGood(m, h, k) => SegGood(m, h, d)
BY StandsOn, OverOn DEF SegGood, Grows

\* A step of one end that sends segments.
LEMMA TcpMoves ==
  ASSUME NEW W, TcpInv(W), NEW e \in Sides, NEW d, NEW sent,
         Alters(W[e], sock[e], d, sock[Other(e)]),
         \A m \in sent : Sends(m, e, d),
         sock' = [sock EXCEPT ![e] = d], segs' = segs \cup sent
  PROVE  TcpInv(W)'
<1> DEFINE h == sock[Other(e)]
<1>1. /\ DOMAIN sock' = Sides /\ sock'[e] = d /\ sock'[Other(e)] = h
  BY SidesDiffer DEF TcpInv
<1>2. /\ Own(W[e], d) /\ Trails(d, h) /\ Trails(h, d) /\ Own(W[Other(e)], h)
      /\ Grows(sock[e], d) /\ Got(d) \subseteq 1 .. h.snd_last
  BY SidesDiffer DEF Alters, Good, TcpInv, Trails
<1>3. \A f \in Sides : Own(W[f], sock'[f]) /\ Trails(sock'[f], sock'[Other(f)])
  BY <1>1, <1>2, SidesDiffer
<1>4. ASSUME NEW m \in segs
      PROVE  m.to \in Sides /\ SegGood(m, sock'[m.to], sock'[Other(m.to)])
  <2>1. m.to \in Sides /\ SegGood(m, sock[m.to], sock[Other(m.to)])
    BY DEF TcpInv
  <2>2. CASE m.to = e
    BY <2>1, <2>2, <1>1, <1>2, SegOn
  <2>3. CASE m.to = Other(e)
    <3>1. SegGood(m, h, sock[e])
      BY <2>1, <2>3, SidesDiffer
    <3>2. SegGood(m, h, d)
      BY <3>1, <1>2, SegOn
    <3> QED
      BY <2>1, <2>3, <3>2, <1>1, SidesDiffer
  <2> QED
    BY <2>1, <2>2, <2>3, SidesDiffer
<1>5. ASSUME NEW m \in sent
      PROVE  m.to \in Sides /\ SegGood(m, sock'[m.to], sock'[Other(m.to)])
  <2>1. Sends(m, e, d)
    OBVIOUS
  <2>2. m.to = Other(e) /\ m.ack = d.rcv_nxt
    BY <2>1 DEF Sends
  <2>3. Stands(m.ack, d, h)
    BY <2>2, <1>2 DEF Trails
  <2>4. m.flags = "FINACK" => Over(h, d)
    <3> SUFFICES ASSUME m.flags = "FINACK" PROVE Over(h, d)
      OBVIOUS
    <3>1. d.shut_local /\ DOMAIN d.out = {} /\ d.state # "CLOSED"
      BY <2>1 DEF Sends
    <3> QED
      BY <3>1, <1>2 DEF Trails, Over
  <2>5. SegGood(m, h, d)
    BY <2>1, <2>2, <2>3, <2>4 DEF SegGood, Sends
  <2> QED
    BY <2>2, <2>5, <1>1, SidesDiffer
<1> QED
  BY <1>1, <1>3, <1>4, <1>5 DEF TcpInv

\* The sockets k and d differ in what does not matter here.
SameSocket(k, d) ==
  /\ DOMAIN d = DOMAIN k
  /\ d.state = k.state /\ d.snd_nxt = k.snd_nxt /\ d.snd_last = k.snd_last
  /\ d.rcv_nxt = k.rcv_nxt /\ d.rcv_processed = k.rcv_processed
  /\ d.out = k.out /\ d.in = k.in /\ d.read = k.read /\ d.written = k.written
  /\ d.remote_closed = k.remote_closed /\ d.shut_local = k.shut_local
  /\ d.shut_remote = k.shut_remote /\ d.backoff = k.backoff /\ d.fin_tmr = k.fin_tmr

LEMMA AlikeAlters ==
  ASSUME NEW n, NEW k, NEW d, NEW h, Good(n, k, h), SameSocket(k, d)
  PROVE  Alters(n, k, d, h)
<1>1. IsSocket(d)
  BY DEF Good, Own, IsSocket, SameSocket
<1>2. QueuesGood(d)
  BY DEF Good, Own, QueuesGood, SameSocket
<1>3. StateGood(d)
  BY DEF Good, Own, StateGood, SameSocket, ToldEnd
<1>4. Bounded(n, d)
  BY DEF Good, Own, Bounded, SameSocket, Fins
<1>5. Got(d) = Got(k) /\ ToldEnd(d) = ToldEnd(k)
  BY DEF SameSocket, Got, ToldEnd
<1>6. Trails(d, h) /\ Trails(h, d)
  BY <1>5 DEF Good, Trails, SameSocket, Stands, Over
<1>7. Grows(k, d)
  BY <1>5 DEF Grows, SameSocket
<1> QED
  BY <1>1, <1>2, <1>3, <1>4, <1>6, <1>7 DEF Alters, Good, Own

LEMMA AltersOn ==
  ASSUME NEW n, NEW k, NEW b, NEW d, NEW h, Alters(n, k, b, h), Alters(n, b, d, h)
  PROVE  Alters(n, k, d, h)
BY DEF Alters, Grows

LEMMA AckedAlters ==
  ASSUME NEW W, NEW n, NEW k, NEW h, Good(n, k, h)
  PROVE  /\ Alters(n, k, Tcp(W)!Acked(k), h)
         /\ SameSocket(k, Tcp(W)!Acked(k))
<1> DEFINE d == Tcp(W)!Acked(k)
<1>1. SameSocket(k, d)
  BY DEF Good, Own, IsSocket, SameSocket, Tcp!Acked
<1> QED
  BY <1>1, AlikeAlters

\* A socket with what it received as it was.
LEMMA FollowsOn ==
  ASSUME NEW k, NEW d, NEW h, Trails(k, h), d.read = k.read, d.in = k.in,
         d.rcv_nxt = k.rcv_nxt, d.state # "CLOSED" => k.state # "CLOSED",
         ToldEnd(d) => ToldEnd(k)
  PROVE  Trails(d, h) /\ Got(d) = Got(k)
<1>1. Got(d) = Got(k)
  BY DEF Got
<1> QED
  BY <1>1 DEF Trails, Stands, Over

\* The socket d has acknowledged numbers below a only removed from its queue.
TakesAck(k, d, a) ==
  /\ DOMAIN d = DOMAIN k
  /\ d.state = k.state /\ d.snd_last = k.snd_last /\ d.written = k.written
  /\ d.rcv_nxt = k.rcv_nxt /\ d.rcv_processed = k.rcv_processed
  /\ d.in = k.in /\ d.read = k.read /\ d.remote_closed = k.remote_closed
  /\ d.shut_local = k.shut_local /\ d.shut_remote = k.shut_remote /\ d.fin_tmr = k.fin_tmr
  /\ DOMAIN d.out \subseteq DOMAIN k.out
  /\ \A s \in DOMAIN k.out : s \in DOMAIN d.out \/ s < a
  /\ \A s \in DOMAIN d.out : d.out[s] = k.out[s]
  /\ d.snd_nxt = k.snd_nxt \/ d.snd_nxt \in DOMAIN d.out
  /\ d.backoff = k.backoff \/ d.backoff = 0

LEMMA LeastIs ==
  ASSUME NEW W, NEW S \in SUBSET Nat, S # {}
  PROVE  Tcp(W)!Least(S) \in S /\ \A x \in S : Tcp(W)!Least(S) <= x
<1>1. \E x \in S : \A y \in S : x <= y
  BY SmallestExists
<1> QED
  BY <1>1 DEF Tcp!Least

LEMMA TcpAckTakes ==
  ASSUME NEW W, NEW n, NEW k, Own(n, k), NEW a \in Nat
  PROVE  TakesAck(k, Tcp(W)!TcpAck(k, a), a)
<1> DEFINE d == Tcp(W)!TcpAck(k, a)
           acked == {s \in DOMAIN k.out : s + 1 <= a}
           rest == Tcp(W)!Drop(k.out, acked)
<1>1. /\ DOMAIN rest = DOMAIN k.out \ acked
      /\ \A s \in DOMAIN rest : rest[s] = k.out[s]
  BY DEF Tcp!Drop
<1>2. DOMAIN rest \in SUBSET Nat
  <2>1. DOMAIN k.out \subseteq 1 .. k.snd_last /\ k.snd_last \in Nat
    BY DEF Own, QueuesGood, IsSocket
  <2>2. DOMAIN rest \subseteq DOMAIN k.out
    BY <1>1
  <2> QED
    BY <2>1, <2>2
<1>3. DOMAIN rest # {} => Tcp(W)!Least(DOMAIN rest) \in DOMAIN rest
  BY <1>2, LeastIs
<1>4. \A s \in DOMAIN k.out : s \in DOMAIN rest \/ s < a
  BY <1>1 DEF Own, QueuesGood, IsSocket
<1>5. d = [k EXCEPT
        !.out = rest,
        !.snd_nxt = IF k.blackout /\ acked # {} /\ DOMAIN rest # {}
                    THEN Tcp(W)!Least(DOMAIN rest) ELSE @,
        !.backoff = IF k.blackout \/ acked # {} \/ DOMAIN rest = {} THEN 0 ELSE @,
        !.blackout = FALSE,
        !.retrans_tmr = TRUE]
  BY DEF Tcp!TcpAck
<1> HIDE DEF rest, d, acked
<1>6. d.out = rest /\ (d.snd_nxt = k.snd_nxt \/ d.snd_nxt \in DOMAIN rest)
  BY <1>3, <1>5 DEF Own, IsSocket
<1>7. d.backoff = k.backoff \/ d.backoff = 0
  BY <1>5 DEF Own, IsSocket
<1>8. /\ DOMAIN d = DOMAIN k
      /\ d.state = k.state /\ d.snd_last = k.snd_last /\ d.written = k.written
      /\ d.rcv_nxt = k.rcv_nxt /\ d.rcv_processed = k.rcv_processed
      /\ d.in = k.in /\ d.read = k.read /\ d.remote_closed = k.remote_closed
      /\ d.shut_local = k.shut_local /\ d.shut_remote = k.shut_remote /\ d.fin_tmr = k.fin_tmr
  BY <1>5 DEF Own, IsSocket
<1> QED
  BY <1>1, <1>4, <1>6, <1>7, <1>8 DEF TakesAck, d

LEMMA FinsAreCounted ==
  ASSUME NEW n, NEW k, Own(n, k)
  PROVE  Fins(k) \in Nat
<1>1. Len(k.read) \in Nat
  BY DEF Own, QueuesGood
<1>2. \A b : Once(b) \in 0 .. 1
  BY DEF Once
<1> QED
  BY <1>1, <1>2 DEF Fins

LEMMA TakenAlters ==
  ASSUME NEW n \in Nat, NEW k, NEW d, NEW h, NEW a \in Nat, Good(n, k, h), TakesAck(k, d, a),
         Stands(a, h, k), SegmentRetries \in Nat
  PROVE  Alters(n, k, d, h)
<1>1. IsSocket(d)
  <2>1. \A s \in DOMAIN d.out : s \in Nat
    BY DEF Good, Own, QueuesGood, TakesAck
  <2> QED
    BY <2>1 DEF Good, Own, IsSocket, TakesAck
<1>2. QueuesGood(d)
  BY DEF Good, Own, QueuesGood, TakesAck
<1>3. StateGood(d)
  BY DEF Good, Own, StateGood, TakesAck, ToldEnd
<1>4. Bounded(n, d)
  <2>1. Fins(d) = Fins(k) /\ Fins(k) \in Nat
    <3>1. d.read = k.read /\ d.shut_remote = k.shut_remote /\ d.state = k.state
      BY DEF TakesAck
    <3> QED
      BY <3>1, FinsAreCounted DEF Fins, Good
  <2>2. \A s \in DOMAIN d.out : s \in Nat /\ s <= n
    <3>1. k.snd_last \in Nat /\ k.snd_last <= n /\ DOMAIN d.out \subseteq 1 .. k.snd_last
      BY DEF Good, Own, QueuesGood, TakesAck, Bounded, IsSocket
    <3> QED
      BY <3>1
  <2> QED
    BY <2>1, <2>2 DEF Good, Own, IsSocket, Bounded, TakesAck
<1>5. Trails(d, h) /\ Got(d) = Got(k)
  BY FollowsOn DEF Good, TakesAck, ToldEnd
<1>6. Grows(k, d)
  BY <1>5 DEF Grows, TakesAck
<1>7. Trails(h, d)
  <2>1. Got(h) \subseteq 1 .. d.snd_last /\ Stands(h.rcv_nxt, h, d) /\ (ToldEnd(h) => Over(h, d))
    BY DEF Good, Trails, TakesAck, Stands, Over
  <2>2. ASSUME h.state # "CLOSED", d.state # "CLOSED", NEW s \in 1 .. d.snd_last, s \notin DOMAIN d.out
        PROVE  s \in Got(h)
    <3>1. s \in 1 .. k.snd_last /\ k.state # "CLOSED"
      BY <2>2 DEF TakesAck
    <3>2. CASE s \in DOMAIN k.out
      BY <3>1, <3>2, <2>2 DEF TakesAck, Stands
    <3>3. CASE s \notin DOMAIN k.out
      BY <3>1, <3>3, <2>2 DEF Good, Trails
    <3> QED
      BY <3>2, <3>3
  <2> QED
    BY <2>1, <2>2 DEF Trails
<1> QED
  BY <1>1, <1>2, <1>3, <1>4, <1>5, <1>6, <1>7 DEF Alters, Good, Own

\* A socket with what it sent as it was.
LEMMA LedOn ==
  ASSUME NEW k, NEW d, NEW h, Trails(h, k), d.snd_last = k.snd_last,
         k.shut_local => d.shut_local,
         d.state # "CLOSED" => k.state # "CLOSED" /\ DOMAIN d.out = DOMAIN k.out
  PROVE  Trails(h, d)
<1>1. Got(h) \subseteq 1 .. d.snd_last /\ Stands(h.rcv_nxt, h, d) /\ (ToldEnd(h) => Over(h, d))
  BY DEF Trails, Stands, Over
<1>2. ASSUME h.state # "CLOSED", d.state # "CLOSED"
      PROVE  \A s \in 1 .. d.snd_last : s \notin DOMAIN d.out => s \in Got(h)
  BY <1>2 DEF Trails
<1> QED
  BY <1>1, <1>2 DEF Trails

LEMMA AltersIf ==
  ASSUME NEW n, NEW k, NEW d, NEW h, Good(n, k, h), Own(n, d),
         d.read = k.read, d.in = k.in, d.rcv_nxt = k.rcv_nxt, ToldEnd(d) => ToldEnd(k),
         d.snd_last = k.snd_last, k.shut_local => d.shut_local,
         (d.state = "CLOSED") = (k.state = "CLOSED"), DOMAIN d.out = DOMAIN k.out
  PROVE  Alters(n, k, d, h)
<1>1. Trails(d, h) /\ Got(d) = Got(k)
  BY FollowsOn DEF Good
<1>2. Trails(h, d)
  BY LedOn DEF Good
<1>3. Grows(k, d)
  BY <1>1 DEF Grows
<1> QED
  BY <1>1, <1>2, <1>3 DEF Alters, Good

LEMMA DelAlters ==
  ASSUME NEW W, NEW n \in Nat, NEW k, NEW h, Good(n, k, h)
  PROVE  Alters(n, k, Tcp(W)!Del(k), h) /\ Tcp(W)!Del(k).rcv_nxt = k.rcv_nxt
<1> DEFINE d == Tcp(W)!Del(k)
<1>1. /\ DOMAIN d = DOMAIN k
      /\ d.state = "CLOSED" /\ d.snd_nxt = k.snd_nxt /\ d.snd_last = k.snd_last
      /\ d.rcv_nxt = k.rcv_nxt /\ d.out = <<>> /\ d.in = <<>> /\ d.read = k.read
      /\ d.written = k.written /\ d.backoff = k.backoff /\ d.shut_local = k.shut_local
      /\ d.remote_closed = k.remote_closed /\ d.shut_remote = k.shut_remote
  BY DEF Good, Own, IsSocket, Tcp!Del
<1>2. DOMAIN d.out = {} /\ DOMAIN d.in = {}
  BY <1>1
<1> HIDE DEF d
<1>3. IsSocket(d)
  BY <1>1 DEF Good, Own, IsSocket
<1>4. QueuesGood(d)
  BY <1>1, <1>2, FS_EmptySet DEF Good, Own, QueuesGood
<1>5. StateGood(d)
  BY <1>1 DEF StateGood, Early, Talking, FinStates
<1>6. Bounded(n, d)
  <2>1. Fins(k) <= Fins(d) /\ Fins(k) \in Nat /\ Fins(d) \in Nat
    <3>1. Len(k.read) \in Nat
      BY DEF Good, Own, QueuesGood
    <3>2. d.read = k.read /\ d.shut_remote = k.shut_remote /\ d.state = "CLOSED"
      BY <1>1
    <3>3. /\ Once(d.state \in FinStates \cup {"CLOSED"}) = 1
          /\ \A b : Once(b) \in 0 .. 1
      BY <3>2 DEF Once
    <3> QED
      BY <3>1, <3>2, <3>3 DEF Fins
  <2> QED
    BY <2>1, <1>1 DEF Good, Own, Bounded, IsSocket
<1>7. Got(d) \subseteq Got(k)
  BY <1>1, <1>2 DEF Got
<1>8. Trails(d, h)
  BY <1>1, <1>7 DEF Good, Trails, Stands, Over, ToldEnd
<1>9. Trails(h, d)
  BY <1>1, LedOn DEF Good
<1>10. Grows(k, d)
  BY <1>1 DEF Grows
<1> QED
  BY <1>1, <1>3, <1>4, <1>5, <1>6, <1>8, <1>9, <1>10 DEF Alters, Good, Own, d

LEMMA TcpAckAlters ==
  ASSUME NEW W, NEW n \in Nat, NEW k, NEW h, NEW a \in Nat, Good(n, k, h), Stands(a, h, k),
         SegmentRetries \in Nat
  PROVE  /\ Alters(n, k, Tcp(W)!TcpAck(k, a), h)
         /\ TakesAck(k, Tcp(W)!TcpAck(k, a), a)
<1>1. TakesAck(k, Tcp(W)!TcpAck(k, a), a)
  BY TcpAckTakes DEF Good
<1> QED
  BY <1>1, TakenAlters

\* The first acknowledgement: the connection is established.
LEMMA FirstAckAlters ==
  ASSUME NEW W, NEW n \in Nat, NEW k, NEW h, NEW m, Good(n, k, h), k.state = "SYN_RECV",
         m.ack \in Nat, Stands(m.ack, h, k), SegmentRetries \in Nat
  PROVE  /\ Alters(n, k, Tcp(W)!FirstAck(k, m), h)
         /\ Tcp(W)!FirstAck(k, m).state = "ESTABLISHED"
<1> DEFINE b == [k EXCEPT !.rcv_processed = k.rcv_nxt]
           c == Tcp(W)!TcpAck(b, m.ack)
           d == Tcp(W)!FirstAck(k, m)
<1>1. /\ DOMAIN b = DOMAIN k
      /\ b.state = k.state /\ b.snd_nxt = k.snd_nxt /\ b.snd_last = k.snd_last
      /\ b.rcv_nxt = k.rcv_nxt /\ b.rcv_processed = k.rcv_nxt
      /\ b.out = k.out /\ b.in = k.in /\ b.read = k.read /\ b.written = k.written
      /\ b.remote_closed = k.remote_closed /\ b.shut_local = k.shut_local
      /\ b.shut_remote = k.shut_remote /\ b.backoff = k.backoff /\ b.fin_tmr = k.fin_tmr
  BY DEF Good, Own, IsSocket
<1>2. d = [c EXCEPT !.state = "ESTABLISHED"]
  BY DEF Tcp!FirstAck
<1> HIDE DEF b, d
<1>3. Own(n, b)
  <2>1. IsSocket(b)
    BY <1>1 DEF Good, Own, IsSocket
  <2>2. QueuesGood(b)
    BY <1>1 DEF Good, Own, QueuesGood
  <2>3. StateGood(b)
    BY <1>1 DEF Good, Own, StateGood, ToldEnd, Talking, FinStates
  <2>4. Bounded(n, b)
    BY <1>1 DEF Good, Own, Bounded, Fins
  <2> QED
    BY <2>1, <2>2, <2>3, <2>4 DEF Own
<1>4. Alters(n, k, b, h)
  BY <1>1, <1>3, AltersIf DEF ToldEnd
<1>5. Good(n, b, h) /\ Stands(m.ack, h, b)
  BY <1>1, <1>4 DEF Alters, Stands
<1>6. Alters(n, b, c, h) /\ TakesAck(b, c, m.ack)
  BY <1>5, TcpAckAlters
<1> HIDE DEF c
<1>7. Good(n, c, h) /\ IsSocket(c)
  BY <1>6 DEF Alters, Good, Own
<1>8. /\ DOMAIN d = DOMAIN c /\ d.state = "ESTABLISHED"
      /\ d.snd_nxt = c.snd_nxt /\ d.snd_last = c.snd_last
      /\ d.rcv_nxt = c.rcv_nxt /\ d.rcv_processed = c.rcv_processed
      /\ d.out = c.out /\ d.in = c.in /\ d.read = c.read /\ d.written = c.written
      /\ d.remote_closed = c.remote_closed /\ d.shut_local = c.shut_local
      /\ d.shut_remote = c.shut_remote /\ d.backoff = c.backoff /\ d.fin_tmr = c.fin_tmr
  BY <1>2, <1>7 DEF IsSocket
<1>9. Own(n, d)
  <2>1. IsSocket(d)
    BY <1>7, <1>8 DEF IsSocket, Talking
  <2>2. QueuesGood(d)
    BY <1>7, <1>8 DEF Good, Own, QueuesGood
  <2>3. StateGood(d)
    <3>1. c.state = "SYN_RECV" /\ c.rcv_processed = k.rcv_nxt
      BY <1>1, <1>6 DEF TakesAck
    <3>2. /\ k.rcv_nxt = 1 /\ c.rcv_nxt = 1 /\ DOMAIN c.in = {} /\ Len(c.read) = 0
          /\ ~ToldEnd(c)
      BY <3>1, <1>7 DEF Good, Own, StateGood, Early
    <3> QED
      BY <3>1, <3>2, <1>8 DEF StateGood, Early, FinStates, ToldEnd
  <2>4. Bounded(n, d)
    <3>1. Fins(d) = Fins(c)
      BY <1>1, <1>6, <1>8 DEF Fins, TakesAck, FinStates
    <3> QED
      BY <3>1, <1>7, <1>8 DEF Good, Own, Bounded
  <2> QED
    BY <2>1, <2>2, <2>3, <2>4 DEF Own
<1>10. Alters(n, c, d, h)
  <2>1. c.state = "SYN_RECV"
    BY <1>1, <1>6 DEF TakesAck
  <2> QED
    BY <2>1, <1>7, <1>8, <1>9, AltersIf DEF ToldEnd
<1>11. Alters(n, k, d, h)
  BY <1>4, <1>6, <1>10, AltersOn
<1> QED
  BY <1>8, <1>11 DEF d

\* The next number that is not in the queue.
LEMMA ContiguousIs ==
  ASSUME NEW W, NEW in, DOMAIN in \subseteq Nat, IsFiniteSet(DOMAIN in), NEW n \in Nat
  PROVE  /\ Tcp(W)!Contiguous(in, n) \in Nat /\ Tcp(W)!Contiguous(in, n) >= n
         /\ Tcp(W)!Contiguous(in, n) \notin DOMAIN in
         /\ \A s \in n .. Tcp(W)!Contiguous(in, n) - 1 : s \in DOMAIN in
<1> DEFINE c == Cardinality(DOMAIN in)
           S == {m \in n .. n + c : m \notin DOMAIN in}
<1>1. c \in Nat
  BY FS_CardinalityType
<1> HIDE DEF c
<1>2. S # {}
  <2> SUFFICES ASSUME S = {} PROVE FALSE
    OBVIOUS
  <2>1. n .. n + c \subseteq DOMAIN in
    OBVIOUS
  <2>2. Cardinality(n .. n + c) = c + 1
    <3>1. n \in Int /\ n + c \in Int /\ n <= n + c
      BY <1>1
    <3>2. Cardinality(n .. n + c) = IF n <= n + c THEN (n + c) - n + 1 ELSE 0
      BY <3>1, FS_Interval
    <3> QED
      BY <1>1, <3>1, <3>2
  <2>3. Cardinality(n .. n + c) <= Cardinality(DOMAIN in)
    BY <2>1, FS_Subset
  <2> QED
    BY <1>1, <2>2, <2>3 DEF c
<1>3. S \in SUBSET Nat
  BY <1>1
<1>4. Tcp(W)!Contiguous(in, n) = Tcp(W)!Least(S)
  BY DEF Tcp!Contiguous, c, Cardinality, Tcp!Cardinality
<1> DEFINE x == Tcp(W)!Least(S)
<1>5. x \in S /\ \A y \in S : x <= y
  BY <1>2, <1>3, LeastIs
<1>6. \A s \in n .. x - 1 : s \in DOMAIN in
  <2> SUFFICES ASSUME NEW s \in n .. x - 1, s \notin DOMAIN in PROVE FALSE
    OBVIOUS
  <2>1. x \in n .. n + c
    BY <1>5
  <2> HIDE DEF x
  <2>2. s \in S /\ s < x
    BY <1>1, <2>1
  <2> QED
    BY <1>5, <2>2, <2>1 DEF x
<1> QED
  BY <1>1, <1>4, <1>5, <1>6

LEMMA DataInAlters ==
  ASSUME NEW W, NEW n \in Nat, NEW k, NEW h, Good(n, k, h),
         k.state \in {"ESTABLISHED", "FIN_WAIT1", "FIN_WAIT2"},
         NEW m, m.seq \in 1 .. h.snd_last, m.data = m.seq, h.snd_last \in Nat
  PROVE  Alters(n, k, Tcp(W)!DataIn(k, m), h)
<1>1. CASE m.seq < k.rcv_nxt
  BY <1>1, AckedAlters DEF Tcp!DataIn
<1> SUFFICES ASSUME ~(m.seq < k.rcv_nxt) PROVE Alters(n, k, Tcp(W)!DataIn(k, m), h)
  BY <1>1
<1> DEFINE in == [s \in DOMAIN k.in \cup {m.seq} |-> IF s = m.seq THEN m.data ELSE k.in[s]]
           c == Tcp(W)!Contiguous(in, k.rcv_nxt)
           d == Tcp(W)!DataIn(k, m)
<1>2. d = [[k EXCEPT !.in = in, !.rcv_nxt = c] EXCEPT !.rcv_ackd = c]
  <2>1. d = Tcp(W)!Acked([k EXCEPT !.in = in, !.rcv_nxt = Tcp(W)!Contiguous(in, @)])
    BY DEF Tcp!DataIn
  <2> HIDE DEF in
  <2>2. k.rcv_nxt = k["rcv_nxt"] /\ [k EXCEPT !.in = in, !.rcv_nxt = c].rcv_nxt = c
    BY DEF Good, Own, IsSocket
  <2> QED
    BY <2>1, <2>2 DEF Tcp!Acked
<1>3. /\ DOMAIN in = DOMAIN k.in \cup {m.seq}
      /\ \A s \in DOMAIN in : in[s] = IF s = m.seq THEN m.data ELSE k.in[s]
  OBVIOUS
<1> HIDE DEF d, in, c
<1>4. /\ DOMAIN d = DOMAIN k
      /\ d.state = k.state /\ d.snd_nxt = k.snd_nxt /\ d.snd_last = k.snd_last
      /\ d.rcv_nxt = c /\ d.rcv_processed = k.rcv_processed
      /\ d.out = k.out /\ d.in = in /\ d.read = k.read /\ d.written = k.written
      /\ d.remote_closed = k.remote_closed /\ d.shut_local = k.shut_local
      /\ d.shut_remote = k.shut_remote /\ d.backoff = k.backoff /\ d.fin_tmr = k.fin_tmr
  BY <1>2 DEF Good, Own, IsSocket
<1>5. /\ k.rcv_nxt \in Nat /\ Len(k.read) \in Nat /\ m.seq \in Nat /\ m.seq >= 1
      /\ \A s \in DOMAIN k.in : s \in Nat /\ k.in[s] = s /\ s > Len(k.read)
      /\ IsFiniteSet(DOMAIN k.in)
  BY DEF Good, Own, IsSocket, QueuesGood
<1>6. /\ ~k.shut_remote
      /\ k.rcv_processed = Len(k.read) + 1 /\ Len(k.read) < k.rcv_nxt
      /\ m.seq > Len(k.read)
  BY <1>5 DEF Good, Own, StateGood, Talking, FinStates
<1>7. DOMAIN in \subseteq Nat /\ IsFiniteSet(DOMAIN in)
  BY <1>3, <1>5, FS_AddElement
<1>8. /\ c \in Nat /\ c >= k.rcv_nxt /\ c \notin DOMAIN in
      /\ \A s \in k.rcv_nxt .. c - 1 : s \in DOMAIN in
  BY <1>5, <1>7, ContiguousIs DEF c
<1>9. \A s \in DOMAIN in : s \in Nat /\ in[s] = s /\ s > Len(k.read)
  BY <1>3, <1>5, <1>6
<1>10. IsSocket(d)
  BY <1>4, <1>8 DEF Good, Own, IsSocket
<1>11. QueuesGood(d)
  BY <1>4, <1>7, <1>9 DEF Good, Own, QueuesGood
<1>12. StateGood(d)
  BY <1>4, <1>5, <1>6, <1>8 DEF Good, Own, StateGood, Early, ToldEnd
<1>13. Bounded(n, d)
  <2>1. Fins(d) = Fins(k)
    BY <1>4 DEF Fins
  <2> QED
    BY <2>1, <1>4 DEF Good, Own, Bounded
<1>14. Got(d) = Got(k) \cup {m.seq} /\ ToldEnd(d) = ToldEnd(k)
  BY <1>3, <1>4 DEF Got, ToldEnd
<1>15. Got(d) \subseteq 1 .. h.snd_last /\ Got(k) \subseteq Got(d)
  BY <1>14 DEF Good, Trails
<1>16. Stands(d.rcv_nxt, d, h)
  <2>1. Stands(k.rcv_nxt, k, h) /\ k.state # "CLOSED"
    BY DEF Good, Trails
  <2>2. \A s \in 1 .. h.snd_last : s < c => s \in Got(d)
    <3> SUFFICES ASSUME NEW s \in 1 .. h.snd_last, s < c PROVE s \in Got(d)
      OBVIOUS
    <3>1. CASE s < k.rcv_nxt
      BY <3>1, <2>1, <1>15 DEF Stands
    <3>2. CASE ~(s < k.rcv_nxt)
      <4>1. s \in k.rcv_nxt .. c - 1
        BY <3>2, <1>5, <1>8
      <4> QED
        BY <4>1, <1>8, <1>4 DEF Got
    <3> QED
      BY <3>1, <3>2
  <2>3. ~h.shut_local => c <= h.snd_last + 1
    <3>1. CASE c = k.rcv_nxt
      BY <3>1, <2>1 DEF Stands
    <3>2. CASE c # k.rcv_nxt
      <4>1. c - 1 \in k.rcv_nxt .. c - 1
        BY <3>2, <1>5, <1>8
      <4>2. c - 1 \in DOMAIN in
        BY <4>1, <1>8
      <4>3. c - 1 \in Got(d)
        BY <4>2, <1>4 DEF Got
      <4> QED
        BY <4>3, <1>8, <1>15
    <3> QED
      BY <3>1, <3>2
  <2> QED
    BY <2>2, <2>3, <1>4, <1>8 DEF Stands
<1>17. ToldEnd(d) => Over(d, h)
  BY <1>14, <1>15, <1>4 DEF Good, Trails, Over
<1>18. \A s \in 1 .. h.snd_last : s \notin DOMAIN h.out /\ h.state # "CLOSED" => s \in Got(d)
  BY <1>15 DEF Good, Trails
<1>19. Trails(d, h)
  BY <1>15, <1>16, <1>17, <1>18 DEF Trails
<1>20. Trails(h, d)
  BY <1>4, LedOn DEF Good
<1>21. Grows(k, d)
  BY <1>4, <1>15 DEF Grows
<1> QED
  BY <1>10, <1>11, <1>12, <1>13, <1>19, <1>20, <1>21 DEF Alters, Good, Own, d

\* Whose stream is all here has a next number after it.
LEMMA OverMeans ==
  ASSUME NEW n, NEW k, NEW h, Good(n, k, h), Over(k, h), k.state # "CLOSED",
         Len(k.read) < k.rcv_nxt, k.rcv_nxt \notin DOMAIN k.in, h.snd_last \in Nat
  PROVE  k.rcv_nxt > h.snd_last /\ k.rcv_nxt + 1 \notin DOMAIN k.in
<1>1. k.rcv_nxt \in Nat /\ Len(k.read) \in Nat
  BY DEF Good, Own, IsSocket, QueuesGood
<1>2. (1 .. Len(k.read)) \cup DOMAIN k.in = 1 .. h.snd_last
  BY DEF Over, Got
<1>3. k.rcv_nxt \notin 1 .. h.snd_last
  BY <1>1, <1>2
<1>4. k.rcv_nxt > h.snd_last
  BY <1>1, <1>3
<1>5. k.rcv_nxt + 1 \notin 1 .. h.snd_last
  BY <1>1, <1>4
<1> QED
  BY <1>2, <1>4, <1>5

\* The FIN is taken: the number moves past it.
LEMMA FinTaken ==
  ASSUME NEW n, NEW k, NEW d, NEW h, Good(n, k, h), Own(n, d), Over(k, h),
         k.state # "CLOSED", d.state # "CLOSED",
         d.read = k.read, d.in = k.in, d.rcv_nxt = k.rcv_nxt + 1,
         d.snd_last = k.snd_last, k.shut_local => d.shut_local, d.out = k.out
  PROVE  Alters(n, k, d, h)
<1>1. Got(d) = Got(k) /\ Got(k) = 1 .. h.snd_last /\ h.shut_local
  BY DEF Got, Over
<1>2. k.rcv_nxt + 1 \in Nat
  BY DEF Good, Own, IsSocket
<1>3. Stands(d.rcv_nxt, d, h) /\ Over(d, h)
  BY <1>1, <1>2 DEF Stands, Over
<1>4. Trails(d, h)
  BY <1>1, <1>3 DEF Trails
<1>5. Trails(h, d)
  BY LedOn DEF Good
<1>6. Grows(k, d)
  BY <1>1 DEF Grows
<1> QED
  BY <1>4, <1>5, <1>6 DEF Alters, Good

LEMMA FinAckAlters ==
  ASSUME NEW W, NEW n \in Nat, NEW k, NEW h, Good(n, k, h), Over(k, h),
         k.state \in {"FIN_WAIT1", "FIN_WAIT2"}, h.snd_last \in Nat
  PROVE  Alters(n, k, Tcp(W)!FinAck(k), h)
<1> DEFINE b == [k EXCEPT !.rcv_nxt = @ + 1]
           d == Tcp(W)!FinAck(k)
<1>1. d = [[b EXCEPT !.rcv_ackd = b.rcv_nxt] EXCEPT
             !.state = "TIME_WAIT", !.shut_remote = TRUE, !.fin_tmr = TRUE]
  BY DEF Tcp!FinAck, Tcp!Acked
<1> HIDE DEF d
<1>2. /\ DOMAIN d = DOMAIN k
      /\ d.state = "TIME_WAIT" /\ d.snd_nxt = k.snd_nxt /\ d.snd_last = k.snd_last
      /\ d.rcv_nxt = k.rcv_nxt + 1 /\ d.rcv_processed = k.rcv_processed
      /\ d.out = k.out /\ d.in = k.in /\ d.read = k.read /\ d.written = k.written
      /\ d.remote_closed = k.remote_closed /\ d.shut_local = k.shut_local
      /\ d.shut_remote = TRUE /\ d.backoff = k.backoff /\ d.fin_tmr = TRUE
  BY <1>1 DEF Good, Own, IsSocket
<1>3. /\ ~k.shut_remote
      /\ k.rcv_processed = Len(k.read) + 1 /\ Len(k.read) < k.rcv_nxt
      /\ k.rcv_nxt \notin DOMAIN k.in /\ Len(k.read) \in Nat /\ k.rcv_nxt \in Nat
  BY DEF Good, Own, StateGood, Talking, FinStates, QueuesGood, IsSocket
<1>4. k.rcv_nxt + 1 \notin DOMAIN k.in
  BY <1>3, OverMeans
<1>5. IsSocket(d)
  <2>1. d.state \in Early \cup Talking \cup {"CLOSED"}
    BY <1>2 DEF Talking, FinStates
  <2>2. d.remote_closed \in BOOLEAN /\ d.shut_local \in BOOLEAN /\ d.shut_remote \in BOOLEAN
    BY <1>2 DEF Good, Own, IsSocket
  <2> QED
    BY <2>1, <2>2, <1>2, <1>3 DEF Good, Own, IsSocket
<1>6. QueuesGood(d)
  BY <1>2 DEF Good, Own, QueuesGood
<1>7. StateGood(d)
  BY <1>2, <1>3, <1>4 DEF StateGood, Early
<1>8. Bounded(n, d)
  <2>1. Fins(d) = Fins(k) + 1
    <3>1. Once(d.shut_remote) = 1 /\ Once(k.shut_remote) = 0
      BY <1>2, <1>3 DEF Once
    <3>2. /\ d.state \in FinStates \cup {"CLOSED"} /\ k.state \in FinStates \cup {"CLOSED"}
      BY <1>2 DEF FinStates
    <3>3. /\ Once(d.state \in FinStates \cup {"CLOSED"}) = 1
          /\ Once(k.state \in FinStates \cup {"CLOSED"}) = 1
      BY <3>2 DEF Once
    <3> QED
      BY <3>1, <3>3, <1>2, <1>3 DEF Fins
  <2>2. Fins(k) \in Nat
    BY FinsAreCounted DEF Good
  <2> QED
    BY <2>1, <2>2, <1>2 DEF Good, Own, Bounded, IsSocket
<1>9. Alters(n, k, d, h)
  BY <1>2, <1>5, <1>6, <1>7, <1>8, FinTaken DEF Own
<1> QED
  BY <1>9 DEF d

LEMMA ClosewaitAlters ==
  ASSUME NEW W, NEW n \in Nat, NEW k, NEW h, NEW seq, Good(n, k, h), Over(k, h),
         k.state \in {"ESTABLISHED", "CLOSE_WAIT"}, h.snd_last \in Nat
  PROVE  Alters(n, k, Tcp(W)!AttemptClosewait(k, seq), h)
<1> DEFINE d == Tcp(W)!AttemptClosewait(k, seq)
<1>1. CASE seq # k.rcv_nxt
  <2>1. d = k
    BY <1>1 DEF Tcp!AttemptClosewait
  <2>2. SameSocket(k, k)
    BY DEF SameSocket
  <2> QED
    BY <2>1, <2>2, AlikeAlters
<1>2. CASE seq = k.rcv_nxt
  <2>1. \/ seq = k.rcv_processed /\ d = [k EXCEPT !.rcv_nxt = seq + 1, !.shut_remote = TRUE,
                 !.state = IF @ = "ESTABLISHED" THEN "CLOSE_WAIT" ELSE @]
        \/ d = [k EXCEPT !.rcv_nxt = seq + 1, !.remote_closed = TRUE]
    BY <1>2 DEF Tcp!AttemptClosewait
  <2> HIDE DEF d
  <2>2. /\ DOMAIN d = DOMAIN k
        /\ d.snd_nxt = k.snd_nxt /\ d.snd_last = k.snd_last
        /\ d.rcv_nxt = k.rcv_nxt + 1 /\ d.rcv_processed = k.rcv_processed
        /\ d.out = k.out /\ d.in = k.in /\ d.read = k.read /\ d.written = k.written
        /\ d.shut_local = k.shut_local /\ d.backoff = k.backoff /\ d.fin_tmr = k.fin_tmr
        /\ \/ /\ d.state = "CLOSE_WAIT" /\ d.shut_remote = TRUE
              /\ d.remote_closed = k.remote_closed
           \/ d.state = k.state /\ d.shut_remote = k.shut_remote /\ d.remote_closed = TRUE
    <3>1. CASE seq = k.rcv_processed /\ d = [k EXCEPT !.rcv_nxt = seq + 1,
                 !.shut_remote = TRUE,
                 !.state = IF @ = "ESTABLISHED" THEN "CLOSE_WAIT" ELSE @]
      <4>1. d.state = "CLOSE_WAIT" /\ d.shut_remote = TRUE
        BY <3>1 DEF Good, Own, IsSocket
      <4> QED
        BY <1>2, <3>1, <4>1 DEF Good, Own, IsSocket
    <3>2. CASE d = [k EXCEPT !.rcv_nxt = seq + 1, !.remote_closed = TRUE]
      <4>1. d.state = k.state /\ d.shut_remote = k.shut_remote /\ d.remote_closed = TRUE
        BY <3>2 DEF Good, Own, IsSocket
      <4> QED
        BY <1>2, <3>2, <4>1 DEF Good, Own, IsSocket
    <3> QED
      BY <2>1, <3>1, <3>2
  <2>3. k.rcv_nxt \in Nat /\ Len(k.read) \in Nat /\ k.state \in Talking /\ k.state # "CLOSED"
    BY DEF Good, Own, IsSocket, QueuesGood, Talking
  <2>4. \/ /\ k.rcv_processed = Len(k.read) + 1 /\ Len(k.read) < k.rcv_nxt
           /\ k.rcv_nxt + 1 \notin DOMAIN k.in
        \/ k.shut_remote /\ DOMAIN k.in = {} /\ Len(k.read) = 0
    <3>1. \/ /\ k.rcv_processed = Len(k.read) + 1 /\ Len(k.read) < k.rcv_nxt
             /\ k.rcv_nxt \notin DOMAIN k.in
          \/ k.shut_remote /\ DOMAIN k.in = {} /\ Len(k.read) = 0
      BY <2>3 DEF Good, Own, StateGood
    <3> QED
      BY <2>3, <3>1, OverMeans
  <2>5. d.state \in {"ESTABLISHED", "CLOSE_WAIT"} /\ d.shut_remote \in BOOLEAN
        /\ d.remote_closed \in BOOLEAN
    BY <2>2 DEF Good, Own, IsSocket
  <2>6. IsSocket(d)
    BY <2>2, <2>3, <2>5 DEF Good, Own, IsSocket, Talking
  <2>7. QueuesGood(d)
    BY <2>2 DEF Good, Own, QueuesGood
  <2>8. d.shut_remote => d.state # "ESTABLISHED"
    BY <2>2, <2>5 DEF Good, Own, StateGood
  <2>9. k.shut_remote => d.shut_remote
    BY <2>2
  <2>10. StateGood(d)
    <3>1. d.state \notin Early /\ d.state \notin FinStates
      BY <2>5 DEF Early, FinStates
    <3>2. \/ /\ d.rcv_processed = Len(d.read) + 1 /\ Len(d.read) < d.rcv_nxt
             /\ d.rcv_nxt \notin DOMAIN d.in
          \/ d.shut_remote /\ DOMAIN d.in = {} /\ Len(d.read) = 0
      BY <2>2, <2>3, <2>4, <2>9
    <3> QED
      BY <3>1, <3>2, <2>5, <2>8 DEF StateGood
  <2>11. Bounded(n, d)
    <3>1. Fins(k) \in Nat /\ Fins(d) \in Nat /\ Fins(k) <= Fins(d)
      <4>1. Once(d.state \in FinStates \cup {"CLOSED"}) = 0
            /\ Once(k.state \in FinStates \cup {"CLOSED"}) = 0
        BY <2>5 DEF Once, FinStates
      <4>2. Once(k.shut_remote) <= Once(d.shut_remote)
            /\ Once(k.shut_remote) \in 0 .. 1 /\ Once(d.shut_remote) \in 0 .. 1
        BY <2>9 DEF Once
      <4> QED
        BY <2>2, <2>3, <4>1, <4>2 DEF Fins
    <3> QED
      BY <2>2, <3>1 DEF Good, Own, Bounded, IsSocket
  <2>12. Alters(n, k, d, h)
    BY <2>2, <2>3, <2>5, <2>6, <2>7, <2>10, <2>11, FinTaken DEF Own
  <2> QED
    BY <2>12 DEF d
<1> QED
  BY <1>1, <1>2

\* The connection begins: nothing was sent or received, number 0 is the SYN.
LEMMA BeginAlters ==
  ASSUME NEW n \in Nat, NEW k, NEW d, NEW h, Good(n, k, h), IsSocket(d),
         k.state \in {"LISTEN", "SYN_SENT"}, h.snd_last \in Nat, SegmentRetries \in Nat,
         d.state = "SYN_RECV" \/ (d.state = "ESTABLISHED" /\ d.rcv_processed = 1),
         d.read = k.read, d.in = k.in, d.snd_last = k.snd_last, d.written = k.written,
         d.rcv_nxt = 1, d.snd_nxt = 1, DOMAIN d.out = {}, d.backoff = k.backoff \/ d.backoff = 0,
         d.shut_local = k.shut_local, d.shut_remote = k.shut_remote,
         d.remote_closed = k.remote_closed
  PROVE  Alters(n, k, d, h)
<1>1. /\ DOMAIN k.out = {} /\ DOMAIN k.in = {} /\ Len(k.read) = 0 /\ k.snd_last = 0
      /\ ~ToldEnd(k) /\ ~k.shut_local /\ k.state # "CLOSED"
  BY DEF Good, Own, StateGood, Early
<1>2. QueuesGood(d)
  BY <1>1 DEF Good, Own, QueuesGood
<1>3. StateGood(d)
  BY <1>1 DEF StateGood, Early, Talking, FinStates, ToldEnd
<1>4. Bounded(n, d)
  <2>1. Len(d.read) \in Nat /\ \A b : Once(b) \in 0 .. 1
    BY <1>1 DEF Once
  <2>2. Fins(d) \in Nat
    BY <2>1 DEF Fins
  <2> QED
    BY <2>2, <1>1 DEF Good, Own, Bounded, IsSocket
<1>5. Got(d) = {} /\ Got(k) = {}
  BY <1>1 DEF Got
<1>6. Stands(d.rcv_nxt, d, h)
  BY DEF Stands
<1>7. ASSUME h.state # "CLOSED" PROVE \A s \in 1 .. h.snd_last : s \in DOMAIN h.out
  BY <1>1, <1>5, <1>7 DEF Good, Trails
<1>8. Trails(d, h)
  BY <1>1, <1>5, <1>6, <1>7 DEF Trails, ToldEnd
<1>9. Trails(h, d)
  BY <1>1, LedOn DEF Good
<1>10. Grows(k, d)
  BY <1>1, <1>5 DEF Grows
<1> QED
  BY <1>2, <1>3, <1>4, <1>8, <1>9, <1>10 DEF Alters, Good, Own

LEMMA Becoming ==
  ASSUME NEW W, TcpInv(W), NEW e \in Sides, NEW d, NEW sent,
         Alters(W[e], sock[e], d, sock[Other(e)]),
         \A m \in sent : Sends(m, e, d), Tcp(W)!Becomes(e, d, sent)
  PROVE  TcpInv(W)'
BY TcpMoves DEF Tcp!Becomes

\* The segments that are not data.
LEMMA SegmentSends ==
  ASSUME NEW W, NEW e \in Sides, NEW k, NEW d, NEW flags, NEW seq, d.rcv_nxt = k.rcv_nxt,
         flags # "DATA", flags \in {"SYN", "SYNACK"} => seq = 0,
         flags = "FINACK" => d.shut_local /\ DOMAIN d.out = {} /\ d.state # "CLOSED"
  PROVE  Sends(Tcp(W)!Segment(e, k, flags, seq), e, d)
BY DEF Tcp!Segment, Sends, Tcp!Peer, Other

LEMMA DataSends ==
  ASSUME NEW W, NEW n, NEW e \in Sides, NEW k, NEW d, NEW s, Own(n, k), s \in DOMAIN k.out,
         d.rcv_nxt = k.rcv_nxt, d.snd_last = k.snd_last
  PROVE  Sends(Tcp(W)!DataSegment(e, k, s), e, d)
<1>1. s \in 1 .. k.snd_last /\ k.out[s] = s
  BY DEF Own, QueuesGood
<1>2. Tcp(W)!Segment(e, k, "DATA", s) =
        [to |-> Other(e), flags |-> "DATA", seq |-> s, ack |-> k.rcv_nxt, data |-> 0]
  BY DEF Tcp!Segment, Tcp!Peer, Other
<1>3. Tcp(W)!DataSegment(e, k, s) =
        [to |-> Other(e), flags |-> "DATA", seq |-> s, ack |-> k.rcv_nxt, data |-> k.out[s]]
  BY <1>2 DEF Tcp!DataSegment
<1> QED
  BY <1>1, <1>3 DEF Sends

\* An end, the other one and a segment of a good state.
LEMMA EndsAreGood ==
  ASSUME NEW W, Counting(W), TcpInv(W), NEW e \in Sides
  PROVE  /\ Good(W[e], sock[e], sock[Other(e)]) /\ W[e] \in Nat
         /\ sock[Other(e)].snd_last \in Nat /\ IsSocket(sock[e])
         /\ SegmentRetries \in Nat /\ SynRetries \in Nat
         /\ \A m \in segs : m.to = e => SegGood(m, sock[e], sock[Other(e)])
<1>1. Own(W[e], sock[e]) /\ Trails(sock[e], sock[Other(e)])
  BY DEF TcpInv
<1>2. Own(W[Other(e)], sock[Other(e)]) /\ Trails(sock[Other(e)], sock[e])
  BY SidesDiffer DEF TcpInv
<1>3. W[e] \in Nat
  BY DEF Counting, Sides
<1> QED
  BY <1>1, <1>2, <1>3 DEF Good, Own, IsSocket, TcpInv, Counting

LEMMA SendFinOwn ==
  ASSUME NEW W, NEW n \in Nat, NEW k, NEW h, NEW next, Good(n, k, h), SegmentRetries \in Nat,
         \/ k.state = "ESTABLISHED" /\ next = "FIN_WAIT1"
         \/ k.state = "CLOSE_WAIT" /\ next = "LAST_ACK"
  PROVE  /\ Alters(n, k, Tcp(W)!SendFin(k, next), h)
         /\ Tcp(W)!SendFin(k, next).rcv_nxt = k.rcv_nxt
         /\ Tcp(W)!SendFin(k, next).shut_local = k.shut_local
         /\ Tcp(W)!SendFin(k, next).out = k.out
         /\ Tcp(W)!SendFin(k, next).state # "CLOSED"
<1> DEFINE d == Tcp(W)!SendFin(k, next)
<1>1. d = [[k EXCEPT !.rcv_ackd = k.rcv_nxt] EXCEPT !.snd_nxt = @ + 1, !.state = next,
                                                   !.fin_tmr = TRUE]
  BY DEF Tcp!SendFin, Tcp!Acked
<1> HIDE DEF d
<1>2. /\ DOMAIN d = DOMAIN k
      /\ d.state = next /\ d.snd_nxt = k.snd_nxt + 1 /\ d.snd_last = k.snd_last
      /\ d.rcv_nxt = k.rcv_nxt /\ d.rcv_processed = k.rcv_processed
      /\ d.out = k.out /\ d.in = k.in /\ d.read = k.read /\ d.written = k.written
      /\ d.remote_closed = k.remote_closed /\ d.shut_local = k.shut_local
      /\ d.shut_remote = k.shut_remote /\ d.backoff = k.backoff /\ d.fin_tmr = TRUE
  BY <1>1 DEF Good, Own, IsSocket
<1>3. next \in FinStates /\ next \in Talking /\ next \notin Early /\ next # "CLOSED"
      /\ k.state \in Talking /\ k.state # "CLOSED" /\ k.state \notin FinStates
  BY DEF FinStates, Talking, Early
<1>4. IsSocket(d)
  BY <1>2, <1>3 DEF Good, Own, IsSocket
<1>5. QueuesGood(d)
  BY <1>2 DEF Good, Own, QueuesGood
<1>6. StateGood(d)
  <2>1. d.shut_remote => d.state \notin {"ESTABLISHED", "FIN_WAIT1", "FIN_WAIT2"}
    BY <1>2 DEF Good, Own, StateGood
  <2> QED
    BY <2>1, <1>2, <1>3 DEF Good, Own, StateGood
<1>7. Bounded(n, d)
  <2>1. Fins(d) = Fins(k) + 1
    <3>1. /\ Once(d.state \in FinStates \cup {"CLOSED"}) = 1
          /\ Once(k.state \in FinStates \cup {"CLOSED"}) = 0
      BY <1>2, <1>3 DEF Once
    <3>2. Len(k.read) \in Nat /\ Once(k.shut_remote) \in 0 .. 1
      BY DEF Good, Own, QueuesGood, Once
    <3> QED
      BY <3>1, <3>2, <1>2 DEF Fins
  <2>2. Fins(k) \in Nat
    BY FinsAreCounted DEF Good
  <2> QED
    BY <2>1, <2>2, <1>2 DEF Good, Own, Bounded, IsSocket
<1>8. Alters(n, k, d, h)
  BY <1>2, <1>3, <1>4, <1>5, <1>6, <1>7, AltersIf DEF Own, ToldEnd
<1> QED
  BY <1>2, <1>3, <1>8 DEF d

\* The FIN comes before the acknowledgement that the child waits for.
Shut(k) == [k EXCEPT !.rcv_nxt = @ + 1, !.shut_local = TRUE, !.shut_remote = TRUE]

LEMMA CloseconnAlters ==
  ASSUME NEW W, NEW n \in Nat, NEW k, NEW h, Good(n, k, h), Over(k, h),
         k.state = "SYN_RECV", SegmentRetries \in Nat, h.snd_last \in Nat
  PROVE  /\ Alters(n, k, Tcp(W)!SendFin(Shut(k), "LAST_ACK"), h)
         /\ Tcp(W)!SendFin(Shut(k), "LAST_ACK").rcv_nxt = Shut(k).rcv_nxt
         /\ Tcp(W)!SendFin(Shut(k), "LAST_ACK").shut_local = TRUE
         /\ DOMAIN Tcp(W)!SendFin(Shut(k), "LAST_ACK").out = {}
         /\ Tcp(W)!SendFin(Shut(k), "LAST_ACK").state # "CLOSED"
<1> DEFINE b == Shut(k)
           d == Tcp(W)!SendFin(Shut(k), "LAST_ACK")
<1>1. d = [[b EXCEPT !.rcv_ackd = b.rcv_nxt] EXCEPT !.snd_nxt = @ + 1, !.state = "LAST_ACK",
                                                   !.fin_tmr = TRUE]
  BY DEF Tcp!SendFin, Tcp!Acked
<1>0. b = [k EXCEPT !.rcv_nxt = @ + 1, !.shut_local = TRUE, !.shut_remote = TRUE]
  BY DEF Shut
<1> HIDE DEF d, b
<1>2. /\ DOMAIN d = DOMAIN k
      /\ d.state = "LAST_ACK" /\ d.snd_nxt = k.snd_nxt + 1 /\ d.snd_last = k.snd_last
      /\ d.rcv_nxt = k.rcv_nxt + 1 /\ b.rcv_nxt = k.rcv_nxt + 1
      /\ d.out = k.out /\ d.in = k.in /\ d.read = k.read /\ d.written = k.written
      /\ d.remote_closed = k.remote_closed /\ d.backoff = k.backoff
  BY <1>0, <1>1 DEF Good, Own, IsSocket
<1>3. d.shut_local = TRUE /\ d.shut_remote = TRUE /\ d.fin_tmr = TRUE
  BY <1>0, <1>1 DEF Good, Own, IsSocket
<1>4. /\ DOMAIN k.out = {} /\ DOMAIN k.in = {} /\ Len(k.read) = 0 /\ k.snd_last = 0
      /\ k.snd_nxt = 1 /\ k.rcv_nxt = 1 /\ k.state # "CLOSED"
  BY DEF Good, Own, StateGood, Early
<1>5. IsSocket(d)
  <2>1. d.state \in Talking /\ d.shut_local \in BOOLEAN /\ d.shut_remote \in BOOLEAN
    BY <1>2, <1>3 DEF Talking, FinStates
  <2> QED
    BY <2>1, <1>2, <1>4 DEF Good, Own, IsSocket
<1>6. QueuesGood(d)
  BY <1>2 DEF Good, Own, QueuesGood
<1>7. StateGood(d)
  BY <1>2, <1>3, <1>4 DEF StateGood, Early
<1>8. Bounded(n, d)
  <2>1. Once(d.shut_remote) = 1 /\ Once(d.state \in FinStates \cup {"CLOSED"}) = 1
    BY <1>2, <1>3 DEF Once, FinStates
  <2>2. Fins(d) = 2
    BY <2>1, <1>2, <1>4 DEF Fins
  <2> QED
    BY <2>2, <1>2, <1>4 DEF Good, Own, Bounded
<1>9. Alters(n, k, d, h)
  BY <1>2, <1>3, <1>4, <1>5, <1>6, <1>7, <1>8, FinTaken DEF Own
<1> QED
  BY <1>2, <1>3, <1>4, <1>9 DEF d, b

\* A segment that an end receives.
LEMMA ReceivedIsGood ==
  ASSUME NEW W, Counting(W), TcpInv(W), NEW e \in Sides, NEW flags,
         NEW m \in Tcp(W)!Receive(e, flags)
  PROVE  /\ SegGood(m, sock[e], sock[Other(e)]) /\ m.flags \in flags
         /\ m.ack \in Nat /\ Stands(m.ack, sock[Other(e)], sock[e])
<1>1. m \in segs /\ m.to = e /\ m.flags \in flags
  BY DEF Tcp!Receive
<1>2. SegGood(m, sock[e], sock[Other(e)])
  BY <1>1, EndsAreGood
<1> QED
  BY <1>1, <1>2 DEF SegGood, Stands

LEMMA InSynStep ==
  ASSUME NEW W, Counting(W), TcpInv(W), NEW e \in Sides, Tcp(W)!InSyn(e)
  PROVE  TcpInv(W)'
<1> DEFINE k == sock[e]
           h == sock[Other(e)]
           n == W[e]
<1>1. /\ Good(n, k, h) /\ n \in Nat /\ h.snd_last \in Nat /\ IsSocket(k)
      /\ SegmentRetries \in Nat /\ SynRetries \in Nat
  BY EndsAreGood
<1>2. PICK m \in Tcp(W)!Receive(e, {"SYN"}) :
      \/ /\ k.state = "LISTEN"
         /\ LET new == [k EXCEPT !.state = "SYN_RECV", !.rcv_nxt = m.seq + 1]
            IN Tcp(W)!Becomes(e, [Tcp(W)!Acked(new) EXCEPT !.snd_nxt = 1],
                              {Tcp(W)!Segment(e, new, "SYNACK", 0)})
      \/ /\ k.state = "SYN_RECV"
         /\ Tcp(W)!Becomes(e, Tcp(W)!Acked(k), {Tcp(W)!Segment(e, k, "SYNACK", k.snd_nxt - 1)})
      \/ /\ k.state = "ESTABLISHED"
         /\ Tcp(W)!Becomes(e, Tcp(W)!Acked(k), {Tcp(W)!Ack(e, k)})
  BY DEF Tcp!InSyn
<1>3. m.seq = 0
  BY ReceivedIsGood DEF SegGood
<1> HIDE DEF k, h
<1>4. ASSUME k.state = "LISTEN",
             Tcp(W)!Becomes(e, [Tcp(W)!Acked([k EXCEPT !.state = "SYN_RECV", !.rcv_nxt = 1])
                                  EXCEPT !.snd_nxt = 1],
               {Tcp(W)!Segment(e, [k EXCEPT !.state = "SYN_RECV", !.rcv_nxt = 1], "SYNACK", 0)})
      PROVE  TcpInv(W)'
  <2> DEFINE new == [k EXCEPT !.state = "SYN_RECV", !.rcv_nxt = 1]
             d == [Tcp(W)!Acked(new) EXCEPT !.snd_nxt = 1]
  <2>1. d = [[new EXCEPT !.rcv_ackd = new.rcv_nxt] EXCEPT !.snd_nxt = 1]
    BY DEF Tcp!Acked
  <2> HIDE DEF d
  <2>2. /\ DOMAIN d = DOMAIN k /\ d.state = "SYN_RECV" /\ d.snd_nxt = 1
        /\ d.snd_last = k.snd_last /\ d.written = k.written
        /\ d.rcv_nxt = 1 /\ d.out = k.out /\ d.in = k.in /\ d.read = k.read
        /\ d.remote_closed = k.remote_closed /\ d.shut_local = k.shut_local
        /\ d.shut_remote = k.shut_remote /\ d.backoff = k.backoff
        /\ new.rcv_nxt = 1
    BY <2>1, <1>1 DEF IsSocket
  <2> HIDE DEF new
  <2>3. IsSocket(d)
    BY <2>2, <1>1 DEF IsSocket, Early
  <2>4. DOMAIN d.out = {}
    BY <2>2, <1>1, <1>4 DEF Good, Own, StateGood, Early
  <2>5. Alters(n, k, d, h)
    BY <2>2, <2>3, <2>4, <1>1, <1>4, BeginAlters
  <2>6. Sends(Tcp(W)!Segment(e, new, "SYNACK", 0), e, d)
    BY <2>2, SegmentSends
  <2> QED
    BY <2>5, <2>6, <1>4, Becoming DEF d, new, k, h
<1>5. ASSUME k.state = "SYN_RECV",
             Tcp(W)!Becomes(e, Tcp(W)!Acked(k), {Tcp(W)!Segment(e, k, "SYNACK", k.snd_nxt - 1)})
      PROVE  TcpInv(W)'
  <2>1. Alters(n, k, Tcp(W)!Acked(k), h) /\ Tcp(W)!Acked(k).rcv_nxt = k.rcv_nxt
    BY <1>1, AckedAlters DEF SameSocket
  <2>2. k.snd_nxt - 1 = 0
    BY <1>1, <1>5 DEF Good, Own, StateGood, Early
  <2>3. Sends(Tcp(W)!Segment(e, k, "SYNACK", k.snd_nxt - 1), e, Tcp(W)!Acked(k))
    BY <2>1, <2>2, SegmentSends
  <2> QED
    BY <2>1, <2>3, <1>5, Becoming DEF k, h
<1>6. ASSUME Tcp(W)!Becomes(e, Tcp(W)!Acked(k), {Tcp(W)!Ack(e, k)})
      PROVE  TcpInv(W)'
  <2>1. Alters(n, k, Tcp(W)!Acked(k), h) /\ Tcp(W)!Acked(k).rcv_nxt = k.rcv_nxt
    BY <1>1, AckedAlters DEF SameSocket
  <2>2. Sends(Tcp(W)!Ack(e, k), e, Tcp(W)!Acked(k))
    BY <2>1, SegmentSends DEF Tcp!Ack
  <2> QED
    BY <2>1, <2>2, <1>6, Becoming DEF k, h
<1> QED
  BY <1>2, <1>3, <1>4, <1>5, <1>6

LEMMA InSynackStep ==
  ASSUME NEW W, Counting(W), TcpInv(W), NEW e \in Sides, Tcp(W)!InSynack(e)
  PROVE  TcpInv(W)'
<1> DEFINE k == sock[e]
           h == sock[Other(e)]
           n == W[e]
<1>1. /\ Good(n, k, h) /\ n \in Nat /\ h.snd_last \in Nat /\ IsSocket(k)
      /\ SegmentRetries \in Nat /\ SynRetries \in Nat
  BY EndsAreGood
<1>2. PICK m \in Tcp(W)!Receive(e, {"SYNACK"}) :
      \/ /\ k.state = "SYN_SENT"
         /\ IF m.ack = k.snd_nxt + 1
            THEN LET new == [Tcp(W)!TcpAck(k, m.ack) EXCEPT
                               !.state = "ESTABLISHED", !.rcv_nxt = m.seq + 1,
                               !.rcv_processed = m.seq + 1, !.snd_nxt = @ + 1]
                 IN Tcp(W)!Becomes(e, Tcp(W)!Acked(new), {Tcp(W)!Ack(e, new)})
            ELSE Tcp(W)!Becomes(e, Tcp(W)!Acked(k), {Tcp(W)!Segment(e, k, "RSTACK", m.ack)})
      \/ /\ k.state \in Tcp(W)!Synchronised \ {"TIME_WAIT"}
         /\ Tcp(W)!Becomes(e, Tcp(W)!TcpAck(k, m.ack), {})
  BY DEF Tcp!InSynack
<1>3. m.seq = 0 /\ m.ack \in Nat /\ Stands(m.ack, h, k)
  BY ReceivedIsGood DEF SegGood
<1> HIDE DEF k, h
<1>4. Alters(n, k, Tcp(W)!TcpAck(k, m.ack), h) /\ TakesAck(k, Tcp(W)!TcpAck(k, m.ack), m.ack)
  BY <1>1, <1>3, TcpAckAlters
<1>5. ASSUME Tcp(W)!Becomes(e, Tcp(W)!TcpAck(k, m.ack), {})
      PROVE  TcpInv(W)'
  BY <1>4, <1>5, Becoming DEF k, h
<1>6. ASSUME Tcp(W)!Becomes(e, Tcp(W)!Acked(k), {Tcp(W)!Segment(e, k, "RSTACK", m.ack)})
      PROVE  TcpInv(W)'
  <2>1. Alters(n, k, Tcp(W)!Acked(k), h) /\ Tcp(W)!Acked(k).rcv_nxt = k.rcv_nxt
    BY <1>1, AckedAlters DEF SameSocket
  <2>2. Sends(Tcp(W)!Segment(e, k, "RSTACK", m.ack), e, Tcp(W)!Acked(k))
    BY <2>1, SegmentSends
  <2> QED
    BY <2>1, <2>2, <1>6, Becoming DEF k, h
<1> DEFINE a == Tcp(W)!TcpAck(k, m.ack)
           new == [a EXCEPT !.state = "ESTABLISHED", !.rcv_nxt = 0 + 1,
                            !.rcv_processed = 0 + 1, !.snd_nxt = @ + 1]
           d == Tcp(W)!Acked(new)
<1>7. ASSUME k.state = "SYN_SENT", Tcp(W)!Becomes(e, d, {Tcp(W)!Ack(e, new)})
      PROVE  TcpInv(W)'
  <2> HIDE DEF a
  <2>1. Good(n, a, h) /\ IsSocket(a) /\ a.state = "SYN_SENT" /\ TakesAck(k, a, m.ack)
    BY <1>4, <1>7 DEF Alters, Good, Own, TakesAck, a
  <2>2. DOMAIN a.out = {} /\ a.snd_nxt = 0
    BY <2>1 DEF Good, Own, StateGood, Early
  <2>3. d = [new EXCEPT !.rcv_ackd = new.rcv_nxt]
    BY DEF Tcp!Acked
  <2> HIDE DEF d
  <2>4. /\ DOMAIN d = DOMAIN a /\ d.state = "ESTABLISHED" /\ d.snd_nxt = 1
        /\ d.snd_last = a.snd_last /\ d.written = a.written
        /\ d.rcv_nxt = 1 /\ d.rcv_processed = 1 /\ d.out = a.out /\ d.in = a.in
        /\ d.read = a.read /\ d.remote_closed = a.remote_closed
        /\ d.shut_local = a.shut_local /\ d.shut_remote = a.shut_remote
        /\ d.backoff = a.backoff /\ new.rcv_nxt = 1
    BY <2>1, <2>2, <2>3 DEF IsSocket
  <2> HIDE DEF new
  <2>5. IsSocket(d)
    BY <2>1, <2>4 DEF IsSocket, Talking
  <2>6. Alters(n, a, d, h)
    BY <2>1, <2>2, <2>4, <2>5, <1>1, BeginAlters
  <2>7. Alters(n, k, d, h)
    BY <2>6, <1>4, AltersOn DEF a
  <2>8. Sends(Tcp(W)!Ack(e, new), e, d)
    BY <2>4, SegmentSends DEF Tcp!Ack
  <2> QED
    BY <2>7, <2>8, <1>7, Becoming DEF k, h
<1> QED
  BY <1>2, <1>3, <1>5, <1>6, <1>7

LEMMA InAckStep ==
  ASSUME NEW W, Counting(W), TcpInv(W), NEW e \in Sides, Tcp(W)!InAck(e)
  PROVE  TcpInv(W)'
<1> DEFINE k == sock[e]
           h == sock[Other(e)]
           n == W[e]
<1>1. /\ Good(n, k, h) /\ n \in Nat /\ h.snd_last \in Nat /\ IsSocket(k)
      /\ SegmentRetries \in Nat /\ SynRetries \in Nat
  BY EndsAreGood
<1>2. PICK m \in Tcp(W)!Receive(e, {"ACK"}) :
      \/ /\ k.state = "SYN_RECV"
         /\ IF m.ack = k.snd_nxt
            THEN Tcp(W)!Becomes(e, Tcp(W)!FirstAck(k, m), {})
            ELSE Tcp(W)!Becomes(e, Tcp(W)!Acked(k), {Tcp(W)!Segment(e, k, "RSTACK", m.ack)})
      \/ /\ k.state \in {"ESTABLISHED", "CLOSE_WAIT", "FIN_WAIT2"}
         /\ Tcp(W)!Becomes(e, Tcp(W)!TcpAck(k, m.ack), {})
      \/ /\ k.state = "FIN_WAIT1"
         /\ Tcp(W)!Becomes(e, [Tcp(W)!TcpAck(k, m.ack) EXCEPT
                          !.state = IF m.ack = k.snd_nxt - 1 THEN "FIN_WAIT2" ELSE @], {})
      \/ /\ k.state = "LAST_ACK" /\ m.ack = k.snd_nxt
         /\ Tcp(W)!Becomes(e, Tcp(W)!Del(k), {})
  BY DEF Tcp!InAck
<1>3. m.ack \in Nat /\ Stands(m.ack, h, k)
  BY ReceivedIsGood
<1> HIDE DEF k, h
<1>4. Alters(n, k, Tcp(W)!TcpAck(k, m.ack), h) /\ TakesAck(k, Tcp(W)!TcpAck(k, m.ack), m.ack)
  BY <1>1, <1>3, TcpAckAlters
<1>5. ASSUME k.state = "SYN_RECV", Tcp(W)!Becomes(e, Tcp(W)!FirstAck(k, m), {})
      PROVE  TcpInv(W)'
  <2>1. Alters(n, k, Tcp(W)!FirstAck(k, m), h)
    BY <1>1, <1>3, <1>5, FirstAckAlters
  <2> QED
    BY <2>1, <1>5, Becoming DEF k, h
<1>6. ASSUME Tcp(W)!Becomes(e, Tcp(W)!Acked(k), {Tcp(W)!Segment(e, k, "RSTACK", m.ack)})
      PROVE  TcpInv(W)'
  <2>1. Alters(n, k, Tcp(W)!Acked(k), h) /\ Tcp(W)!Acked(k).rcv_nxt = k.rcv_nxt
    BY <1>1, AckedAlters DEF SameSocket
  <2>2. Sends(Tcp(W)!Segment(e, k, "RSTACK", m.ack), e, Tcp(W)!Acked(k))
    BY <2>1, SegmentSends
  <2> QED
    BY <2>1, <2>2, <1>6, Becoming DEF k, h
<1>7. ASSUME Tcp(W)!Becomes(e, Tcp(W)!TcpAck(k, m.ack), {})
      PROVE  TcpInv(W)'
  BY <1>4, <1>7, Becoming DEF k, h
<1>8. ASSUME Tcp(W)!Becomes(e, Tcp(W)!Del(k), {})
      PROVE  TcpInv(W)'
  <2>1. Alters(n, k, Tcp(W)!Del(k), h)
    BY <1>1, DelAlters
  <2> QED
    BY <2>1, <1>8, Becoming DEF k, h
<1> DEFINE a == Tcp(W)!TcpAck(k, m.ack)
           d == [a EXCEPT !.state = IF m.ack = k.snd_nxt - 1 THEN "FIN_WAIT2" ELSE @]
<1>9. ASSUME k.state = "FIN_WAIT1", Tcp(W)!Becomes(e, d, {})
      PROVE  TcpInv(W)'
  <2> HIDE DEF a
  <2>1. Good(n, a, h) /\ IsSocket(a) /\ a.state = "FIN_WAIT1"
    BY <1>4, <1>9 DEF Alters, Good, Own, TakesAck, a
  <2>2. /\ DOMAIN d = DOMAIN a /\ d.state \in {"FIN_WAIT1", "FIN_WAIT2"}
        /\ d.snd_nxt = a.snd_nxt /\ d.snd_last = a.snd_last
        /\ d.rcv_nxt = a.rcv_nxt /\ d.rcv_processed = a.rcv_processed
        /\ d.out = a.out /\ d.in = a.in /\ d.read = a.read /\ d.written = a.written
        /\ d.remote_closed = a.remote_closed /\ d.shut_local = a.shut_local
        /\ d.shut_remote = a.shut_remote /\ d.backoff = a.backoff /\ d.fin_tmr = a.fin_tmr
    BY <2>1 DEF IsSocket
  <2> HIDE DEF d
  <2>3. /\ d.state \in FinStates /\ d.state \in Talking /\ d.state \notin Early
        /\ d.state # "CLOSED" /\ a.state \in FinStates /\ a.state \in Talking
    BY <2>1, <2>2 DEF FinStates, Talking, Early
  <2>4. IsSocket(d)
    BY <2>1, <2>2, <2>3 DEF IsSocket
  <2>5. QueuesGood(d)
    BY <2>1, <2>2 DEF Good, Own, QueuesGood
  <2>6. StateGood(d)
    <3>1. ~d.shut_remote
      BY <2>1, <2>2 DEF Good, Own, StateGood
    <3> QED
      BY <3>1, <2>1, <2>2, <2>3 DEF Good, Own, StateGood
  <2>7. Bounded(n, d)
    <3>1. Fins(d) = Fins(a)
      BY <2>2, <2>3 DEF Fins, Once
    <3> QED
      BY <3>1, <2>1, <2>2 DEF Good, Own, Bounded
  <2>8. Alters(n, a, d, h)
    BY <2>1, <2>2, <2>3, <2>4, <2>5, <2>6, <2>7, AltersIf DEF Own, ToldEnd
  <2>9. Alters(n, k, d, h)
    BY <2>8, <1>4, AltersOn DEF a
  <2> QED
    BY <2>9, <1>9, Becoming DEF k, h
<1> QED
  BY <1>2, <1>5, <1>6, <1>7, <1>8, <1>9

LEMMA InDataStep ==
  ASSUME NEW W, Counting(W), TcpInv(W), NEW e \in Sides, Tcp(W)!InData(e)
  PROVE  TcpInv(W)'
<1> DEFINE k == sock[e]
           h == sock[Other(e)]
           n == W[e]
<1>1. /\ Good(n, k, h) /\ n \in Nat /\ h.snd_last \in Nat /\ IsSocket(k)
      /\ SegmentRetries \in Nat /\ SynRetries \in Nat
  BY EndsAreGood
<1>2. PICK m \in Tcp(W)!Receive(e, {"DATA"}) :
      \/ /\ k.state \in {"SYN_RECV", "ESTABLISHED", "FIN_WAIT1", "FIN_WAIT2"}
         /\ k.state = "SYN_RECV" => m.ack = k.snd_nxt
         /\ LET new == Tcp(W)!DataIn(IF k.state = "SYN_RECV" THEN Tcp(W)!FirstAck(k, m)
                                     ELSE Tcp(W)!TcpAck(k, m.ack), m)
            IN Tcp(W)!Becomes(e, new, {Tcp(W)!Ack(e, new)})
      \/ /\ k.state \in {"CLOSE_WAIT", "LAST_ACK", "TIME_WAIT"}
         /\ LET new == IF k.state = "CLOSE_WAIT" THEN Tcp(W)!TcpAck(k, m.ack) ELSE k
            IN Tcp(W)!Becomes(e, IF k.state = "LAST_ACK" /\ m.ack = k.snd_nxt
                                 THEN Tcp(W)!Del(k) ELSE Tcp(W)!Acked(new),
                              IF k.state = "LAST_ACK" /\ m.ack = k.snd_nxt THEN {}
                              ELSE {Tcp(W)!Segment(e, new, "RST", m.ack)})
  BY DEF Tcp!InData
<1>3. m.ack \in Nat /\ Stands(m.ack, h, k) /\ m.seq \in 1 .. h.snd_last /\ m.data = m.seq
  BY ReceivedIsGood DEF SegGood
<1> HIDE DEF k, h
<1>4. Alters(n, k, Tcp(W)!TcpAck(k, m.ack), h) /\ TakesAck(k, Tcp(W)!TcpAck(k, m.ack), m.ack)
  BY <1>1, <1>3, TcpAckAlters
<1>5. ASSUME NEW b, Alters(n, k, b, h), b.state \in {"ESTABLISHED", "FIN_WAIT1", "FIN_WAIT2"},
             Tcp(W)!Becomes(e, Tcp(W)!DataIn(b, m), {Tcp(W)!Ack(e, Tcp(W)!DataIn(b, m))})
      PROVE  TcpInv(W)'
  <2>1. Good(n, b, h)
    BY <1>5 DEF Alters
  <2>2. Alters(n, b, Tcp(W)!DataIn(b, m), h)
    BY <2>1, <1>1, <1>3, <1>5, DataInAlters
  <2>3. Alters(n, k, Tcp(W)!DataIn(b, m), h)
    BY <2>2, <1>5, AltersOn
  <2>4. Sends(Tcp(W)!Ack(e, Tcp(W)!DataIn(b, m)), e, Tcp(W)!DataIn(b, m))
    BY SegmentSends DEF Tcp!Ack
  <2> QED
    BY <2>3, <2>4, <1>5, Becoming DEF k, h
<1>6. ASSUME NEW b, Alters(n, k, b, h),
             Tcp(W)!Becomes(e, Tcp(W)!Acked(b), {Tcp(W)!Segment(e, b, "RST", m.ack)})
      PROVE  TcpInv(W)'
  <2>1. Alters(n, b, Tcp(W)!Acked(b), h) /\ Tcp(W)!Acked(b).rcv_nxt = b.rcv_nxt
    BY <1>6, AckedAlters DEF Alters, SameSocket
  <2>2. Alters(n, k, Tcp(W)!Acked(b), h)
    BY <2>1, <1>6, AltersOn
  <2>3. Sends(Tcp(W)!Segment(e, b, "RST", m.ack), e, Tcp(W)!Acked(b))
    BY <2>1, SegmentSends
  <2> QED
    BY <2>2, <2>3, <1>6, Becoming DEF k, h
<1>7. ASSUME Tcp(W)!Becomes(e, Tcp(W)!Del(k), {})
      PROVE  TcpInv(W)'
  <2>1. Alters(n, k, Tcp(W)!Del(k), h)
    BY <1>1, DelAlters
  <2> QED
    BY <2>1, <1>7, Becoming DEF k, h
<1>8. Alters(n, k, k, h)
  BY <1>1, AlikeAlters DEF SameSocket
<1>9. k.state = "SYN_RECV" => /\ Alters(n, k, Tcp(W)!FirstAck(k, m), h)
                              /\ Tcp(W)!FirstAck(k, m).state = "ESTABLISHED"
  BY <1>1, <1>3, FirstAckAlters
<1>10. Tcp(W)!TcpAck(k, m.ack).state = k.state
  BY <1>4 DEF TakesAck
<1>11. CASE /\ k.state \in {"SYN_RECV", "ESTABLISHED", "FIN_WAIT1", "FIN_WAIT2"}
            /\ LET new == Tcp(W)!DataIn(IF k.state = "SYN_RECV" THEN Tcp(W)!FirstAck(k, m)
                                        ELSE Tcp(W)!TcpAck(k, m.ack), m)
               IN Tcp(W)!Becomes(e, new, {Tcp(W)!Ack(e, new)})
  <2>1. CASE k.state = "SYN_RECV"
    BY <2>1, <1>5, <1>9, <1>11
  <2>2. CASE k.state # "SYN_RECV"
    BY <2>2, <1>4, <1>5, <1>10, <1>11
  <2> QED
    BY <2>1, <2>2
<1>12. CASE /\ k.state \in {"CLOSE_WAIT", "LAST_ACK", "TIME_WAIT"}
            /\ LET new == IF k.state = "CLOSE_WAIT" THEN Tcp(W)!TcpAck(k, m.ack) ELSE k
               IN Tcp(W)!Becomes(e, IF k.state = "LAST_ACK" /\ m.ack = k.snd_nxt
                                    THEN Tcp(W)!Del(k) ELSE Tcp(W)!Acked(new),
                                 IF k.state = "LAST_ACK" /\ m.ack = k.snd_nxt THEN {}
                                 ELSE {Tcp(W)!Segment(e, new, "RST", m.ack)})
  <2>1. CASE k.state = "LAST_ACK" /\ m.ack = k.snd_nxt
    BY <2>1, <1>7, <1>12
  <2>2. CASE k.state = "CLOSE_WAIT"
    BY <2>2, <1>4, <1>6, <1>12
  <2>3. CASE k.state # "CLOSE_WAIT" /\ ~(k.state = "LAST_ACK" /\ m.ack = k.snd_nxt)
    BY <2>3, <1>8, <1>6, <1>12
  <2> QED
    BY <2>1, <2>2, <2>3
<1> QED
  BY <1>2, <1>11, <1>12

LEMMA InFinackStep ==
  ASSUME NEW W, Counting(W), TcpInv(W), NEW e \in Sides, Tcp(W)!InFinack(e)
  PROVE  TcpInv(W)'
<1> DEFINE k == sock[e]
           h == sock[Other(e)]
           n == W[e]
<1>1. /\ Good(n, k, h) /\ n \in Nat /\ h.snd_last \in Nat /\ IsSocket(k)
      /\ SegmentRetries \in Nat /\ SynRetries \in Nat
  BY EndsAreGood
<1>2. PICK m \in Tcp(W)!Receive(e, {"FINACK"}) :
      \/ /\ k.state \in {"ESTABLISHED", "CLOSE_WAIT"}
         /\ LET new == Tcp(W)!AttemptClosewait(Tcp(W)!TcpAck(k, m.ack), m.seq)
            IN Tcp(W)!Becomes(e, Tcp(W)!Acked(new), {Tcp(W)!Ack(e, new)})
      \/ /\ k.state \in {"FIN_WAIT1", "FIN_WAIT2"}
         /\ Tcp(W)!Becomes(e, Tcp(W)!FinAck(k), {Tcp(W)!Ack(e, Tcp(W)!FinAck(k))})
      \/ /\ k.state = "LAST_ACK"
         /\ Tcp(W)!Becomes(e, Tcp(W)!Acked(k), {Tcp(W)!Segment(e, k, "RST", m.ack)})
      \/ /\ k.state = "SYN_RECV" /\ m.seq = k.rcv_nxt
         /\ LET new == [k EXCEPT !.rcv_nxt = @ + 1, !.shut_local = TRUE, !.shut_remote = TRUE]
            IN Tcp(W)!Becomes(e, Tcp(W)!SendFin(new, "LAST_ACK"),
                              {Tcp(W)!Segment(e, new, "FINACK", new.snd_nxt)})
  BY DEF Tcp!InFinack
<1>3. m.ack \in Nat /\ Stands(m.ack, h, k) /\ Over(k, h)
  BY ReceivedIsGood DEF SegGood
<1> HIDE DEF k, h
<1>4. Alters(n, k, Tcp(W)!TcpAck(k, m.ack), h) /\ TakesAck(k, Tcp(W)!TcpAck(k, m.ack), m.ack)
  BY <1>1, <1>3, TcpAckAlters
<1> DEFINE a == Tcp(W)!TcpAck(k, m.ack)
           b == Tcp(W)!AttemptClosewait(a, m.seq)
<1>5. ASSUME k.state \in {"ESTABLISHED", "CLOSE_WAIT"},
             Tcp(W)!Becomes(e, Tcp(W)!Acked(b), {Tcp(W)!Ack(e, b)})
      PROVE  TcpInv(W)'
  <2> HIDE DEF a
  <2>1. Good(n, a, h) /\ a.state \in {"ESTABLISHED", "CLOSE_WAIT"} /\ Over(a, h)
    <3>1. a.read = k.read /\ a.in = k.in /\ a.state = k.state
      BY <1>4 DEF TakesAck, a
    <3> QED
      BY <3>1, <1>3, <1>4, <1>5 DEF Over, Got, Alters, a
  <2>2. Alters(n, a, b, h)
    BY <2>1, <1>1, ClosewaitAlters
  <2> HIDE DEF b
  <2>3. Alters(n, b, Tcp(W)!Acked(b), h) /\ Tcp(W)!Acked(b).rcv_nxt = b.rcv_nxt
    BY <2>2, AckedAlters DEF Alters, SameSocket
  <2>4. Alters(n, k, b, h)
    BY <2>2, <1>4, AltersOn DEF a
  <2>5. Alters(n, k, Tcp(W)!Acked(b), h)
    BY <2>3, <2>4, AltersOn
  <2>6. Sends(Tcp(W)!Ack(e, b), e, Tcp(W)!Acked(b))
    BY <2>3, SegmentSends DEF Tcp!Ack
  <2> QED
    BY <2>5, <2>6, <1>5, Becoming DEF k, h
<1>6. ASSUME k.state \in {"FIN_WAIT1", "FIN_WAIT2"},
             Tcp(W)!Becomes(e, Tcp(W)!FinAck(k), {Tcp(W)!Ack(e, Tcp(W)!FinAck(k))})
      PROVE  TcpInv(W)'
  <2>1. Alters(n, k, Tcp(W)!FinAck(k), h)
    BY <1>1, <1>3, <1>6, FinAckAlters
  <2>2. Sends(Tcp(W)!Ack(e, Tcp(W)!FinAck(k)), e, Tcp(W)!FinAck(k))
    BY SegmentSends DEF Tcp!Ack
  <2> QED
    BY <2>1, <2>2, <1>6, Becoming DEF k, h
<1>7. ASSUME Tcp(W)!Becomes(e, Tcp(W)!Acked(k), {Tcp(W)!Segment(e, k, "RST", m.ack)})
      PROVE  TcpInv(W)'
  <2>1. Alters(n, k, Tcp(W)!Acked(k), h) /\ Tcp(W)!Acked(k).rcv_nxt = k.rcv_nxt
    BY <1>1, AckedAlters DEF SameSocket
  <2>2. Sends(Tcp(W)!Segment(e, k, "RST", m.ack), e, Tcp(W)!Acked(k))
    BY <2>1, SegmentSends
  <2> QED
    BY <2>1, <2>2, <1>7, Becoming DEF k, h
<1> DEFINE new == [k EXCEPT !.rcv_nxt = @ + 1, !.shut_local = TRUE, !.shut_remote = TRUE]
<1>8. ASSUME k.state = "SYN_RECV",
             Tcp(W)!Becomes(e, Tcp(W)!SendFin(new, "LAST_ACK"),
                            {Tcp(W)!Segment(e, new, "FINACK", new.snd_nxt)})
      PROVE  TcpInv(W)'
  <2> DEFINE d == Tcp(W)!SendFin(new, "LAST_ACK")
  <2>0. new = Shut(k)
    BY DEF Shut
  <2> HIDE DEF new, d
  <2>1. /\ Alters(n, k, d, h) /\ d.rcv_nxt = new.rcv_nxt
        /\ d.shut_local = TRUE /\ DOMAIN d.out = {} /\ d.state # "CLOSED"
    BY <1>1, <1>3, <1>8, <2>0, CloseconnAlters DEF d
  <2>2. Sends(Tcp(W)!Segment(e, new, "FINACK", new.snd_nxt), e, d)
    BY <2>1, SegmentSends
  <2> QED
    BY <2>1, <2>2, <1>8, Becoming DEF k, h, d
<1> QED
  BY <1>2, <1>5, <1>6, <1>7, <1>8

LEMMA InRstStep ==
  ASSUME NEW W, Counting(W), TcpInv(W), NEW e \in Sides, Tcp(W)!InRst(e)
  PROVE  TcpInv(W)'
<1>1. Tcp(W)!Becomes(e, Tcp(W)!Del(sock[e]), {})
  BY DEF Tcp!InRst
<1>2. Alters(W[e], sock[e], Tcp(W)!Del(sock[e]), sock[Other(e)])
  BY EndsAreGood, DelAlters
<1> QED
  BY <1>1, <1>2, Becoming

\* The step of a timer that counts a retry.
LEMMA CountedAlters ==
  ASSUME NEW n \in Nat, NEW k, NEW d, NEW h, Good(n, k, h), DOMAIN d = DOMAIN k,
         d.state = k.state, d.snd_last = k.snd_last,
         d.rcv_nxt = k.rcv_nxt, d.rcv_processed = k.rcv_processed,
         d.out = k.out, d.in = k.in, d.read = k.read, d.written = k.written,
         d.remote_closed = k.remote_closed, d.shut_local = k.shut_local,
         d.shut_remote = k.shut_remote, d.fin_tmr = k.fin_tmr,
         d.snd_nxt = k.snd_nxt \/ (d.snd_nxt \in 1 .. n + 1 /\ k.state \notin Early),
         d.backoff \in Nat, d.backoff <= 1 + SegmentRetries \/ d.backoff <= 1 + SynRetries
  PROVE  Alters(n, k, d, h)
<1>1. IsSocket(d)
  BY DEF Good, Own, IsSocket
<1>2. QueuesGood(d)
  BY DEF Good, Own, QueuesGood
<1>3. StateGood(d)
  BY DEF Good, Own, StateGood, ToldEnd
<1>4. Bounded(n, d)
  <2>1. Fins(d) = Fins(k) /\ Fins(k) \in Nat
    BY FinsAreCounted DEF Fins, Good
  <2> QED
    BY <2>1 DEF Good, Own, Bounded
<1> QED
  BY <1>1, <1>2, <1>3, <1>4, AltersIf DEF Own, ToldEnd

LEMMA ConnectRetryStep ==
  ASSUME NEW W, Counting(W), TcpInv(W), NEW e \in Sides, Tcp(W)!ConnectRetry(e)
  PROVE  TcpInv(W)'
<1> DEFINE k == sock[e]
           h == sock[Other(e)]
           n == W[e]
<1>1. /\ Good(n, k, h) /\ n \in Nat /\ h.snd_last \in Nat /\ IsSocket(k)
      /\ SegmentRetries \in Nat /\ SynRetries \in Nat
  BY EndsAreGood
<1>2. \/ Tcp(W)!Becomes(e, Tcp(W)!Del(k), {})
      \/ /\ ~(k.backoff > SynRetries)
         /\ Tcp(W)!Becomes(e, [k EXCEPT !.backoff = @ + 1], {Tcp(W)!Segment(e, k, "SYN", 0)})
  BY DEF Tcp!ConnectRetry
<1> HIDE DEF k, h
<1>3. Alters(n, k, Tcp(W)!Del(k), h)
  BY <1>1, DelAlters
<1> DEFINE d == [k EXCEPT !.backoff = @ + 1]
<1>4. ASSUME ~(k.backoff > SynRetries)
      PROVE  Alters(n, k, d, h) /\ Sends(Tcp(W)!Segment(e, k, "SYN", 0), e, d)
  <2>1. Alters(n, k, d, h) /\ d.rcv_nxt = k.rcv_nxt
    BY <1>1, <1>4, CountedAlters DEF IsSocket
  <2> HIDE DEF d
  <2> QED
    BY <2>1, SegmentSends
<1> QED
  BY <1>2, <1>3, <1>4, Becoming DEF k, h

LEMMA RetransmitStep ==
  ASSUME NEW W, Counting(W), TcpInv(W), NEW e \in Sides, Tcp(W)!Retransmit(e)
  PROVE  TcpInv(W)'
<1> DEFINE k == sock[e]
           h == sock[Other(e)]
           n == W[e]
<1>1. /\ Good(n, k, h) /\ n \in Nat /\ h.snd_last \in Nat /\ IsSocket(k)
      /\ SegmentRetries \in Nat /\ SynRetries \in Nat
  BY EndsAreGood
<1> DEFINE s == Tcp(W)!Least(DOMAIN k.out)
           d == [Tcp(W)!Acked(k) EXCEPT !.blackout = TRUE, !.backoff = @ + 1,
                                        !.snd_nxt = IF s + 1 > @ THEN s + 1 ELSE @]
<1>2. \/ /\ k.state \in {"ESTABLISHED", "CLOSE_WAIT"} /\ k.backoff < SegmentRetries
         /\ DOMAIN k.out # {} /\ Tcp(W)!Becomes(e, d, {Tcp(W)!DataSegment(e, k, s)})
      \/ Tcp(W)!Becomes(e, Tcp(W)!Del(k), {})
      \/ Tcp(W)!Becomes(e, [k EXCEPT !.retrans_tmr = FALSE], {})
  BY DEF Tcp!Retransmit
<1> HIDE DEF k, h
<1>3. Alters(n, k, Tcp(W)!Del(k), h)
  BY <1>1, DelAlters
<1>4. Alters(n, k, [k EXCEPT !.retrans_tmr = FALSE], h)
  BY <1>1, AlikeAlters DEF SameSocket, IsSocket
<1>5. ASSUME k.state \in {"ESTABLISHED", "CLOSE_WAIT"}, k.backoff < SegmentRetries,
             DOMAIN k.out # {}, Tcp(W)!Becomes(e, d, {Tcp(W)!DataSegment(e, k, s)})
      PROVE  TcpInv(W)'
  <2>1. DOMAIN k.out \in SUBSET Nat /\ DOMAIN k.out \subseteq 1 .. k.snd_last /\ k.snd_last <= n
    BY <1>1 DEF Good, Own, QueuesGood, Bounded, IsSocket
  <2>2. s \in DOMAIN k.out
    BY <2>1, <1>5, LeastIs
  <2>3. s \in Nat /\ s >= 1 /\ s <= n
    BY <2>1, <2>2, <1>1 DEF IsSocket
  <2> HIDE DEF s
  <2>4. d = [[k EXCEPT !.rcv_ackd = k.rcv_nxt] EXCEPT !.blackout = TRUE, !.backoff = @ + 1,
                                  !.snd_nxt = IF s + 1 > @ THEN s + 1 ELSE @]
    BY DEF Tcp!Acked
  <2> HIDE DEF d
  <2>5. /\ DOMAIN d = DOMAIN k
        /\ d.state = k.state /\ d.snd_last = k.snd_last
        /\ d.rcv_nxt = k.rcv_nxt /\ d.rcv_processed = k.rcv_processed
        /\ d.out = k.out /\ d.in = k.in /\ d.read = k.read /\ d.written = k.written
        /\ d.remote_closed = k.remote_closed /\ d.shut_local = k.shut_local
        /\ d.shut_remote = k.shut_remote /\ d.fin_tmr = k.fin_tmr
        /\ d.backoff = k.backoff + 1
    BY <2>4, <1>1 DEF IsSocket
  <2>6. d.snd_nxt = k.snd_nxt \/ (d.snd_nxt \in 1 .. n + 1 /\ k.state \notin Early)
    BY <2>3, <2>4, <1>1, <1>5 DEF IsSocket, Early
  <2>7. d.backoff \in Nat /\ d.backoff <= 1 + SegmentRetries
    BY <2>5, <1>1, <1>5 DEF IsSocket
  <2>8. Alters(n, k, d, h)
    BY <2>5, <2>6, <2>7, <1>1, CountedAlters
  <2>9. Sends(Tcp(W)!DataSegment(e, k, s), e, d)
    BY <2>2, <2>5, <1>1, DataSends DEF Good
  <2> QED
    BY <2>8, <2>9, <1>5, Becoming DEF k, h, d, s
<1>6. ASSUME Tcp(W)!Becomes(e, Tcp(W)!Del(k), {}) PROVE TcpInv(W)'
  BY <1>3, <1>6, Becoming DEF k, h
<1>7. ASSUME Tcp(W)!Becomes(e, [k EXCEPT !.retrans_tmr = FALSE], {}) PROVE TcpInv(W)'
  BY <1>4, <1>7, Becoming DEF k, h
<1> QED
  BY <1>2, <1>5, <1>6, <1>7

LEMMA DeltcbStep ==
  ASSUME NEW W, Counting(W), TcpInv(W), NEW e \in Sides, Tcp(W)!Deltcb(e)
  PROVE  TcpInv(W)'
<1> DEFINE k == sock[e]
           h == sock[Other(e)]
           n == W[e]
<1>1. /\ Good(n, k, h) /\ n \in Nat /\ h.snd_last \in Nat /\ IsSocket(k)
      /\ SegmentRetries \in Nat /\ SynRetries \in Nat
  BY EndsAreGood
<1>2. Tcp(W)!Becomes(e, Tcp(W)!Del(k), IF k.state = "TIME_WAIT" THEN {}
                        ELSE {Tcp(W)!Segment(e, k, "RST", k.snd_nxt)})
  BY DEF Tcp!Deltcb
<1> HIDE DEF k, h
<1>3. Alters(n, k, Tcp(W)!Del(k), h) /\ Tcp(W)!Del(k).rcv_nxt = k.rcv_nxt
  BY <1>1, DelAlters
<1>4. Sends(Tcp(W)!Segment(e, k, "RST", k.snd_nxt), e, Tcp(W)!Del(k))
  BY <1>3, SegmentSends
<1> QED
  BY <1>2, <1>3, <1>4, Becoming DEF k, h

LEMMA OutputStep ==
  ASSUME NEW W, Counting(W), TcpInv(W), NEW e \in Sides, Tcp(W)!Output(e)
  PROVE  TcpInv(W)'
<1> DEFINE k == sock[e]
           h == sock[Other(e)]
           n == W[e]
<1>1. /\ Good(n, k, h) /\ n \in Nat /\ h.snd_last \in Nat /\ IsSocket(k)
      /\ SegmentRetries \in Nat /\ SynRetries \in Nat
  BY EndsAreGood
<1> DEFINE d == [Tcp(W)!Acked(k) EXCEPT !.snd_nxt = @ + 1, !.retrans_tmr = TRUE]
<1>2. /\ k.state \in {"ESTABLISHED", "CLOSE_WAIT"} /\ k.snd_nxt \in DOMAIN k.out
      /\ Tcp(W)!Becomes(e, d, {Tcp(W)!DataSegment(e, k, k.snd_nxt)})
  BY DEF Tcp!Output
<1> HIDE DEF k, h
<1>3. d = [[k EXCEPT !.rcv_ackd = k.rcv_nxt] EXCEPT !.snd_nxt = @ + 1, !.retrans_tmr = TRUE]
  BY DEF Tcp!Acked
<1> HIDE DEF d
<1>4. /\ DOMAIN d = DOMAIN k
      /\ d.state = k.state /\ d.snd_last = k.snd_last /\ d.snd_nxt = k.snd_nxt + 1
      /\ d.rcv_nxt = k.rcv_nxt /\ d.rcv_processed = k.rcv_processed
      /\ d.out = k.out /\ d.in = k.in /\ d.read = k.read /\ d.written = k.written
      /\ d.remote_closed = k.remote_closed /\ d.shut_local = k.shut_local
      /\ d.shut_remote = k.shut_remote /\ d.fin_tmr = k.fin_tmr /\ d.backoff = k.backoff
  BY <1>1, <1>3 DEF IsSocket
<1>5. k.snd_nxt \in 1 .. n
  BY <1>1, <1>2 DEF Good, Own, QueuesGood, Bounded, IsSocket
<1>6. Alters(n, k, d, h)
  <2>1. d.snd_nxt \in 1 .. n + 1 /\ k.state \notin Early
    BY <1>1, <1>2, <1>4, <1>5 DEF Early
  <2>2. d.backoff \in Nat /\ (d.backoff <= 1 + SegmentRetries \/ d.backoff <= 1 + SynRetries)
    BY <1>1, <1>4 DEF Good, Own, Bounded, IsSocket
  <2> QED
    BY <2>1, <2>2, <1>1, <1>4, CountedAlters
<1>7. Sends(Tcp(W)!DataSegment(e, k, k.snd_nxt), e, d)
  BY <1>1, <1>2, <1>4, DataSends DEF Good
<1> QED
  BY <1>2, <1>6, <1>7, Becoming DEF k, h

LEMMA TcpClosingStep ==
  ASSUME NEW W, Counting(W), TcpInv(W), NEW e \in Sides, Tcp(W)!Closing(e)
  PROVE  TcpInv(W)'
<1> DEFINE k == sock[e]
           h == sock[Other(e)]
           n == W[e]
<1>1. /\ Good(n, k, h) /\ n \in Nat /\ h.snd_last \in Nat /\ IsSocket(k)
      /\ SegmentRetries \in Nat /\ SynRetries \in Nat
  BY EndsAreGood
<1> DEFINE next == IF k.state = "ESTABLISHED" THEN "FIN_WAIT1" ELSE "LAST_ACK"
           d == Tcp(W)!SendFin(k, next)
<1>2. /\ k.shut_local /\ DOMAIN k.out = {} /\ k.state \in {"ESTABLISHED", "CLOSE_WAIT"}
      /\ Tcp(W)!Becomes(e, d, {Tcp(W)!Segment(e, k, "FINACK", k.snd_nxt)})
  BY DEF Tcp!Closing, Tcp!MayFin
<1> HIDE DEF k, h
<1>3. \/ k.state = "ESTABLISHED" /\ next = "FIN_WAIT1"
      \/ k.state = "CLOSE_WAIT" /\ next = "LAST_ACK"
  BY <1>2
<1> HIDE DEF next
<1>4. /\ Alters(n, k, d, h) /\ d.rcv_nxt = k.rcv_nxt /\ d.shut_local = k.shut_local
      /\ d.out = k.out /\ d.state # "CLOSED"
  BY <1>1, <1>3, SendFinOwn
<1> HIDE DEF d
<1>5. Sends(Tcp(W)!Segment(e, k, "FINACK", k.snd_nxt), e, d)
  BY <1>2, <1>4, SegmentSends
<1> QED
  BY <1>2, <1>4, <1>5, Becoming DEF k, h

LEMMA TcpShutdownStep ==
  ASSUME NEW W, Counting(W), TcpInv(W), NEW e \in Sides, Tcp(W)!Shutdown(e)
  PROVE  TcpInv(W)'
<1> DEFINE k == sock[e]
           h == sock[Other(e)]
           n == W[e]
<1>1. /\ Good(n, k, h) /\ n \in Nat /\ h.snd_last \in Nat /\ IsSocket(k)
      /\ SegmentRetries \in Nat /\ SynRetries \in Nat
  BY EndsAreGood
<1> DEFINE d == [k EXCEPT !.shut_local = TRUE]
<1>2. k.state \in {"ESTABLISHED", "CLOSE_WAIT"} /\ Tcp(W)!Becomes(e, d, {})
  BY DEF Tcp!Shutdown
<1> HIDE DEF k, h
<1>3. /\ DOMAIN d = DOMAIN k
      /\ d.state = k.state /\ d.snd_last = k.snd_last /\ d.snd_nxt = k.snd_nxt
      /\ d.rcv_nxt = k.rcv_nxt /\ d.rcv_processed = k.rcv_processed
      /\ d.out = k.out /\ d.in = k.in /\ d.read = k.read /\ d.written = k.written
      /\ d.remote_closed = k.remote_closed /\ d.shut_local = TRUE
      /\ d.shut_remote = k.shut_remote /\ d.fin_tmr = k.fin_tmr /\ d.backoff = k.backoff
  BY <1>1 DEF IsSocket
<1> HIDE DEF d
<1>4. IsSocket(d)
  <2>1. d.shut_local \in BOOLEAN
    BY <1>3
  <2> QED
    BY <2>1, <1>1, <1>3 DEF IsSocket
<1>5. QueuesGood(d)
  BY <1>1, <1>3 DEF Good, Own, QueuesGood
<1>6. StateGood(d)
  BY <1>1, <1>2, <1>3 DEF Good, Own, StateGood, Early
<1>7. Bounded(n, d)
  BY <1>1, <1>3 DEF Good, Own, Bounded, Fins
<1>8. Alters(n, k, d, h)
  BY <1>1, <1>3, <1>4, <1>5, <1>6, <1>7, AltersIf DEF Own, ToldEnd
<1> QED
  BY <1>2, <1>8, Becoming DEF k, h

\* The socket d has written one more than k.
Wrote(k, d) ==
  /\ DOMAIN d = DOMAIN k
  /\ d.state = k.state /\ d.snd_nxt = k.snd_nxt
  /\ d.snd_last = k.snd_last + 1 /\ d.written = k.written + 1
  /\ d.rcv_nxt = k.rcv_nxt /\ d.rcv_processed = k.rcv_processed
  /\ d.in = k.in /\ d.read = k.read
  /\ d.remote_closed = k.remote_closed /\ d.shut_local = k.shut_local
  /\ d.shut_remote = k.shut_remote /\ d.fin_tmr = k.fin_tmr /\ d.backoff = k.backoff
  /\ DOMAIN d.out = DOMAIN k.out \cup {k.snd_last + 1}
  /\ \A s \in DOMAIN d.out : d.out[s] = IF s = k.snd_last + 1 THEN k.written + 1 ELSE k.out[s]

\* Nobody has acknowledged what was not written yet.
LEMMA StandsWritten ==
  ASSUME NEW k, NEW d, NEW h, NEW a, Wrote(k, d), ~k.shut_local, k.snd_last \in Nat,
         Stands(a, h, k)
  PROVE  Stands(a, h, d)
BY DEF Stands, Wrote

LEMMA WroteIsGood ==
  ASSUME NEW n \in Nat, NEW k, NEW d, NEW h, Good(n, k, h), Wrote(k, d), ~k.shut_local,
         k.state \in {"ESTABLISHED", "CLOSE_WAIT"}, k.written < n
  PROVE  Good(n, d, h)
<1>1. k.snd_last \in Nat /\ k.written = k.snd_last
  BY DEF Good, Own, IsSocket, QueuesGood
<1>2. IsSocket(d)
  BY <1>1 DEF Good, Own, IsSocket, Wrote
<1>3. QueuesGood(d)
  <2>1. \A s \in DOMAIN d.out : d.out[s] = s /\ s \in 1 .. d.snd_last
    BY <1>1 DEF Good, Own, QueuesGood, Wrote
  <2> QED
    BY <2>1, <1>1 DEF Good, Own, QueuesGood, Wrote
<1>4. StateGood(d)
  <2>1. k.state \notin Early /\ d.state = k.state
    BY DEF Early, Wrote
  <2> QED
    BY <2>1 DEF Good, Own, StateGood, Wrote
<1>5. Bounded(n, d)
  <2>1. Fins(d) = Fins(k)
    BY DEF Fins, Wrote
  <2> QED
    BY <2>1, <1>1 DEF Good, Own, Bounded, Wrote
<1>6. Trails(d, h)
  BY FollowsOn DEF Good, Wrote, ToldEnd
<1>7. Trails(h, d)
  <2>1. Trails(h, k)
    BY DEF Good
  <2>2. Stands(h.rcv_nxt, h, d)
    BY <2>1, <1>1, StandsWritten DEF Trails
  <2>3. ~ToldEnd(h)
    BY <2>1 DEF Trails, Over
  <2>4. Got(h) \subseteq 1 .. d.snd_last
    BY <2>1, <1>1 DEF Trails, Wrote
  <2>5. ASSUME h.state # "CLOSED", NEW s \in 1 .. d.snd_last, s \notin DOMAIN d.out
        PROVE  s \in Got(h)
    <3>1. s \in 1 .. k.snd_last /\ s \notin DOMAIN k.out
      BY <2>5, <1>1 DEF Wrote
    <3> QED
      BY <3>1, <2>1, <2>5 DEF Trails
  <2> QED
    BY <2>2, <2>3, <2>4, <2>5 DEF Trails
<1> QED
  BY <1>2, <1>3, <1>4, <1>5, <1>6, <1>7 DEF Good, Own

LEMMA WriteStep ==
  ASSUME NEW W, Counting(W), TcpInv(W), NEW e \in Sides, Tcp(W)!Write(e)
  PROVE  TcpInv(W)'
<1> DEFINE k == sock[e]
           h == sock[Other(e)]
           n == W[e]
<1>1. /\ Good(n, k, h) /\ n \in Nat /\ h.snd_last \in Nat /\ IsSocket(k)
      /\ SegmentRetries \in Nat /\ SynRetries \in Nat
  BY EndsAreGood
<1> DEFINE out == [s \in DOMAIN k.out \cup {k.snd_last + 1} |->
                     IF s = k.snd_last + 1 THEN k.written + 1 ELSE k.out[s]]
           d == [k EXCEPT !.written = @ + 1, !.snd_last = @ + 1, !.out = out]
<1>2. /\ k.state \in {"ESTABLISHED", "CLOSE_WAIT"} /\ ~k.shut_local /\ k.written < n
      /\ sock' = [sock EXCEPT ![e] = d] /\ segs' = segs
  <2>1. /\ k.state \in {"ESTABLISHED", "CLOSE_WAIT"} /\ ~k.shut_local /\ k.written < n
        /\ Tcp(W)!Becomes(e, d, {})
    BY DEF Tcp!Write
  <2> QED
    BY <2>1 DEF Tcp!Becomes
<1> HIDE DEF k, h
<1>3. /\ DOMAIN out = DOMAIN k.out \cup {k.snd_last + 1}
      /\ \A s \in DOMAIN out : out[s] = IF s = k.snd_last + 1 THEN k.written + 1 ELSE k.out[s]
  OBVIOUS
<1> HIDE DEF out
<1>4. Wrote(k, d)
  BY <1>1, <1>3 DEF IsSocket, Wrote
<1> HIDE DEF d
<1>5. Good(n, d, h)
  BY <1>1, <1>2, <1>4, WroteIsGood
<1>6. DOMAIN sock' = Sides /\ sock'[e] = d /\ sock'[Other(e)] = h /\ sock[Other(e)] = h
  BY <1>2, SidesDiffer DEF TcpInv, h
<1>7. \A f \in Sides : Own(W[f], sock'[f]) /\ Trails(sock'[f], sock'[Other(f)])
  BY <1>5, <1>6, SidesDiffer DEF Good, TcpInv
<1>8. ASSUME NEW m \in segs
      PROVE  m.to \in Sides /\ SegGood(m, sock'[m.to], sock'[Other(m.to)])
  <2>1. m.to \in Sides /\ SegGood(m, sock[m.to], sock[Other(m.to)])
    BY DEF TcpInv
  <2>2. Got(d) = Got(k) /\ d.state = k.state /\ d.rcv_nxt = k.rcv_nxt
    BY <1>4 DEF Wrote, Got
  <2>3. CASE m.to = e
    <3>1. SegGood(m, k, h)
      BY <2>1, <2>3, <1>6 DEF k
    <3>2. Stands(m.ack, h, d)
      BY <3>1, <1>1, <1>2, <1>4, StandsWritten DEF SegGood, IsSocket
    <3>3. Over(k, h) => Over(d, h)
      BY <2>2 DEF Over
    <3>4. SegGood(m, d, h)
      BY <3>1, <3>2, <3>3 DEF SegGood
    <3> QED
      BY <2>3, <3>4, <1>6
  <2>4. CASE m.to = Other(e)
    <3>1. SegGood(m, h, k)
      BY <2>1, <2>4, <1>6, SidesDiffer DEF k
    <3>2. Stands(m.ack, k, h) => Stands(m.ack, d, h)
      BY <2>2 DEF Stands
    <3>3. m.flags # "FINACK"
      BY <3>1, <1>2 DEF SegGood, Over
    <3>4. 1 .. k.snd_last \subseteq 1 .. d.snd_last
      BY <1>1, <1>4 DEF Wrote, IsSocket
    <3>5. SegGood(m, h, d)
      BY <3>1, <3>2, <3>3, <3>4 DEF SegGood
    <3> QED
      BY <2>4, <3>5, <1>6, SidesDiffer
  <2> QED
    BY <2>1, <2>3, <2>4, SidesDiffer
<1> QED
  BY <1>2, <1>6, <1>7, <1>8 DEF TcpInv

\* What is read moves from the queue to the application.
ReadNext(W, k) == [k EXCEPT !.read = Append(@, k.in[k.rcv_processed]),
                        !.rcv_processed = k.rcv_processed + 1,
                        !.in = Tcp(W)!Drop(@, {k.rcv_processed})]

LEMMA TakesNext ==
  ASSUME NEW W, NEW n \in Nat, NEW k, NEW h, Good(n, k, h), k.state \in Talking,
         k.rcv_processed \in DOMAIN k.in
  PROVE  /\ Alters(n, k, ReadNext(W, k), h) /\ ReadNext(W, k).state = k.state
         /\ Fins(ReadNext(W, k)) = Fins(k) + 1 /\ ReadNext(W, k).snd_nxt = k.snd_nxt
<1> DEFINE d == ReadNext(W, k)
<1>0. d = [k EXCEPT !.read = Append(@, k.in[k.rcv_processed]),
                    !.rcv_processed = k.rcv_processed + 1,
                    !.in = Tcp(W)!Drop(@, {k.rcv_processed})]
  BY DEF ReadNext
<1> HIDE DEF d
<1>1. /\ k.read \in Seq(Nat) /\ Len(k.read) \in Nat /\ k.rcv_nxt \in Nat
      /\ \A s \in DOMAIN k.in : s \in Nat /\ k.in[s] = s /\ s > Len(k.read)
      /\ \A i \in 1 .. Len(k.read) : k.read[i] = i
      /\ IsFiniteSet(DOMAIN k.in)
  BY DEF Good, Own, IsSocket, QueuesGood
<1>2. /\ k.rcv_processed = Len(k.read) + 1 /\ Len(k.read) < k.rcv_nxt
      /\ k.rcv_nxt \notin DOMAIN k.in
  BY DEF Good, Own, StateGood
<1> DEFINE i == k.rcv_processed
           read == Append(k.read, k.in[i])
           in == Tcp(W)!Drop(k.in, {i})
<1>3. i \in Nat /\ i >= 1 /\ k.in[i] = i
  BY <1>1, <1>2
<1>4. /\ read \in Seq(Nat) /\ Len(read) = i
      /\ \A j \in 1 .. Len(read) : read[j] = j
  BY <1>1, <1>2, <1>3
<1>5. DOMAIN in = DOMAIN k.in \ {i} /\ \A s \in DOMAIN in : in[s] = k.in[s]
  BY DEF Tcp!Drop
<1> HIDE DEF read, in
<1>6. /\ DOMAIN d = DOMAIN k
      /\ d.state = k.state /\ d.snd_nxt = k.snd_nxt /\ d.snd_last = k.snd_last
      /\ d.rcv_nxt = k.rcv_nxt /\ d.rcv_processed = i + 1 /\ d.read = read /\ d.in = in
      /\ d.out = k.out /\ d.written = k.written
      /\ d.remote_closed = k.remote_closed /\ d.shut_local = k.shut_local
      /\ d.shut_remote = k.shut_remote /\ d.fin_tmr = k.fin_tmr /\ d.backoff = k.backoff
  BY <1>0 DEF Good, Own, IsSocket, read, in
<1>7. IsSocket(d)
  BY <1>6 DEF Good, Own, IsSocket
<1>8. IsFiniteSet(DOMAIN in) /\ \A s \in DOMAIN in : s \in Nat /\ in[s] = s /\ s > i
  BY <1>1, <1>2, <1>5, FS_RemoveElement
<1>9. QueuesGood(d)
  BY <1>4, <1>6, <1>8 DEF Good, Own, QueuesGood
<1>10. StateGood(d)
  <2>1. k.state \notin Early
    BY DEF Early, Talking, FinStates
  <2>2. i # k.rcv_nxt /\ i < k.rcv_nxt
    BY <1>1, <1>2
  <2>3. d.rcv_processed = Len(d.read) + 1 /\ Len(d.read) < d.rcv_nxt /\ d.rcv_nxt \notin DOMAIN d.in
    BY <1>2, <1>4, <1>5, <1>6, <2>2
  <2> QED
    BY <2>1, <2>3, <1>6 DEF Good, Own, StateGood
<1>11. Fins(d) = Fins(k) + 1 /\ Fins(k) \in Nat
  <2>1. /\ Once(d.shut_remote) = Once(k.shut_remote)
        /\ Once(d.state \in FinStates \cup {"CLOSED"}) =
             Once(k.state \in FinStates \cup {"CLOSED"})
        /\ Once(k.shut_remote) \in 0 .. 1
        /\ Once(k.state \in FinStates \cup {"CLOSED"}) \in 0 .. 1
    BY <1>6 DEF Once
  <2>2. Len(d.read) = Len(k.read) + 1
    BY <1>2, <1>4, <1>6
  <2> QED
    BY <2>1, <2>2, <1>1 DEF Fins
<1>12. Bounded(n, d)
  BY <1>6, <1>11 DEF Good, Own, Bounded, IsSocket
<1>13. Got(d) = Got(k) /\ ToldEnd(d) = ToldEnd(k)
  <2>1. (1 .. i) \cup (DOMAIN k.in \ {i}) = (1 .. Len(k.read)) \cup DOMAIN k.in
    BY <1>1, <1>2, <1>3
  <2> QED
    BY <2>1, <1>4, <1>5, <1>6 DEF Got, ToldEnd
<1>14. Trails(d, h)
  BY <1>6, <1>13 DEF Good, Trails, Stands, Over
<1>15. Trails(h, d)
  BY <1>6, LedOn DEF Good
<1>16. Grows(k, d)
  BY <1>6, <1>13 DEF Grows
<1> QED
  BY <1>6, <1>7, <1>9, <1>10, <1>11, <1>12, <1>14, <1>15, <1>16 DEF Alters, Good, Own, d

\* The end that was told of when there was still something to read.
LEMMA ReadFinishAlters ==
  ASSUME NEW W, NEW n \in Nat, NEW k, NEW h, Good(n, k, h), k.state \in Talking,
         ~k.shut_remote \/ k.snd_nxt <= n + Fins(k)
  PROVE  Alters(n, k, Tcp(W)!ReadFinish(k), h)
<1> DEFINE d == Tcp(W)!ReadFinish(k)
<1>1. CASE ~k.remote_closed
  <2>1. d = k
    BY <1>1 DEF Tcp!ReadFinish
  <2> QED
    BY <2>1, AlikeAlters DEF SameSocket
<1>2. CASE k.remote_closed
  <2>1. d = [k EXCEPT !.state = "CLOSE_WAIT", !.shut_remote = TRUE]
    BY <1>2 DEF Tcp!ReadFinish
  <2> HIDE DEF d
  <2>2. /\ DOMAIN d = DOMAIN k
        /\ d.state = "CLOSE_WAIT" /\ d.snd_nxt = k.snd_nxt /\ d.snd_last = k.snd_last
        /\ d.rcv_nxt = k.rcv_nxt /\ d.rcv_processed = k.rcv_processed
        /\ d.out = k.out /\ d.in = k.in /\ d.read = k.read /\ d.written = k.written
        /\ d.remote_closed = k.remote_closed /\ d.shut_local = k.shut_local
        /\ d.shut_remote = TRUE /\ d.fin_tmr = k.fin_tmr /\ d.backoff = k.backoff
    BY <2>1 DEF Good, Own, IsSocket
  <2>3. IsSocket(d)
    <3>1. d.state \in Talking /\ d.shut_remote \in BOOLEAN
      BY <2>2 DEF Talking
    <3> QED
      BY <3>1, <2>2 DEF Good, Own, IsSocket
  <2>4. QueuesGood(d)
    BY <2>2 DEF Good, Own, QueuesGood
  <2>5. StateGood(d)
    <3>1. d.state \notin Early /\ d.state \notin FinStates
          /\ d.state \notin {"ESTABLISHED", "FIN_WAIT1", "FIN_WAIT2"}
      BY <2>2 DEF Early, FinStates
    <3>2. \/ /\ k.rcv_processed = Len(k.read) + 1 /\ Len(k.read) < k.rcv_nxt
             /\ k.rcv_nxt \notin DOMAIN k.in
          \/ k.shut_remote /\ DOMAIN k.in = {} /\ Len(k.read) = 0
      BY DEF Good, Own, StateGood
    <3> QED
      BY <3>1, <3>2, <2>2 DEF StateGood
  <2>6. Bounded(n, d)
    <3>1. Len(k.read) \in Nat /\ \A b : Once(b) \in 0 .. 1
      BY DEF Good, Own, QueuesGood, Once
    <3>2. Once(d.shut_remote) = 1 /\ Once(d.state \in FinStates \cup {"CLOSED"}) = 0
      BY <2>2 DEF Once, FinStates
    <3>3. Fins(d) = Len(k.read) + 1
      BY <3>1, <3>2, <2>2 DEF Fins
    <3>4. Fins(k) <= Fins(d) \/ k.snd_nxt <= n + Fins(k)
      <4>1. CASE ~k.shut_remote
        <5>1. Once(k.shut_remote) = 0
          BY <4>1 DEF Once
        <5> QED
          BY <5>1, <3>1, <3>3 DEF Fins
      <4> QED
        BY <4>1
    <3>5. Fins(k) <= Len(k.read) + 2 /\ Fins(k) \in Nat
      BY <3>1 DEF Fins
    <3> QED
      BY <3>1, <3>3, <3>4, <3>5, <2>2 DEF Good, Own, Bounded, IsSocket
  <2>7. k.state # "CLOSED"
    BY DEF Talking, FinStates
  <2>8. Alters(n, k, d, h)
    BY <1>2, <2>2, <2>3, <2>4, <2>5, <2>6, <2>7, AltersIf DEF Own, ToldEnd
  <2> QED
    BY <2>8 DEF d
<1> QED
  BY <1>1, <1>2

LEMMA ReadStep ==
  ASSUME NEW W, Counting(W), TcpInv(W), NEW e \in Sides, Tcp(W)!Read(e)
  PROVE  TcpInv(W)'
<1> DEFINE k == sock[e]
           h == sock[Other(e)]
           n == W[e]
<1>1. /\ Good(n, k, h) /\ n \in Nat /\ h.snd_last \in Nat /\ IsSocket(k)
      /\ SegmentRetries \in Nat /\ SynRetries \in Nat
  BY EndsAreGood
<1> DEFINE b == [k EXCEPT !.read = Append(@, k.in[k.rcv_processed]),
                       !.rcv_processed = k.rcv_processed + 1,
                       !.in = Tcp(W)!Drop(@, {k.rcv_processed})]
<1>2. /\ k.state \in Tcp(W)!Synchronised
      /\ \/ /\ k.rcv_processed \in DOMAIN k.in
            /\ Tcp(W)!Becomes(e, Tcp(W)!ReadFinish(b), {})
         \/ ~k.shut_remote /\ Tcp(W)!Becomes(e, Tcp(W)!ReadFinish(k), {})
  BY DEF Tcp!Read, Tcp!NextIn
<1> HIDE DEF k, h
<1>3. k.state \in Talking
  BY <1>2 DEF Tcp!Synchronised, Talking, FinStates
<1>4. ASSUME k.rcv_processed \in DOMAIN k.in, Tcp(W)!Becomes(e, Tcp(W)!ReadFinish(b), {})
      PROVE  TcpInv(W)'
  <2>0. b = ReadNext(W, k)
    BY DEF ReadNext
  <2> HIDE DEF b
  <2>1. /\ Alters(n, k, b, h) /\ b.state = k.state
        /\ Fins(b) = Fins(k) + 1 /\ b.snd_nxt = k.snd_nxt
    BY <2>0, <1>1, <1>3, <1>4, TakesNext
  <2>2. b.snd_nxt <= n + Fins(b)
    <3>1. Fins(k) \in Nat /\ k.snd_nxt <= n + 1 + Fins(k) /\ k.snd_nxt \in Nat
      BY <1>1, FinsAreCounted DEF Good, Own, Bounded, IsSocket
    <3> QED
      BY <3>1, <2>1, <1>1
  <2>3. Alters(n, b, Tcp(W)!ReadFinish(b), h)
    BY <2>1, <2>2, <1>1, <1>3, ReadFinishAlters DEF Alters
  <2>4. Alters(n, k, Tcp(W)!ReadFinish(b), h)
    BY <2>1, <2>3, AltersOn
  <2> QED
    BY <2>4, <1>4, Becoming DEF k, h
<1>5. ASSUME ~k.shut_remote, Tcp(W)!Becomes(e, Tcp(W)!ReadFinish(k), {})
      PROVE  TcpInv(W)'
  <2>1. Alters(n, k, Tcp(W)!ReadFinish(k), h)
    BY <1>1, <1>3, <1>5, ReadFinishAlters
  <2> QED
    BY <2>1, <1>5, Becoming DEF k, h
<1> QED
  BY <1>2, <1>4, <1>5

LEMMA TcpInitially ==
  ASSUME NEW W, Counting(W), Tcp(W)!Init
  PROVE  TcpInv(W)
<1> DEFINE a == [Tcp(W)!Socket("SYN_SENT") EXCEPT !.retrans_tmr = TRUE]
           b == Tcp(W)!Socket("LISTEN")
<1>1. /\ sock = [e \in Sides |-> IF e = "A" THEN a ELSE b]
      /\ segs = {Tcp(W)!Segment("A", Tcp(W)!Socket("SYN_SENT"), "SYN", 0)}
  BY DEF Tcp!Init, Tcp!Ends, Sides
<1> DEFINE Fresh(k) ==
      /\ DOMAIN k = {"state", "snd_nxt", "snd_last", "rcv_nxt", "rcv_ackd", "rcv_processed",
                     "out", "in", "remote_closed", "shut_local", "shut_remote", "blackout",
                     "backoff", "retrans_tmr", "fin_tmr", "written", "read"}
      /\ k.state \in {"SYN_SENT", "LISTEN"}
      /\ k.snd_nxt = 0 /\ k.snd_last = 0 /\ k.rcv_nxt = 0 /\ k.backoff = 0 /\ k.written = 0
      /\ k.out = <<>> /\ k.in = <<>> /\ k.read = <<>>
      /\ k.remote_closed = FALSE /\ k.shut_local = FALSE /\ k.shut_remote = FALSE
<1>2. Fresh(a) /\ Fresh(b)
  BY DEF Tcp!Socket
<1> HIDE DEF a, b
<1>3. ASSUME NEW k, Fresh(k), NEW n \in Nat
      PROVE  Own(n, k) /\ Got(k) = {} /\ ~ToldEnd(k)
  <2>1. DOMAIN k.out = {} /\ DOMAIN k.in = {} /\ Len(k.read) = 0 /\ k.read \in Seq(Nat)
    BY <1>3
  <2>2. IsSocket(k)
    <3>1. k.remote_closed \in BOOLEAN /\ k.shut_local \in BOOLEAN /\ k.shut_remote \in BOOLEAN
      BY <1>3
    <3>2. k.state \in Early
      BY <1>3 DEF Early
    <3> QED
      BY <1>3, <3>1, <3>2 DEF IsSocket
  <2>3. QueuesGood(k)
    BY <1>3, <2>1, FS_EmptySet DEF QueuesGood
  <2>4. StateGood(k)
    BY <1>3, <2>1 DEF StateGood, Early, Talking, FinStates, ToldEnd
  <2>5. Bounded(n, k)
    <3>1. \A x : Once(x) \in 0 .. 1
      BY DEF Once
    <3>2. Fins(k) \in Nat
      BY <3>1, <2>1 DEF Fins
    <3>3. 0 <= 1 + SegmentRetries
      BY DEF Counting
    <3> QED
      BY <3>2, <3>3, <1>3 DEF Bounded
  <2>6. Got(k) = {}
    BY <2>1 DEF Got
  <2>7. ~ToldEnd(k)
    BY <1>3 DEF ToldEnd
  <2> QED
    BY <2>2, <2>3, <2>4, <2>5, <2>6, <2>7 DEF Own
<1>4. ASSUME NEW k, Fresh(k), NEW h, Fresh(h)
      PROVE  Trails(k, h)
  <2>1. Got(k) = {} /\ ~ToldEnd(k)
    BY <1>3, <1>4
  <2> QED
    BY <2>1, <1>4 DEF Trails, Stands
<1>5. \A e \in Sides : Fresh(sock[e]) /\ W[e] \in Nat
  BY <1>1, <1>2 DEF Sides, Counting
<1>6. \A e \in Sides : Own(W[e], sock[e]) /\ Trails(sock[e], sock[Other(e)])
  BY <1>3, <1>4, <1>5, SidesDiffer
<1>7. ASSUME NEW m \in segs
      PROVE  m.to \in Sides /\ SegGood(m, sock[m.to], sock[Other(m.to)])
  <2>1. m = [to |-> "B", flags |-> "SYN", seq |-> 0, ack |-> 0, data |-> 0]
    BY <1>1 DEF Tcp!Segment, Tcp!Peer, Tcp!Socket
  <2>2. m.to \in Sides /\ Other(m.to) \in Sides
    BY <2>1 DEF Sides, Other
  <2>3. Fresh(sock[m.to])
    BY <2>2, <1>5
  <2>4. Stands(m.ack, sock[Other(m.to)], sock[m.to])
    BY <2>1, <2>3 DEF Stands
  <2> QED
    BY <2>1, <2>2, <2>4 DEF SegGood
<1> QED
  BY <1>1, <1>6, <1>7 DEF TcpInv

LEMMA TcpStep ==
  ASSUME NEW W, Counting(W), TcpInv(W), Tcp(W)!Next \/ UNCHANGED Tcp(W)!vars
  PROVE  TcpInv(W)'
<1>1. CASE UNCHANGED Tcp(W)!vars
  BY <1>1 DEF Tcp!vars, TcpInv
<1>2. CASE Tcp(W)!Next
  <2>1. PICK e \in Sides :
          \/ Tcp(W)!InSyn(e) \/ Tcp(W)!InSynack(e) \/ Tcp(W)!InAck(e) \/ Tcp(W)!InData(e)
          \/ Tcp(W)!InFinack(e) \/ Tcp(W)!InRst(e) \/ Tcp(W)!ConnectRetry(e)
          \/ Tcp(W)!Retransmit(e) \/ Tcp(W)!Deltcb(e) \/ Tcp(W)!Output(e)
          \/ Tcp(W)!Closing(e) \/ Tcp(W)!Write(e) \/ Tcp(W)!Read(e) \/ Tcp(W)!Shutdown(e)
    BY <1>2 DEF Tcp!Next, Tcp!Ends, Sides
  <2> QED
    BY <2>1, InSynStep, InSynackStep, InAckStep, InDataStep, InFinackStep, InRstStep,
       ConnectRetryStep, RetransmitStep, DeltcbStep, OutputStep, TcpClosingStep, WriteStep,
       ReadStep, TcpShutdownStep
<1> QED
  BY <1>1, <1>2

\* All of a stream is counted by what was read and what can still be read.
LEMMA AllIsCounted ==
  ASSUME NEW n, NEW k, NEW last \in Nat, Own(n, k), Got(k) = 1 .. last
  PROVE  Len(k.read) + Cardinality(DOMAIN k.in) = last
<1>1. /\ Len(k.read) \in Nat /\ IsFiniteSet(DOMAIN k.in)
      /\ \A s \in DOMAIN k.in : s \in Nat /\ s > Len(k.read)
  BY DEF Own, QueuesGood
<1>2. (1 .. Len(k.read)) \cap DOMAIN k.in = {}
  BY <1>1
<1>3. /\ IsFiniteSet(1 .. Len(k.read)) /\ Cardinality(1 .. Len(k.read)) = Len(k.read)
      /\ Cardinality(1 .. last) = last
  <2>1. \A x \in Nat : /\ IsFiniteSet(1 .. x)
                       /\ Cardinality(1 .. x) = IF 1 > x THEN 0 ELSE x - 1 + 1
    BY FS_Interval
  <2> QED
    BY <2>1, <1>1
<1>4. Cardinality((1 .. Len(k.read)) \cup DOMAIN k.in) =
        Cardinality(1 .. Len(k.read)) + Cardinality(DOMAIN k.in)
          - Cardinality((1 .. Len(k.read)) \cap DOMAIN k.in)
  BY <1>1, <1>3, FS_Union
<1>5. Cardinality((1 .. Len(k.read)) \cap DOMAIN k.in) = 0
  BY <1>2, FS_EmptySet
<1>6. Cardinality(DOMAIN k.in) \in Nat
  BY <1>1, FS_CardinalityType
<1>7. Cardinality((1 .. Len(k.read)) \cup DOMAIN k.in) = last
  BY <1>3 DEF Got
<1> QED
  BY <1>1, <1>3, <1>4, <1>5, <1>6, <1>7

LEMMA TcpMeans ==
  ASSUME NEW W, Counting(W), TcpInv(W)
  PROVE  /\ Tcp(W)!StreamInOrder /\ Tcp(W)!EndIsTheEnd
         /\ Tcp(W)!TypeOK /\ Tcp(W)!FinIsTimed
<1>1. \A e \in Sides : /\ Own(W[e], sock[e]) /\ Trails(sock[e], sock[Other(e)])
                       /\ Tcp(W)!Peer(e) = Other(e) /\ Other(e) \in Sides
                       /\ Own(W[Other(e)], sock[Other(e)]) /\ W[e] \in Nat /\ W[Other(e)] \in Nat
  BY SidesDiffer DEF TcpInv, Tcp!Peer, Other, Counting, Sides
<1>2. Tcp(W)!Ends = Sides
  BY DEF Tcp!Ends, Sides
<1>3. \A e \in Sides : LET k == sock[e] IN
        /\ Len(k.read) \in Nat /\ \A i \in 1 .. Len(k.read) : k.read[i] = i
        /\ DOMAIN k.read = 1 .. Len(k.read)
  BY <1>1 DEF Own, QueuesGood
<1>4. \A e \in Sides : Len(sock[e].read) <= sock[Other(e)].snd_last
  <2> SUFFICES ASSUME NEW e \in Sides, Len(sock[e].read) >= 1
               PROVE  Len(sock[e].read) <= sock[Other(e)].snd_last
    BY <1>1, <1>3 DEF Own, IsSocket
  <2>1. Len(sock[e].read) \in 1 .. Len(sock[e].read)
    BY <1>3
  <2>2. Len(sock[e].read) \in 1 .. sock[Other(e)].snd_last
    BY <2>1, <1>1 DEF Trails, Got
  <2> QED
    BY <2>2, <1>1 DEF Own, IsSocket
<1>5. Tcp(W)!StreamInOrder
  BY <1>1, <1>2, <1>3, <1>4 DEF Tcp!StreamInOrder, Own, QueuesGood
<1>6. Tcp(W)!EndIsTheEnd
  <2> SUFFICES ASSUME NEW e \in Sides, sock[e].shut_remote, sock[e].state # "CLOSED"
               PROVE  Len(sock[e].read) + Cardinality(DOMAIN sock[e].in) =
                        sock[Other(e)].written
    BY <1>1, <1>2 DEF Tcp!EndIsTheEnd, Cardinality, Tcp!Cardinality
  <2>1. Got(sock[e]) = 1 .. sock[Other(e)].snd_last
    BY <1>1 DEF Trails, ToldEnd, Over
  <2>2. sock[Other(e)].snd_last \in Nat /\ sock[Other(e)].written = sock[Other(e)].snd_last
    BY <1>1 DEF Own, IsSocket, QueuesGood
  <2> QED
    BY <2>1, <2>2, <1>1, AllIsCounted
<1>7. Tcp(W)!TypeOK
  <2> SUFFICES ASSUME NEW e \in Sides
               PROVE  LET k == sock[e] IN
                /\ k.state \in Tcp(W)!Synchronised \cup {"CLOSED", "LISTEN", "SYN_SENT", "SYN_RECV"}
                /\ k.snd_nxt \in 0..W["A"] + W["B"] + 3
                /\ k.snd_last \in 0..W[e]
                /\ k.backoff <= 1 + (IF SegmentRetries > SynRetries
                                     THEN SegmentRetries ELSE SynRetries)
    BY <1>2 DEF Tcp!TypeOK
  <2> DEFINE k == sock[e]
             h == sock[Other(e)]
  <2>1. IsSocket(k) /\ Bounded(W[e], k) /\ h.snd_last \in Nat /\ h.snd_last <= W[Other(e)]
    BY <1>1 DEF Own, IsSocket, Bounded
  <2>2. k.state \in Tcp(W)!Synchronised \cup {"CLOSED", "LISTEN", "SYN_SENT", "SYN_RECV"}
    BY <2>1 DEF IsSocket, Early, Talking, FinStates, Tcp!Synchronised
  <2>3. W[e] + W[Other(e)] = W["A"] + W["B"] /\ W[e] \in Nat /\ W[Other(e)] \in Nat
    BY DEF Counting, Sides, Other
  <2>4. Fins(k) <= W[Other(e)] + 2
    <3>1. Len(k.read) <= h.snd_last /\ Len(k.read) \in Nat
      BY <1>3, <1>4
    <3>2. \A x : Once(x) \in 0 .. 1
      BY DEF Once
    <3>3. /\ Once(k.shut_remote) \in 0 .. 1
          /\ Once(k.state \in FinStates \cup {"CLOSED"}) \in 0 .. 1
      BY <3>2
    <3> QED
      BY <2>1, <2>3, <3>1, <3>3 DEF Fins
  <2>5. Fins(k) \in Nat
    BY <1>1, FinsAreCounted
  <2>6. k.snd_nxt \in 0..W["A"] + W["B"] + 3
    BY <2>1, <2>3, <2>4, <2>5 DEF Bounded, IsSocket
  <2>7. k.snd_last \in 0 .. W[e]
    BY <2>1, <2>3 DEF Bounded, IsSocket
  <2>8. k.backoff <= 1 + (IF SegmentRetries > SynRetries THEN SegmentRetries ELSE SynRetries)
    BY <2>1 DEF Bounded, IsSocket, Counting
  <2> QED
    BY <2>2, <2>6, <2>7, <2>8
<1>8. Tcp(W)!FinIsTimed
  BY <1>1, <1>2 DEF Tcp!FinIsTimed, Own, StateGood, FinStates
<1> QED
  BY <1>5, <1>6, <1>7, <1>8
=============================================================================
