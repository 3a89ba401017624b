----------------------------- MODULE Multicast -----------------------------
(***************************************************************************)
(* One multicast group of one IPv4 link: the filters of the UDP sockets    *)
(* that listen to it (pico_socket_multicast.c), the filter of the link     *)
(* (pico_ipv4.c), and the IGMP host that tells the routers (pico_igmp.c).  *)
(*                                                                         *)
(* A filter is a mode and a set of sources.  The sockets are numbered in   *)
(* the order of the tree of sockets, which is the order of their           *)
(* addresses.  Time is left out: a timer that runs may expire.             *)
(***************************************************************************)
EXTENDS Integers, FiniteSets

CONSTANTS Listeners,   \* how many sockets there are
          Sources

VARIABLES listen,      \* the filter of every socket, mode "none" if it has not joined
          mgroup,      \* the group of the link: reference count and filter
          igmp         \* the parameter, its timer and the state of the link

vars == <<listen, mgroup, igmp>>

Filter(mode, sources) == [mode |-> mode, sources |-> sources]
NoListen == Filter("none", {})
NoGroup == [ref |-> 0, mode |-> "none", sources |-> {}]
NoFrame == [kind |-> "none", type |-> "none", sources |-> {}]
Frame(kind) == [NoFrame EXCEPT !.kind = kind]

Init == /\ listen = [s \in 1..Listeners |-> NoListen]
        /\ mgroup = NoGroup
        /\ igmp = [state |-> "none", f |-> NoFrame, timer |-> "none",
                   compat |-> 3, v2 |-> FALSE]

Accepts(l, source) == \/ l.mode = "INCLUDE" /\ source \in l.sources
                      \/ l.mode = "EXCLUDE" /\ source \notin l.sources

-----------------------------------------------------------------------------
(* The filter of the link, from those of the sockets.                      *)

ExclExcl(f, l) == Filter("EXCLUDE", f.sources \cap l.sources)
\* With nothing excluded by the socket the old filter is not touched.
InclExcl(f, l) == Filter("EXCLUDE", IF l.sources = {} THEN f.sources
                                    ELSE l.sources \ f.sources)
\* (mutant: one socket that includes makes the filter of the link INCLUDE)
ExclIncl_Include(f, l) == Filter("INCLUDE", f.sources \cup l.sources)
ExclIncl(f, l) == Filter("EXCLUDE", f.sources \ l.sources)
InclIncl(f, l) == Filter("INCLUDE", f.sources \cup l.sources)

Combine(f, l) ==
  CASE l.mode = "none" -> f
    [] f.mode = "EXCLUDE" /\ l.mode = "EXCLUDE" -> ExclExcl(f, l)
    [] f.mode = "EXCLUDE" /\ l.mode = "INCLUDE" -> ExclIncl(f, l)
    [] f.mode = "INCLUDE" /\ l.mode = "EXCLUDE" -> InclExcl(f, l)
    [] f.mode = "INCLUDE" /\ l.mode = "INCLUDE" -> InclIncl(f, l)
Aggregate(ls) ==
  LET a[s \in 0..Listeners] == IF s = 0 THEN Filter("INCLUDE", {})
                               ELSE Combine(a[s - 1], ls[s])
  IN a[Listeners]

-----------------------------------------------------------------------------
(* The IGMP host: the entries of host_membership_diagram_table, each a     *)
(* function of the parameter, the group and its new filter.                *)

Running(k) == [k EXCEPT !.timer = "running", !.state = "DELAYING"]
\* After it is sent a frame is the device's to free.
Sent(k) == [k EXCEPT !.f = Frame("sent")]
Deleted(k) == [k EXCEPT !.state = "none", !.f = NoFrame]

Record(type, sources) == [kind |-> "report", type |-> type, sources |-> sources]
\* (mutant: the two lists of an EXCLUDE filter are exchanged)
Change_Swapped(old, new) ==
  IF new.sources \ old.sources # {} THEN Record("ALLOW", new.sources \ old.sources)
  ELSE IF old.sources \ new.sources # {} THEN Record("BLOCK", old.sources \ new.sources)
  ELSE NoFrame
\* What is new takes precedence over what is old: one record is sent.
Change(old, new) ==
  IF new.sources \ old.sources # {}
  THEN Record(IF new.mode = "INCLUDE" THEN "ALLOW" ELSE "BLOCK", new.sources \ old.sources)
  ELSE IF old.sources \ new.sources # {}
  THEN Record(IF new.mode = "INCLUDE" THEN "BLOCK" ELSE "ALLOW", old.sources \ new.sources)
  ELSE NoFrame

\* pico_igmp_generate_report; the answer to a query has no type and no source.
GenerateReport(k, event, old, new) ==
  CASE k.compat = 2 -> Record("V2", {})
    [] k.compat = 3 /\ event = "QUERY" -> Record("none", {})
    [] k.compat = 3 /\ event = "CREATE" /\ new.mode = "INCLUDE" ->
         Record("TO_INCLUDE", new.sources)
    [] k.compat = 3 /\ event # "QUERY" /\ old.mode # new.mode ->
         Record(IF new.mode = "INCLUDE" THEN "TO_INCLUDE" ELSE "TO_EXCLUDE", new.sources)
    [] OTHER -> Change(old, new)

\* (mutant: the timer of the pending report goes on)
Stslifs_NoStop(k) == IF k.timer = "none" THEN k ELSE Deleted(k)
\* stop timer, send leave
Stslifs(k) == IF k.timer = "none" THEN k
              ELSE [Deleted(k) EXCEPT !.timer = "stopped"]
\* send report, set flag, start timer, with or without the demand for IGMPv3
Srsfst(k, event, old, new) ==
  LET f == GenerateReport(k, event, old, new)
  IN IF f = NoFrame THEN [k EXCEPT !.f = f] ELSE Running([k EXCEPT !.f = f])
Srst(k, event, old, new) ==
  IF k.compat = 2 THEN k ELSE Srsfst(k, event, old, new)
\* merge report, send report, reset timer: the pending report is sent again.
Mrsrrt(k) == IF k.compat = 2 \/ k.timer = "none" THEN k
             ELSE [k EXCEPT !.timer = "running"]
\* start timer
St(k) == Running([k EXCEPT !.f = GenerateReport(k, "QUERY", k, k)])
\* stop timer, clear flag
Stcl(k) == IF k.timer = "none" THEN k
           ELSE [k EXCEPT !.timer = "stopped", !.state = "IDLE"]
\* send report, set flag
Srsf(k) == [Sent(k) EXCEPT !.state = "IDLE"]

\* pico_igmp_state_change and pico_igmp_process_event
StateChange(k, event, old, new) ==
  LET p == IF k.state = "none" THEN [k EXCEPT !.state = "NON_MEMBER", !.f = NoFrame] ELSE k
  IN CASE k.state = "none" /\ event # "CREATE" -> k
       [] p.state = "NON_MEMBER" /\ event # "DELETE" -> Srsfst(p, event, old, new)
       [] p.state = "DELAYING" /\ event = "DELETE" -> Stslifs(p)
       [] p.state = "DELAYING" /\ event # "DELETE" -> Mrsrrt(p)
       [] p.state = "IDLE" /\ event = "DELETE" -> Deleted(p)
       [] p.state = "IDLE" /\ event # "DELETE" -> Srst(p, event, old, new)
       [] OTHER -> p

-----------------------------------------------------------------------------
(* Joining and leaving.                                                    *)

SetFilter(g, ls) == [g EXCEPT !.mode = Aggregate(ls).mode,
                              !.sources = Aggregate(ls).sources]
\* pico_ipv4_mcast_join; a group begins with nothing included.
Join(ls, count) ==
  LET old == IF mgroup.ref = 0 THEN [NoGroup EXCEPT !.mode = "INCLUDE"] ELSE mgroup
      new == SetFilter([old EXCEPT !.ref = IF @ = 0 THEN 1 ELSE @ + count], ls)
  IN /\ listen' = ls /\ mgroup' = new
     /\ igmp' = StateChange(igmp, IF mgroup.ref = 0 THEN "CREATE" ELSE "UPDATE", old, new)
\* pico_ipv4_mcast_leave
Leave(ls, count) ==
  LET new == SetFilter([mgroup EXCEPT !.ref = @ - count], ls)
  IN /\ listen' = ls
     /\ mgroup' = IF count = 1 /\ new.ref < 1 THEN NoGroup ELSE new
     /\ igmp' = StateChange(igmp, IF count = 1 /\ new.ref < 1 THEN "DELETE" ELSE "UPDATE",
                            mgroup, new)

AddMembership(s) == /\ listen[s].mode = "none"
                    /\ Join([listen EXCEPT ![s] = Filter("EXCLUDE", {})], 1)
DropMembership(s) == /\ listen[s].mode # "none"
                     /\ Leave([listen EXCEPT ![s] = NoListen], 1)
UnblockSource(s, source) ==
  /\ listen[s].mode = "EXCLUDE" /\ source \in listen[s].sources
  /\ Leave([listen EXCEPT ![s].sources = @ \ {source}], 0)
BlockSource(s, source) ==
  /\ listen[s].mode = "EXCLUDE" /\ source \notin listen[s].sources
  /\ Join([listen EXCEPT ![s].sources = @ \cup {source}], 0)
\* (mutant: every source counts as a reference)
SourceCount_Always(s) == 1
SourceCount(s) == IF listen[s].mode = "none" THEN 1 ELSE 0
AddSource(s, source) ==
  /\ listen[s].mode # "EXCLUDE" /\ source \notin listen[s].sources
  /\ Join([listen EXCEPT ![s] = Filter("INCLUDE", @.sources \cup {source})], SourceCount(s))
DropSource(s, source) ==
  /\ listen[s].mode = "INCLUDE" /\ source \in listen[s].sources
  /\ IF listen[s].sources = {source}
     THEN Leave([listen EXCEPT ![s] = NoListen], 1)
     ELSE Leave([listen EXCEPT ![s].sources = @ \ {source}], 0)
\* pico_multicast_delete, of a socket that is closed
Close(s) == DropMembership(s)

-----------------------------------------------------------------------------
(* What comes from the network, and the timers.                            *)

\* pico_igmp_compatibility_mode: an IGMPv2 query deletes every timer.
Version2(k) == [k EXCEPT !.compat = 2, !.v2 = TRUE, !.timer = "none"]
QueryRecv(k) == CASE k.state = "IDLE" -> St(k)
                  [] k.state = "DELAYING" -> k  \* the timer is only made shorter
                  [] OTHER -> k
\* A query of the group itself is kept as the frame of the parameter.
Query(version, general) ==
  /\ UNCHANGED <<listen, mgroup>>
  /\ version = 3 => ~igmp.v2
  /\ LET k == IF version = 2 THEN Version2(igmp) ELSE [igmp EXCEPT !.compat = 3]
         p == IF general \/ k.state = "none" THEN k ELSE [k EXCEPT !.f = Frame("query")]
     IN igmp' = QueryRecv(p)

\* A report of another picoTCP host has a response time and counts as a query
\* of version 2 first; a report without one is taken for IGMPv1 and dropped.
ReportRecv ==
  /\ UNCHANGED <<listen, mgroup>>
  /\ LET k == Version2(igmp)
     IN igmp' = IF k.state = "none" THEN k
                ELSE IF k.state = "DELAYING" THEN Stcl([k EXCEPT !.f = Frame("query")])
                ELSE [k EXCEPT !.f = Frame("discarded")]

ReportExpired ==
  /\ igmp.timer # "none"
  /\ UNCHANGED <<listen, mgroup>>
  /\ LET k == [igmp EXCEPT !.timer = "none"]
     IN igmp' = IF igmp.timer = "running" /\ k.state = "DELAYING" THEN Srsf(k)
                ELSE IF igmp.timer = "running" /\ k.state # "none"
                THEN [k EXCEPT !.f = Frame("discarded")] ELSE k

V2QuerierExpired ==
  /\ igmp.v2
  /\ igmp' = [igmp EXCEPT !.v2 = FALSE, !.compat = 3, !.timer = "none"]
  /\ UNCHANGED <<listen, mgroup>>

Next ==
  \/ \E s \in 1..Listeners :
       \/ AddMembership(s) \/ DropMembership(s) \/ Close(s)
       \/ \E source \in Sources :
            \/ UnblockSource(s, source) \/ BlockSource(s, source)
            \/ AddSource(s, source) \/ DropSource(s, source)
  \/ \E general \in BOOLEAN : Query(2, general) \/ Query(3, general)
  \/ ReportRecv \/ ReportExpired \/ V2QuerierExpired

Spec == Init /\ [][Next]_vars

-----------------------------------------------------------------------------
(* Properties.                                                             *)

\* The group is on the link as long as a socket listens to it, and its
\* reference count is the number of those sockets, sources counted or not.
ReferencesAreListeners ==
  mgroup.ref = Cardinality({s \in 1..Listeners : listen[s].mode # "none"})

\* The link lets no source through that no socket listens to.
NoUnwantedSource == \A source \in Sources :
  Accepts(mgroup, source) => \E s \in 1..Listeners : Accepts(listen[s], source)

\* What a socket listens to passes the link's filter.
\* (The code breaks it: see the README.)
WantedSourcesPass == \A source \in Sources, s \in 1..Listeners :
  Accepts(listen[s], source) => Accepts(mgroup, source)

\* The timer of a report runs only while the report is pending: when it
\* expired for another state a frame would be discarded that is not the host's.
TimerMeansPending == igmp.timer = "running" => igmp.state = "DELAYING"

\* A pending report has a timer that will send it.
\* (The code breaks it: see the README.)
PendingIsTimed == igmp.state = "DELAYING" => igmp.timer = "running"

\* What a router makes of a record for a group.
Apply(g, r) ==
  CASE r.type = "TO_INCLUDE" -> Filter("INCLUDE", r.sources)
    [] r.type = "TO_EXCLUDE" -> Filter("EXCLUDE", r.sources)
    [] r.type = "ALLOW" /\ g.mode = "INCLUDE" -> Filter(g.mode, g.sources \cup r.sources)
    [] r.type = "ALLOW" /\ g.mode = "EXCLUDE" -> Filter(g.mode, g.sources \ r.sources)
    [] r.type = "BLOCK" /\ g.mode = "INCLUDE" -> Filter(g.mode, g.sources \ r.sources)
    [] r.type = "BLOCK" /\ g.mode = "EXCLUDE" -> Filter(g.mode, g.sources \cup r.sources)
    [] OTHER -> Filter("EXCLUDE", {})

\* A change that one record can carry (a new mode, sources that are only added
\* or only removed) is carried: a router that knew the old filter lets through
\* what passes the new one.
ChangeIsCarried ==
  LET old == IF mgroup.ref = 0 THEN [NoGroup EXCEPT !.mode = "INCLUDE"] ELSE mgroup
  IN /\ mgroup' # mgroup /\ mgroup'.ref > 0
     /\ igmp'.f # igmp.f /\ igmp'.f.kind = "report"
     /\ \/ mgroup'.mode # old.mode
        \/ mgroup'.sources \subseteq old.sources \/ old.sources \subseteq mgroup'.sources
     => \A source \in Sources :
          Accepts(mgroup', source) => Accepts(Apply(old, igmp'.f), source)
ReportCarriesChange == [][ChangeIsCarried]_vars
=============================================================================
