-------------------------------- MODULE Mld --------------------------------
(***************************************************************************)
(* One multicast group of one IPv6 link (pico_ipv6.c) and the MLD listener *)
(* that tells the routers about it (pico_mld.c).                           *)
(*                                                                         *)
(* The filter of the sockets that listen comes in with every join and      *)
(* leave: it is any filter while a socket listens, INCLUDE nothing when    *)
(* none does (how it is built is in Multicast).  The timers of MLD live in *)
(* a tree, and each is run by an alarm of the stack, which is never taken  *)
(* back: an alarm is current while it was set for the timer of the tree,   *)
(* stale when that timer was taken out.  Time is left out: an alarm may go *)
(* off early, and whether its timer is due is a choice.                    *)
(***************************************************************************)
EXTENDS Integers, FiniteSets

CONSTANTS Listeners,   \* bound: how many sockets may listen
          Sources,
          MaxStale     \* bound: how many stale alarms there may be

VARIABLES group6,      \* the group of the link: reference count and filter
          mld,         \* its parameter, the mode of the link
          mldTimer,    \* the timer of its report in the tree: none, running or stopped
          alarms       \* the alarms that are set, current and stale

vars == <<group6, mld, mldTimer, alarms>>

Filter(mode, sources) == [mode |-> mode, sources |-> sources]
Nothing == Filter("INCLUDE", {})
Filters == {Filter("EXCLUDE", s) : s \in SUBSET Sources}
           \cup {Filter("INCLUDE", s) : s \in SUBSET Sources \ {{}}}
NoFrame == [type |-> "none", sources |-> {}]
Record(type, sources) == [type |-> type, sources |-> sources]

Init == /\ group6 = [ref |-> 0, filter |-> Nothing]
        /\ mld = [state |-> "none", f |-> NoFrame, version |-> 2, querier |-> FALSE]
        /\ mldTimer = "none"
        /\ alarms = [current |-> 0, stale |-> 0]

-----------------------------------------------------------------------------
(* The report of a change, pico_mld_generate_report.                       *)

\* What is new takes precedence over what is old: one record is sent.
Included(old, new) ==
  IF new.sources \ old.sources # {} THEN Record("ALLOW", new.sources \ old.sources)
  ELSE IF old.sources \ new.sources # {} THEN Record("BLOCK", old.sources \ new.sources)
  ELSE NoFrame
\* (mutant: what the sockets do not exclude any more is not said)
Excluded_BlockOnly(old, new) ==
  IF new.sources \ old.sources # {} THEN Record("BLOCK", new.sources \ old.sources)
  ELSE IF old.sources \ new.sources # {} THEN Record("BLOCK", old.sources \ new.sources)
  ELSE NoFrame
Excluded(old, new) ==
  IF new.sources \ old.sources # {} THEN Record("BLOCK", new.sources \ old.sources)
  ELSE IF old.sources \ new.sources # {} THEN Record("ALLOW", old.sources \ new.sources)
  ELSE NoFrame

GenerateReport(k, event, old, new) ==
  CASE k.version = 1 -> Record("V1", {})
    [] k.version = 2 /\ event = "STOP" -> Record("TO_INCLUDE", {})
    [] k.version = 2 /\ event # "STOP" /\ old.mode # new.mode ->
         Record(IF new.mode = "INCLUDE" THEN "TO_INCLUDE" ELSE "TO_EXCLUDE", new.sources)
    [] k.version = 2 /\ event = "START" /\ old.mode = "INCLUDE" /\ new.mode = "INCLUDE" ->
         Record("TO_INCLUDE", new.sources)
    [] OTHER -> IF new.mode = "INCLUDE" THEN Included(old, new) ELSE Excluded(old, new)

-----------------------------------------------------------------------------
(* The handlers of the table, each the parameter, the timer and the alarms *)
(* after it.  The row of the state 1, delaying, is the one whose comment   *)
(* says idle, that of the state 2 the one whose comment says delaying.     *)

Machine(k, timer, a) == [k |-> k, timer |-> timer, alarms |-> a]
\* A timer that is in the tree keeps its mark, a new one gets an alarm.
TimerStart(m) ==
  IF m.timer # "none" THEN m
  ELSE [m EXCEPT !.timer = "running", !.alarms.current = @ + 1]
Delaying(m) == [m EXCEPT !.k.state = "DELAYING"]
Idle(m) == [m EXCEPT !.k.state = "IDLE"]

\* (mutant: the timer of the report is not stopped)
Stsdifs_NoStop(m) ==
  IF m.timer = "none" THEN m
  ELSE [m EXCEPT !.k.state = "none", !.k.f = NoFrame]
\* Stop the timer, tell the routers, delete the parameter.
Stsdifs(m) ==
  IF m.timer = "none" THEN m
  ELSE [m EXCEPT !.timer = "stopped", !.k.state = "none", !.k.f = NoFrame]

Srsfst(m, event, old, new) ==
  LET f == GenerateReport(m.k, event, old, new)
  IN IF f = NoFrame THEN [m EXCEPT !.k.f = f] ELSE Delaying(TimerStart([m EXCEPT !.k.f = f]))
Srst(m, event, old, new) == IF m.k.version = 1 THEN m ELSE Srsfst(m, event, old, new)
\* The pending report is sent again; without a timer it stays as it is.
Mrsrrt(m) == m
Rtimrtct(m) == IF m.timer = "none" THEN m ELSE Delaying(m)
Stcl(m) == IF m.timer = "none" THEN m ELSE Idle([m EXCEPT !.timer = "stopped"])
\* What is sent is the frame itself, of which nothing is left afterwards.
Srsf(m) == [Idle(m) EXCEPT !.k.f = Record("sent", {})]

\* pico_mld_state_change and pico_mld_process_event
StateChange(m, event, old, new) ==
  LET n == IF m.k.state = "none" THEN [m EXCEPT !.k.state = "NON_LISTENER"] ELSE m
  IN CASE m.k.state = "none" /\ event # "START" -> m
       [] n.k.state = "NON_LISTENER" /\ event # "STOP" -> Srsfst(n, event, old, new)
       [] n.k.state = "DELAYING" /\ event = "STOP" -> Stsdifs(n)
       [] n.k.state = "DELAYING" /\ event # "STOP" -> Mrsrrt(n)
       [] n.k.state = "IDLE" /\ event = "STOP" -> Rtimrtct(n)
       [] n.k.state = "IDLE" /\ event # "STOP" -> Srst(n, event, old, new)
       [] OTHER -> n

Now == Machine(mld, mldTimer, alarms)
\* The number of stale alarms is bounded here.
Becomes(m) == /\ m.alarms.stale <= MaxStale
              /\ mld' = m.k /\ mldTimer' = m.timer /\ alarms' = m.alarms

-----------------------------------------------------------------------------
(* Joining and leaving: count says whether a socket begins or ceases to    *)
(* listen, or only changes its sources.                                    *)

\* pico_ipv6_mcast_join; a group begins with nothing included.
Join(filter, count) ==
  /\ group6.ref + count \in 1..Listeners
  /\ group6' = [ref |-> IF group6.ref = 0 THEN 1 ELSE group6.ref + count, filter |-> filter]
  /\ Becomes(StateChange(Now, IF group6.ref = 0 THEN "START" ELSE "UPDATE",
                         group6.filter, filter))

\* pico_ipv6_mcast_leave
Leave(filter, count) ==
  /\ group6.ref > 0
  /\ LET last == group6.ref = 1 /\ count = 1
     IN /\ last = (filter = Nothing)
        /\ group6' = [ref |-> group6.ref - count, filter |-> filter]
        /\ Becomes(StateChange(Now, IF last THEN "STOP" ELSE "UPDATE", group6.filter, filter))

-----------------------------------------------------------------------------
(* What comes from the network, and the timers.                            *)

\* pico_mld_compatibility_mode: a message of MLDv1 empties the tree of timers.
Version1(m) ==
  [m EXCEPT !.k.version = 1, !.k.querier = TRUE, !.timer = "none",
            !.alarms = [current |-> 0, stale |-> m.alarms.stale + m.alarms.current]]
QueryEvent(m) == CASE m.k.state = "DELAYING" -> Rtimrtct(m)
                   [] m.k.state = "IDLE" -> Srsf(m)
                   [] OTHER -> m
\* A query of the group is kept as the frame of the parameter.
Query(version) ==
  /\ UNCHANGED group6
  /\ version = 2 => ~mld.querier
  /\ LET m == IF version = 1 THEN Version1(Now) ELSE [Now EXCEPT !.k.version = 2]
     IN Becomes(IF m.k.state = "none" THEN m
                ELSE QueryEvent([m EXCEPT !.k.f = Record("query", {})]))

\* The report of another host, of version 1: one of version 2 has its group
\* elsewhere and is not found.
ReportRecv ==
  /\ UNCHANGED group6
  /\ LET m == Version1(Now)
         n == [m EXCEPT !.k.f = Record("query", {})]
     IN Becomes(CASE m.k.state = "none" -> m
                  [] m.k.state = "DELAYING" -> Stcl(n)
                  [] m.k.state = "IDLE" -> Stsdifs(n)
                  [] OTHER -> n)

\* pico_mld_report_expired
Reported(m) == IF m.k.state = "DELAYING" THEN Srsf(m) ELSE m
\* (mutant: a timer that is not due is not given an alarm again)
TimerExpired_Once(m, due) ==
  CASE m.timer = "none" -> m
    [] m.timer = "stopped" -> [m EXCEPT !.timer = "none"]
    [] m.timer = "running" /\ due -> Reported([m EXCEPT !.timer = "none"])
    [] OTHER -> m
\* pico_mld_timer_expired, with the timer that the tree has for this key: not
\* always the one that the alarm was set for.
TimerExpired(m, due) ==
  CASE m.timer = "none" -> m
    [] m.timer = "stopped" -> [m EXCEPT !.timer = "none"]
    [] m.timer = "running" /\ due -> Reported([m EXCEPT !.timer = "none"])
    [] OTHER -> [m EXCEPT !.alarms.current = @ + 1]
\* When the timer has left the tree every other alarm of it is stale.
Settled(m) == IF m.timer # "none" THEN m
              ELSE [m EXCEPT !.alarms = [current |-> 0, stale |-> @.stale + @.current]]
AlarmGoesOff(which, due) ==
  /\ alarms[which] > 0
  /\ UNCHANGED group6
  /\ Becomes(Settled(TimerExpired([Now EXCEPT !.alarms[which] = @ - 1], due)))

\* pico_mld_v1querier_expired
V1QuerierExpired ==
  /\ mld.querier
  /\ UNCHANGED group6
  /\ LET m == Version1(Now) IN Becomes([m EXCEPT !.k.querier = FALSE, !.k.version = 2])

Next ==
  \/ \E filter \in Filters, count \in {0, 1} : Join(filter, count)
  \/ \E filter \in Filters \cup {Nothing}, count \in {0, 1} : Leave(filter, count)
  \/ Query(1) \/ Query(2) \/ ReportRecv \/ V1QuerierExpired
  \/ \E which \in {"current", "stale"}, due \in BOOLEAN : AlarmGoesOff(which, due)

Spec == Init /\ [][Next]_vars

-----------------------------------------------------------------------------
(* Properties.                                                             *)

\* A timer that runs belongs to a report that is pending: it was stopped when
\* the group was left, whatever queries and reports came in between.
RunningIsPending == mldTimer = "running" => mld.state = "DELAYING"

\* A timer of the tree has an alarm: it would never be due otherwise, nor would
\* one for the same group ever be started again.
TimerHasAlarm == mldTimer # "none" => alarms.current > 0

Accepts(l, source) == \/ l.mode = "INCLUDE" /\ source \in l.sources
                      \/ l.mode = "EXCLUDE" /\ source \notin l.sources
\* What a router makes of a record for a group.
Apply(g, r) ==
  CASE r.type = "TO_INCLUDE" -> Filter("INCLUDE", r.sources)
    [] r.type = "TO_EXCLUDE" -> Filter("EXCLUDE", r.sources)
    [] r.type = "ALLOW" /\ g.mode = "INCLUDE" -> Filter(g.mode, g.sources \cup r.sources)
    [] r.type = "ALLOW" /\ g.mode = "EXCLUDE" -> Filter(g.mode, g.sources \ r.sources)
    [] r.type = "BLOCK" /\ g.mode = "INCLUDE" -> Filter(g.mode, g.sources \ r.sources)
    [] r.type = "BLOCK" /\ g.mode = "EXCLUDE" -> Filter(g.mode, g.sources \cup r.sources)
    [] OTHER -> Filter("EXCLUDE", {})

\* A report made for a change that one record can carry tells a router that
\* knew the old filter of the link every source of the new one, and no other.
ChangeIsCarried ==
  LET old == group6.filter
      new == group6'.filter
  IN /\ group6'.ref > 0 /\ mld'.f # mld.f
     /\ mld'.f.type \notin {"none", "query", "sent", "V1"}
     /\ \/ new.mode # old.mode
        \/ new.sources \subseteq old.sources \/ old.sources \subseteq new.sources
     => \A source \in Sources : Accepts(Apply(old, mld'.f), source) = Accepts(new, source)
RecordCarriesChange == [][ChangeIsCarried]_vars

\* An idle listener that leaves tells the routers and is deleted.
\* (The code breaks it: see the README.)
IdleLeaves == [][mld.state = "IDLE" /\ group6.ref > 0 /\ group6'.ref = 0
                 => mld'.state = "none"]_vars
=============================================================================
