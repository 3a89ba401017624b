-------------------------------- MODULE Ping --------------------------------
(***************************************************************************)
(* Ping operations of one host: the cookies, timers and replies of the     *)
(* ICMP module (pico_icmp4.c), the host that is pinged, and the C          *)
(* extension that calls back into Python (pycoclib.c).                     *)
(*                                                                         *)
(* Every echo request has a cookie until its timeout.  The clock advances  *)
(* when no timer is due, and timers that are due at the same time run in   *)
(* any order.  The network loses, delays and reorders.  A timer that finds *)
(* its cookie freed reads the key that was there, and finds nothing.       *)
(***************************************************************************)
EXTENDS Integers, FiniteSets

CONSTANTS Pings,       \* bound: how many operations are started
          Count,       \* requests of each, PING count
          Interval, Timeout

VARIABLES cookies,     \* the state of the cookie of every request that has one
          pingTimers,  \* the timers that are set, with the time that is left
          echoes,      \* requests and replies on their way
          lastEcho,    \* the last request that the pinged host answered
          pingsStarted,
          aborted,     \* history: the operations that were aborted
          reported,    \* history: what the callback was told of a request, and whose it was
          expired      \* history: requests whose timeout came without a reply

vars == <<cookies, pingTimers, echoes, lastEcho, pingsStarted, aborted, reported,
          expired>>
network == <<echoes, lastEcho>>
history == <<aborted, reported, expired>>

Request(id, seq) == <<id, seq>>
Init == /\ cookies = [r \in (1..Pings) \X (1..Count) |-> "none"]
        /\ pingTimers = {}
        /\ echoes = {} /\ lastEcho = <<0, 0>>
        /\ pingsStarted = 0 /\ aborted = {} /\ reported = {} /\ expired = {}

Due(kind, r, delay) == [kind |-> kind, request |-> r, left |-> delay]
\* The callback of pycoclib is the one of the operation that was started last.
Report(r, err) == [request |-> r, err |-> err, callback |-> pingsStarted]

-----------------------------------------------------------------------------
\* send_ping, with the timers that are left
SendPing(r, timers) ==
  /\ echoes' = echoes \cup {[kind |-> "request", request |-> r]}
  /\ pingTimers' = timers \cup {Due("timeout", r, Timeout)}
                          \cup (IF r[2] < Count THEN {Due("next", r, Interval)} ELSE {})

\* pingStartIp4 and pico_icmp4_ping
PingStart ==
  /\ pingsStarted < Pings
  /\ pingsStarted' = pingsStarted + 1
  /\ cookies' = [cookies EXCEPT ![Request(pingsStarted + 1, 1)] = "pending"]
  /\ SendPing(Request(pingsStarted + 1, 1), pingTimers)
  /\ UNCHANGED <<lastEcho, history>>

\* (mutant: only the first cookie of the operation is marked)
Cancelled_First(id, r) ==
  r[1] = id /\ cookies[r] # "none" /\ \A s \in 1..(r[2] - 1) : cookies[<<id, s>>] = "none"
Cancelled(id, r) == r[1] = id /\ cookies[r] # "none"
\* pico_icmp4_ping_abort
Abort(id) ==
  /\ \E r \in DOMAIN cookies : Cancelled(id, r)
  /\ cookies' = [r \in DOMAIN cookies |-> IF Cancelled(id, r) THEN "aborted" ELSE cookies[r]]
  /\ aborted' = aborted \cup {id}
  /\ UNCHANGED <<pingTimers, network, pingsStarted, reported, expired>>

-----------------------------------------------------------------------------
\* (mutant: the timeout of a request that was answered is reported too)
PingTimeout_Always(r) ==
  /\ cookies' = [cookies EXCEPT ![r] = "none"]
  /\ reported' = IF cookies[r] # "aborted" THEN reported \cup {Report(r, "timeout")} ELSE reported
  /\ expired' = IF cookies[r] = "aborted" THEN expired ELSE expired \cup {r}
\* ping_timeout
PingTimeout(r) ==
  /\ cookies' = [cookies EXCEPT ![r] = "none"]
  /\ reported' = IF cookies[r] = "pending" THEN reported \cup {Report(r, "timeout")} ELSE reported
  /\ expired' = IF cookies[r] = "aborted" THEN expired ELSE expired \cup {r}

\* (mutant: the request before the last is taken for the last)
More_ButOne(r) == cookies[r] \notin {"none", "aborted"} /\ r[2] + 1 < Count
More(r) == cookies[r] \notin {"none", "aborted"} /\ r[2] < Count
\* next_ping: the new cookie is a copy of this one, with its state.
NextPing(r, timers) ==
  IF More(r)
  THEN /\ cookies' = [cookies EXCEPT ![Request(r[1], r[2] + 1)] = cookies[r]]
       /\ SendPing(Request(r[1], r[2] + 1), timers)
  ELSE pingTimers' = timers /\ UNCHANGED <<cookies, echoes>>

TimerFires(t) ==
  /\ t \in pingTimers /\ t.left = 0
  /\ UNCHANGED <<lastEcho, pingsStarted, aborted>>
  /\ \/ /\ t.kind = "timeout" /\ PingTimeout(t.request)
        /\ pingTimers' = pingTimers \ {t} /\ UNCHANGED echoes
     \/ /\ t.kind = "next" /\ NextPing(t.request, pingTimers \ {t})
        /\ UNCHANGED <<reported, expired>>
Fires == \E t \in pingTimers : TimerFires(t)

ClockTicks ==
  /\ pingTimers # {} /\ \A t \in pingTimers : t.left > 0
  /\ pingTimers' = {[t EXCEPT !.left = @ - 1] : t \in pingTimers}
  /\ UNCHANGED <<cookies, network, pingsStarted, history>>

\* pico_icmp4_process_in of the host that is pinged: a request that is the same
\* as the last one is dropped.
Echo(r) ==
  /\ [kind |-> "request", request |-> r] \in echoes
  /\ echoes' = (echoes \ {[kind |-> "request", request |-> r]})
               \cup (IF r = lastEcho THEN {} ELSE {[kind |-> "reply", request |-> r]})
  /\ lastEcho' = r
  /\ UNCHANGED <<cookies, pingTimers, pingsStarted, history>>
Lost(m) ==
  /\ m \in echoes /\ echoes' = echoes \ {m}
  /\ UNCHANGED <<cookies, pingTimers, lastEcho, pingsStarted, history>>

Listening(r) == cookies[r] \notin {"none", "aborted"}
\* ping_recv_reply and dummy_ping_callback
RecvReply(r) ==
  /\ [kind |-> "reply", request |-> r] \in echoes
  /\ echoes' = echoes \ {[kind |-> "reply", request |-> r]}
  /\ cookies' = IF Listening(r) THEN [cookies EXCEPT ![r] = "replied"] ELSE cookies
  /\ reported' = IF Listening(r) THEN reported \cup {Report(r, "replied")} ELSE reported
  /\ UNCHANGED <<pingTimers, lastEcho, pingsStarted, aborted, expired>>

Next ==
  \/ PingStart \/ Fires \/ ClockTicks
  \/ \E id \in 1..Pings : Abort(id)
  \/ \E r \in DOMAIN cookies : Echo(r) \/ RecvReply(r)
  \/ \E m \in echoes : Lost(m)

Spec == Init /\ [][Next]_vars
\* pico_stack_tick runs the timers that are due, and time goes on.
FairSpec == Spec /\ WF_vars(Fires) /\ WF_vars(ClockTicks)

-----------------------------------------------------------------------------
(* Properties.                                                             *)

\* An operation that was aborted reports nothing more: no reply that arrives
\* late, no timeout, and no request after the one that was pending.
AbortIsFinal ==
  [][\A id \in aborted : {c \in reported' : c.request[1] = id}
                         = {c \in reported : c.request[1] = id}]_vars

\* A request that was answered is not reported as lost, nor the other way round.
OneAnswer == \A c, d \in reported : c.request = d.request => c.err = d.err

\* An operation sends every request it was asked for, unless it is aborted:
\* the cookie that the next request is made from must outlive the interval.
AllAreSent == \A id \in 1..Pings :
  pingsStarted >= id ~>
  id \in aborted \/ cookies[Request(id, Count)] # "none" \/ Request(id, Count) \in expired

\* A timeout that comes before a reply is reported.
\* (The code breaks it: see the README.)
TimeoutIsReported == \A r \in expired : \E c \in reported : c.request = r

\* What is reported goes to the callback that the operation was started with.
\* (The code breaks it: see the README.)
CallbackIsOwn == \A c \in reported : c.callback = c.request[1]
=============================================================================
