------------------------------ MODULE Slaacv4 ------------------------------
(***************************************************************************)
(* Claiming a link-local IPv4 address (pico_slaacv4.c) on a device whose   *)
(* link may go down and come back, which is noticed by polling             *)
(* (pico_hotplug_detection.c).  Addresses are drawn at random; other hosts *)
(* use them or probe for them.  Time is left out: a timer that runs may    *)
(* expire.                                                                 *)
(***************************************************************************)
EXTENDS Integers

CONSTANTS Addresses,
          HasLinkState,  \* the device can tell whether its link is up
          Flap,          \* a conflict may come before the poll that sees the link up
          ProbeNb, AnnounceNb,        \* PROBE_NB, ANNOUNCE_NB
          MaxConflicts, MaxFailures   \* MAX_CONFLICTS, MAX_CONFLICTS_FAIL

VARIABLES slaac,    \* slaacv4_local
          timers,   \* the timers that run, and for which function
          links,    \* the link-local addresses of the device
          hotplug,  \* the registration, the link, and what the last poll saw
          probed    \* probes for slaac.ip since it was chosen or the link came up

vars == <<slaac, timers, links, hotplug, probed>>

Cookie(ip) == [state |-> "reset", probes |-> 0, conflicts |-> 0, announces |-> 0, ip |-> ip]

Init == /\ slaac = Cookie(0)
        /\ timers = [probe |-> 0, announce |-> 0]
        /\ links = {}
        /\ hotplug = [registered |-> FALSE, up |-> TRUE, seen |-> TRUE]
        /\ probed = 0

NoTimers == [probe |-> 0, announce |-> 0]
\* pico_slaacv4_cancel_timers: the one timer whose name is kept.
\* (mutant: the old timer goes on)
Cancelled_None(t) == t
Cancelled(t) == IF t.announce > 0 THEN [t EXCEPT !.announce = @ - 1]
                ELSE IF t.probe > 0 THEN [t EXCEPT !.probe = @ - 1] ELSE t
Start(t, kind) == [t EXCEPT ![kind] = @ + 1]

\* Send a probe, and wait for the next.
ProbeFor(k, t) == /\ slaac' = [k EXCEPT !.probes = @ + 1]
                  /\ timers' = Start(t, "probe") /\ probed' = 1
Begin(k) == [k EXCEPT !.state = "claiming", !.probes = 0, !.announces = 0]

Claim(ip) ==
  /\ slaac.state \in {"reset", "error"} /\ timers = NoTimers /\ ~hotplug.registered
  /\ IF HasLinkState
     THEN /\ hotplug' = [hotplug EXCEPT !.registered = TRUE, !.seen = hotplug.up]
          /\ IF hotplug.up THEN ProbeFor(Begin(Cookie(ip)), timers)
             ELSE slaac' = Cookie(ip) /\ probed' = 0 /\ UNCHANGED timers
     ELSE ProbeFor(Begin(Cookie(ip)), timers) /\ UNCHANGED hotplug
  /\ UNCHANGED links

SendProbe ==
  /\ timers.probe > 0
  /\ IF slaac.probes < ProbeNb
     THEN /\ slaac' = [slaac EXCEPT !.probes = @ + 1] /\ probed' = probed + 1
          /\ UNCHANGED timers
     ELSE /\ slaac' = [slaac EXCEPT !.state = "announcing"]
          /\ timers' = Start([timers EXCEPT !.probe = @ - 1], "announce")
          /\ UNCHANGED probed
  /\ UNCHANGED <<links, hotplug>>

SendAnnounce ==
  /\ timers.announce > 0
  /\ IF slaac.announces < AnnounceNb
     THEN /\ slaac' = [slaac EXCEPT !.announces = @ + 1] /\ UNCHANGED <<timers, links>>
     ELSE /\ slaac' = [slaac EXCEPT !.state = "claimed"]
          /\ timers' = [timers EXCEPT !.announce = @ - 1]
          /\ links' = links \cup {slaac.ip}
  /\ UNCHANGED <<hotplug, probed>>

\* pico_slaacv4_receive_ipconflict: another host uses the address ("CONFLICT")
\* or asks for it ("PROBE"); a claimed address stays in the second case.
\* (mutant: the probes sent so far count for the new address)
Restart_Counted(k, ip) == [Begin(k) EXCEPT !.probes = k.probes, !.ip = ip]
Restart(k, ip) == [Begin(k) EXCEPT !.ip = ip]
Lost(reason) == IF slaac.state = "claimed" /\ reason = "CONFLICT"
                THEN links \ {slaac.ip} ELSE links
Conflict(reason, ip) ==
  /\ slaac.state # "reset" /\ slaac.ip # 0
  /\ hotplug.up /\ (Flap \/ hotplug.seen \/ ~HasLinkState)
  /\ slaac.conflicts <= MaxFailures
  /\ links' = Lost(reason)
  /\ LET k == [slaac EXCEPT !.conflicts = @ + 1]
         t == Cancelled(timers)
     IN IF k.conflicts < MaxConflicts
        THEN ProbeFor(Restart(k, ip), t) /\ UNCHANGED hotplug
        ELSE IF k.conflicts < MaxFailures
        THEN /\ slaac' = Restart(k, ip) /\ timers' = Start(t, "probe") /\ probed' = 0
             /\ UNCHANGED hotplug
        ELSE /\ slaac' = [k EXCEPT !.state = "error"] /\ timers' = t
             /\ hotplug' = [hotplug EXCEPT !.registered = FALSE]
             /\ UNCHANGED probed

\* The link goes down or comes up; timer_cb sees it when it polls.
LinkChanges == /\ HasLinkState
               /\ hotplug' = [hotplug EXCEPT !.up = ~@]
               /\ UNCHANGED <<slaac, timers, links, probed>>
\* (mutant: the address stays when the link goes down)
Down_Keep == links
Down == IF slaac.state = "claimed" THEN links \ {slaac.ip} ELSE links
\* pico_slaacv4_hotplug_cb
HotplugPoll ==
  /\ hotplug.registered /\ hotplug.up # hotplug.seen
  /\ hotplug' = [hotplug EXCEPT !.seen = hotplug.up]
  /\ IF hotplug.up THEN ProbeFor(Begin(slaac), timers) /\ UNCHANGED links
     ELSE links' = Down /\ timers' = Cancelled(timers) /\ UNCHANGED <<slaac, probed>>

\* The device of the cookie is forgotten before its registration is ended with
\* it: with a registration in the tree the comparison reads no device at all.
Unregister ==
  /\ slaac.state # "crashed"
  /\ links' = IF slaac.state = "claimed" THEN links \ {slaac.ip} ELSE links
  /\ timers' = Cancelled(timers) /\ probed' = 0
  /\ slaac' = IF hotplug.registered THEN [Cookie(0) EXCEPT !.state = "crashed"] ELSE Cookie(0)
  /\ UNCHANGED hotplug

Next == /\ slaac.state # "crashed"
        /\ \/ \E ip \in Addresses : \/ Claim(ip)
                                    \/ Conflict("CONFLICT", ip) \/ Conflict("PROBE", ip)
           \/ SendProbe \/ SendAnnounce \/ LinkChanges \/ HotplugPoll \/ Unregister

Spec == Init /\ [][Next]_vars

-----------------------------------------------------------------------------
(* Properties.                                                             *)

\* An address that is claimed was probed for as often as it has to be, since
\* it was chosen and since the link came up (pico_slaacv4.c:119).
ClaimedWasProbed == slaac.state = "claimed" => probed >= ProbeNb

\* The state has the timer it waits for and no other, except while the link is
\* down: a timer that is left over would claim the next address early.
TimerOfState ==
  CASE slaac.state = "claiming" /\ (hotplug.seen \/ ~HasLinkState) ->
         timers = [probe |-> 1, announce |-> 0]
    [] slaac.state = "announcing" /\ (hotplug.seen \/ ~HasLinkState) ->
         timers = [probe |-> 0, announce |-> 1]
    [] OTHER -> timers = NoTimers

\* An address another host was heard to use is not on the link, nor is one
\* whose link went down (pico_slaacv4.c:143, 199).
ClaimedIsLinked == slaac.state = "claimed" =>
  (slaac.ip \in links <=> (hotplug.seen \/ ~HasLinkState))

\* The device has one link-local address at a time.
\* (The code breaks it: see the README.)
OneAddress == \A a, b \in links : a = b

\* Giving the address up resets the state of the module.
\* (The code breaks it: see the README.)
UnregisterResets == slaac.state # "crashed"
=============================================================================
