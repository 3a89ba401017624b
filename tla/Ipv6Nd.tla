------------------------------- MODULE Ipv6Nd -------------------------------
(***************************************************************************)
(* Neighbour discovery of IPv6 (pico_ipv6_nd.c): the cache and the         *)
(* frames that wait for an address.  A packet that fails its checks        *)
(* changes nothing and is left out; the clock is too: an entry may expire  *)
(* whenever the timer looks at it.                                         *)
(***************************************************************************)
EXTENDS Integers, Sequences

CONSTANTS Neighbours, Macs,  \* 0 stands for no hardware address
          MaxSolicit,        \* PICO_ND_MAX_SOLICIT
          Slots              \* PICO_ND_MAX_FRAMES_QUEUED

VARIABLES ncache,   \* NCache
          waiting,  \* frames_queued_v6: for whom each frame waits
          lastEnq,  \* last_enq
          said      \* hardware address in the last packet of each neighbour

vars == <<ncache, waiting, lastEnq, said>>

Nobody == "nobody"
NoNeighbour == [state |-> "none", mac |-> 0, failures |-> 0]

Init == /\ ncache = [n \in Neighbours |-> NoNeighbour]
        /\ waiting = [i \in 1 .. Slots |-> Nobody]
        /\ lastEnq = 0
        /\ said = [n \in Neighbours |-> 0]

-----------------------------------------------------------------------------
(* Sending.  s is the cache, the frames that wait and last_enq.            *)

Unresolved(n) == n.state \in {"none", "incomplete"}
\* pico_nd_discover: the failure is counted, and a solicitation sent if it is
\* not one too many.
\* (mutant: a solicitation is not counted)
Discovered_Uncounted(n) == n
Discovered(n) == [n EXCEPT !.failures = IF @ > MaxSolicit THEN @ ELSE @ + 1]
\* pico_nd_get_neighbor: a new entry is asked for, a stale one waits for a probe.
Used(n) == CASE n.state = "none"  -> Discovered([n EXCEPT !.state = "incomplete"])
             [] n.state = "stale" -> [n EXCEPT !.state = "delay"]
             [] OTHER -> n
\* pico_ipv6_nd_postpone: the first free slot, or the one after the last.
Postpone(s, h) ==
  LET free == {i \in 1 .. Slots : s.w[i] = Nobody}
      slot == IF free = {} THEN (s.last % Slots) + 1
              ELSE CHOOSE i \in free : \A j \in free : i <= j
  IN [s EXCEPT !.w[slot] = h, !.last = slot]
\* pico_ethernet_send of a frame for h
EthernetSend(s, h) ==
  LET t == [s EXCEPT !.c[h] = Used(@)]
  IN IF Unresolved(s.c[h]) THEN Postpone(t, h) ELSE t
\* pico_ipv6_nd_queued_trigger: every frame is sent again, whomever it waits for;
\* what the slot holds then is thrown away.
Trigger(s) ==
  LET t[i \in 0 .. Slots] ==
        IF i = 0 THEN s
        ELSE LET u == t[i - 1]
             IN IF u.w[i] = Nobody THEN u ELSE [EthernetSend(u, u.w[i]) EXCEPT !.w[i] = Nobody]
  IN t[Slots]

Now(cache) == [c |-> cache, w |-> waiting, last |-> lastEnq]
Become(s) == ncache' = s.c /\ waiting' = s.w /\ lastEnq' = s.last
Changed(h, n) == [ncache EXCEPT ![h] = n]
Just(h, n) == Become(Now(Changed(h, n)))
AndTrigger(h, n) == Become(Trigger(Now(Changed(h, n))))

Send(h) == Become(EthernetSend(Now(ncache), h)) /\ UNCHANGED said

-----------------------------------------------------------------------------
(* Packets.                                                                *)

Confirmed(n) == [n EXCEPT !.state = "reachable", !.failures = 0]
\* neigh_adv_process_incomplete
\* (mutant: the frames that wait are not looked at)
Incomplete_Quiet(h, n, solicited) ==
  Just(h, IF solicited THEN Confirmed(n) ELSE [n EXCEPT !.state = "stale"])
Incomplete(h, n, solicited) ==
  AndTrigger(h, IF solicited THEN Confirmed(n) ELSE [n EXCEPT !.state = "stale"])

\* neigh_adv_reconfirm, of an entry n that is complete
\* (mutant: an address that differs is taken only from an answer)
Reconfirm_Deaf(h, n, solicited, override, mac) ==
  IF solicited /\ (override \/ n.mac = mac) THEN AndTrigger(h, Confirmed([n EXCEPT !.mac = mac]))
  ELSE Just(h, n)
Reconfirm(h, n, solicited, override, mac) ==
  CASE solicited /\ ~override /\ n.mac = mac -> AndTrigger(h, Confirmed(n))
    [] solicited /\ ~override /\ n.mac # mac ->
         Just(h, IF n.state = "reachable" THEN [n EXCEPT !.state = "stale"] ELSE n)
    [] solicited /\ override -> AndTrigger(h, Confirmed([n EXCEPT !.mac = mac]))
    [] ~solicited /\ override ->
         IF n.mac # mac THEN AndTrigger(h, [n EXCEPT !.mac = mac, !.state = "stale"])
         ELSE Just(h, n)
    [] ~solicited /\ ~override ->
         Just(h, IF n.state = "reachable" /\ n.mac # mac THEN [n EXCEPT !.state = "stale"]
                 ELSE n)
\* neigh_adv_reconfirm_no_tlla: an answer without an address confirms any entry,
\* also one that has no address yet.
NoTlla(h, n, solicited) == IF solicited THEN AndTrigger(h, Confirmed(n)) ELSE Just(h, n)

\* neigh_adv_process; mac is 0 without the option.
Advertisement(h, solicited, override, mac) ==
  LET n == ncache[h]
  IN /\ said' = [said EXCEPT ![h] = mac]
     /\ CASE n = NoNeighbour -> Just(h, n)
          [] n # NoNeighbour /\ mac = 0 -> NoTlla(h, n, solicited)
          [] mac # 0 /\ n.state = "incomplete" -> Incomplete(h, [n EXCEPT !.mac = mac], solicited)
          [] OTHER -> Reconfirm(h, n, solicited, override, mac)

\* pico_ipv6_neighbor_from_unsolicited: a solicitation or a packet of a router,
\* with the address of its sender.
FromUnsolicited(h, mac) ==
  /\ said' = [said EXCEPT ![h] = mac]
  /\ IF ncache[h].mac = mac /\ ncache[h] # NoNeighbour THEN Just(h, ncache[h])
     ELSE AndTrigger(h, [ncache[h] EXCEPT !.mac = mac, !.state = "stale"])

-----------------------------------------------------------------------------
(* pico_ipv6_nd_timer_elapsed                                              *)

\* pico_ipv6_nd_unreachable
Without(w, h) == [i \in 1 .. Slots |-> IF w[i] = h THEN Nobody ELSE w[i]]
Elapsed(h) ==
  LET n == ncache[h]
  IN /\ n.state \in {"incomplete", "probe", "reachable", "delay"}
     /\ CASE n.state \in {"incomplete", "probe"} /\ n.failures > MaxSolicit ->
               /\ ncache' = Changed(h, NoNeighbour) /\ waiting' = Without(waiting, h)
               /\ UNCHANGED lastEnq
          [] n.state \in {"incomplete", "probe"} /\ n.failures <= MaxSolicit ->
               Just(h, Discovered(n))
          [] n.state = "reachable" -> Just(h, [n EXCEPT !.state = "stale"])
          [] n.state = "delay" -> Just(h, [n EXCEPT !.state = "probe"])
     /\ UNCHANGED said

Next == \E h \in Neighbours :
          \/ Send(h) \/ Elapsed(h)
          \/ \E solicited, override \in BOOLEAN, mac \in Macs \cup {0} :
                Advertisement(h, solicited, override, mac)
          \/ \E mac \in Macs : FromUnsolicited(h, mac)

Spec == Init /\ [][Next]_vars
\* The timer looks at every entry five times a second.
FairSpec == Spec /\ \A h \in Neighbours : WF_vars(Elapsed(h))

-----------------------------------------------------------------------------
(* Properties.                                                             *)

\* A frame waits only for a neighbour that is being asked for: it neither stays
\* when the answer has come nor when nobody asks any more, however the frames
\* change their slots while they are tried (pico_ipv6_nd.c:65, 107, 944).
WaitingIsAskedFor == \A i \in 1 .. Slots :
  waiting[i] # Nobody => ncache[waiting[i]].state = "incomplete"

\* A neighbour counts as reachable only at the address it gave when it last gave
\* one; another address makes the entry stale (pico_ipv6_nd.c:289-333).
ReachableAsSaid == \A h \in Neighbours :
  (ncache[h].state = "reachable" /\ said[h] # 0) => ncache[h].mac = said[h]

\* Asking for a neighbour ends: there is an answer, or it is given up
\* (pico_ipv6_nd.c:847).
AskingEnds == \A h \in Neighbours :
  ncache[h].state \in {"incomplete", "probe"} ~> ncache[h].state \notin {"incomplete", "probe"}

\* An entry that is complete has an address.
\* (The code breaks it: see the README.)
CompleteHasAddress == \A h \in Neighbours :
  ncache[h].state \notin {"none", "incomplete"} => ncache[h].mac # 0
=============================================================================
