-------------------------------- MODULE Arp --------------------------------
(***************************************************************************)
(* Address resolution of an Ethernet device: the cache and the frames that *)
(* wait for it (pico_arp.c), and the way a frame takes through             *)
(* pico_ethernet_send (pico_stack.c).  A host of the link is named by its  *)
(* IPv4 address; its hardware address may change.  The clock is left out:  *)
(* a timer that runs may expire.  A device refuses frames when it is busy. *)
(***************************************************************************)
EXTENDS Integers, Sequences

CONSTANTS Neighbours,  \* the hosts of the link
          Route,       \* destination -> the neighbour that has it or leads to it
          Macs,
          Pending,     \* PICO_ARP_MAX_PENDING
          Rate         \* PICO_ARP_MAX_RATE

VARIABLES cache,    \* arp_tree
          heard,    \* the hardware address each neighbour used last
          queued,   \* frames_queued
          budget,   \* max_arp_reqs
          freed     \* a frame was used after it was freed

vars == <<cache, heard, queued, budget, freed>>

NoEntry == [status |-> "none", mac |-> 0, fresh |-> FALSE]
NoFrame == [dst |-> "none", failures |-> 0, refused |-> FALSE]
Frame(dst) == [NoFrame EXCEPT !.dst = dst]

Init == /\ cache = [h \in Neighbours |-> NoEntry]
        /\ heard = [h \in Neighbours |-> 0]
        /\ queued = [i \in 1..Pending |-> NoFrame]
        /\ budget = Rate
        /\ freed = FALSE

Lookup(c, h) == c[h].status = "reachable"

-----------------------------------------------------------------------------
(* Sending.  The functions map the queue q to the queue.                   *)

\* pico_arp_unreachable: every frame that waits for h is discarded.
Unreachable(q, h) ==
  [i \in 1..Pending |-> IF q[i] # NoFrame /\ Route[q[i].dst] = h THEN NoFrame ELSE q[i]]
\* pico_arp_retry, of a frame that now failed n times
Retry(q, h, n) == IF n < 4 THEN q ELSE Unreachable(q, h)
\* pico_arp_postpone: a copy, in the first slot that is free, if there is one
Postpone(q, f) ==
  LET free == {i \in 1..Pending : q[i] = NoFrame}
  IN IF free = {} THEN q
     ELSE [q EXCEPT ![CHOOSE i \in free : \A j \in free : i <= j] = f]

\* pico_arp_get and pico_ethernet_send: a frame without an address is
\* postponed, which is a success for the caller.
Unresolved(q, f) == LET g == [f EXCEPT !.failures = @ + 1]
                    IN Postpone(Retry(q, Route[f.dst], g.failures), g)

\* Slot i of pico_arp_queued_trigger.  When the last try discards the frame in
\* the slot itself, it is copied and freed once more.
Slot(s, i, c, busy) ==
  LET f == s.q[i]
  IN IF s.freed \/ f = NoFrame THEN s
     ELSE IF Lookup(c, Route[f.dst])
     THEN [s EXCEPT !.q[i] = IF busy THEN [f EXCEPT !.refused = TRUE] ELSE NoFrame]
     ELSE [q |-> [Unresolved(s.q, f) EXCEPT ![i] = NoFrame],
           freed |-> f.failures >= 3]
\* pico_arp_queued_trigger: every frame is sent again, whatever it waits for.
Trigger(q, c, busy) ==
  LET t[i \in 0..Pending] == IF i = 0 THEN [q |-> q, freed |-> FALSE]
                             ELSE Slot(t[i - 1], i, c, busy)
  IN t[Pending]

\* devloop_out: a frame the device refused stays in its queue.
Send(dst) == /\ queued' = IF Lookup(cache, Route[dst]) THEN queued
                          ELSE Unresolved(queued, Frame(dst))
             /\ UNCHANGED <<cache, heard, budget, freed>>

-----------------------------------------------------------------------------
(* Packets and timers.                                                     *)

Reachable(mac) == [status |-> "reachable", mac |-> mac, fresh |-> FALSE]
\* (mutant: the entry goes into the tree after the frames were tried)
AddEntry_TriggerFirst(h, mac, busy) ==
  LET t == Trigger(queued, cache, busy)
  IN /\ cache' = [cache EXCEPT ![h] = Reachable(mac)]
     /\ queued' = t.q /\ freed' = t.freed
\* pico_arp_add_entry
AddEntry(h, mac, busy) ==
  LET c == [cache EXCEPT ![h] = Reachable(mac)]
      t == Trigger(queued, c, busy)
  IN /\ cache' = c /\ queued' = t.q /\ freed' = t.freed

Update(h, mac) == cache' = [cache EXCEPT ![h].mac = mac, ![h].fresh = TRUE]
\* pico_arp_lookup_entry: an entry that is stale comes back as it was.
LookupEntry(h, mac, busy) ==
  CASE cache[h].status = "stale" -> AddEntry(h, cache[h].mac, busy)
    [] cache[h].status = "reachable" -> Update(h, mac) /\ UNCHANGED <<queued, freed>>

\* pico_arp_check_flooding: the packet is for this host, and not one of too
\* many requests.
Flooding(request, forMe) == ~forMe \/ (request /\ budget = 0)
\* pico_arp_receive; the reply changes nothing here.
Receive(h, mac, request, forMe, busy) ==
  /\ heard' = [heard EXCEPT ![h] = mac]
  /\ IF cache[h] # NoEntry THEN LookupEntry(h, mac, busy)
     ELSE IF Flooding(request, forMe) THEN UNCHANGED <<cache, queued, freed>>
     ELSE AddEntry(h, mac, busy)
  /\ budget' = IF request /\ ~Flooding(request, forMe) THEN budget - 1 ELSE budget

Expire(h) == cache' = [cache EXCEPT ![h].fresh = FALSE,
                                    ![h].status = IF cache[h].fresh THEN @ ELSE "stale"]
\* arp_expire: an entry that was heard of meanwhile gets another period, and a
\* stale one is asked for.
ArpExpire(h) == /\ cache[h].status = "reachable"
                /\ Expire(h)
                /\ UNCHANGED <<heard, queued, budget, freed>>

\* update_max_arp_reqs
MoreRequests == /\ budget < Rate /\ budget' = budget + 1
                /\ UNCHANGED <<cache, heard, queued, freed>>

Next == /\ ~freed
        /\ \/ \E dst \in DOMAIN Route : Send(dst)
           \/ \E h \in Neighbours :
                \/ ArpExpire(h)
                \/ \E mac \in Macs, request, forMe, busy \in BOOLEAN :
                     Receive(h, mac, request, forMe, busy)
           \/ MoreRequests

Spec == Init /\ [][Next]_vars

-----------------------------------------------------------------------------
(* Properties.                                                             *)

\* No frame is left waiting for an address that is known, unless the device
\* itself refused it: each new entry sends what waits (pico_arp.c:270).
WaitingIsUnresolved == ~freed => \A i \in 1..Pending :
  queued[i] # NoFrame /\ ~queued[i].refused => ~Lookup(cache, Route[queued[i].dst])

\* An entry that is used holds the address its owner spoke with last.
\* (The code breaks it: see the README.)
UsedIsLastHeard == \A h \in Neighbours : Lookup(cache, h) => cache[h].mac = heard[h]

\* The retries of a frame end before it is freed in its own slot.
\* (The code breaks it: see the README.)
NothingFreed == ~freed
=============================================================================
