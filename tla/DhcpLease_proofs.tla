------------------------- MODULE DhcpLease_proofs --------------------------
(***************************************************************************)
(* Proofs about DhcpLease, for any number of clients and hosts, any pool   *)
(* and any number of retries, over a network that loses, repeats, delays   *)
(* and reorders: leases are distinct, a device has the address of its      *)
(* lease and no other, and no client is without a timer.                   *)
(***************************************************************************)
EXTENDS DhcpLease, FiniteSetTheorems, TLAPS

-----------------------------------------------------------------------------
(* Cookies                                                                 *)

States == {"NONE", "GONE", "INIT", "REQUESTING"} \cup BoundStates
Messages == [type : {"DISCOVER", "REQUEST"}, reqip : BOOLEAN, ciaddr : Nat]
Cookies == [state : States, retry : Nat, s : BOOLEAN, timer : SUBSET Timers,
            address : Nat, links : SUBSET Nat, sent : SUBSET Messages]

\* Which timers run is known from the state, but for T2 and the lease's, which
\* outlive T1 only if the renewal could not be sent.
Shape(k) ==
  /\ k.state \in {"NONE", "GONE"} => k.timer = {} /\ ~k.s
  /\ k.state = "INIT" => k.timer = {"INIT"}
  /\ k.state = "REQUESTING" => "REQUEST" \in k.timer /\ k.timer \subseteq {"INIT", "REQUEST"}
  /\ k.state = "BOUND" => k.timer = Reacquisition
  /\ k.state = "RENEWING" => k.timer \in {{"RENEW"}, {"T2", "LEASE"}}
  /\ k.state = "REBINDING" => k.timer = {"REBIND"}
  /\ k.state \in BoundStates => k.links = {k.address}

Good(k) == k \in Cookies /\ Shape(k)

LEMMA NoCookieIsGood == Good(NoCookie)
BY DEF NoCookie, Good, Cookies, Shape, States, NoAddress, BoundStates, Reacquisition

LEMMA SendMsgKeeps ==
  ASSUME NEW k \in Cookies, NEW type \in {"DISCOVER", "REQUEST"}
  PROVE  /\ SendMsg(k, type) \in Cookies
         /\ SendMsg(k, type).state = k.state /\ SendMsg(k, type).timer = k.timer
         /\ SendMsg(k, type).address = k.address /\ SendMsg(k, type).links = k.links
         /\ SendMsg(k, type).s = k.s /\ SendMsg(k, type).retry = k.retry
<1> DEFINE m == [type |-> type, reqip |-> k.state = "REQUESTING",
                 ciaddr |-> IF k.state \in BoundStates THEN k.address ELSE NoAddress]
           sent == IF k.s THEN k.sent \cup {m} ELSE k.sent
<1>1. m \in Messages
  BY DEF Cookies, Messages, NoAddress
<1>2. sent \in SUBSET Messages
  BY <1>1 DEF Cookies
<1>3. SendMsg(k, type) = [k EXCEPT !.sent = sent]
  BY DEF SendMsg
<1> HIDE DEF sent
<1> QED
  BY <1>2, <1>3 DEF Cookies

LEMMA StopTimersKeeps ==
  ASSUME NEW k \in Cookies
  PROVE  /\ StopTimers(k) \in Cookies /\ StopTimers(k).timer = {}
         /\ StopTimers(k).state = k.state /\ StopTimers(k).address = k.address
         /\ StopTimers(k).links = k.links /\ StopTimers(k).retry = 0
BY DEF StopTimers, Cookies

LEMMA AddTimerKeeps ==
  ASSUME NEW k \in Cookies, NEW t \in Timers
  PROVE  /\ AddTimer(k, t) \in Cookies /\ AddTimer(k, t).timer = k.timer \cup {t}
         /\ AddTimer(k, t).state = k.state /\ AddTimer(k, t).address = k.address
         /\ AddTimer(k, t).links = k.links /\ AddTimer(k, t).retry = k.retry
BY DEF AddTimer, Cookies

LEMMA StartRenewingKeeps ==
  ASSUME NEW k \in Cookies
  PROVE  /\ StartRenewing(k) \in Cookies /\ StartRenewing(k).timer = {"RENEW"}
         /\ StartRenewing(k).state = k.state /\ StartRenewing(k).address = k.address
         /\ StartRenewing(k).links = k.links /\ StartRenewing(k).retry = 0
<1>1. "RENEW" \in Timers
  BY DEF Timers
<1> QED
  BY <1>1, StopTimersKeeps, AddTimerKeeps DEF StartRenewing

LEMMA StartRebindingKeeps ==
  ASSUME NEW k \in Cookies
  PROVE  /\ StartRebinding(k) \in Cookies /\ StartRebinding(k).timer = {"REBIND"}
         /\ StartRebinding(k).state = k.state /\ StartRebinding(k).address = k.address
         /\ StartRebinding(k).links = k.links /\ StartRebinding(k).retry = 0
<1>1. "REBIND" \in Timers
  BY DEF Timers
<1> QED
  BY <1>1, StopTimersKeeps, AddTimerKeeps DEF StartRebinding

-----------------------------------------------------------------------------
(* The client's state machine                                              *)

LEMMA ClientInitSearches ==
  ASSUME NEW k \in Cookies, k.state = "INIT", k.timer \subseteq {"INIT"}, NEW ok \in BOOLEAN
  PROVE  Good(ClientInit(k, ok)) /\ ClientInit(k, ok).state = "INIT"
<1>1. "INIT" \in Timers /\ NoAddress \in Nat
  BY DEF Timers, NoAddress
<1>2. CASE ok
  <2> DEFINE opened == [k EXCEPT !.s = TRUE, !.links = @ \cup {NoAddress}]
             sent == SendMsg(opened, "DISCOVER")
             again == [sent EXCEPT !.retry = 0]
  <2>1. opened \in Cookies /\ opened.state = "INIT" /\ opened.timer = k.timer
    BY <1>1 DEF Cookies
  <2>2. sent \in Cookies /\ sent.state = "INIT" /\ sent.timer = k.timer
    BY <2>1, SendMsgKeeps
  <2>3. again \in Cookies /\ again.state = "INIT" /\ again.timer = k.timer
    <3> HIDE DEF sent
    <3> QED
      BY <2>2 DEF Cookies
  <2>4. ClientInit(k, ok) = AddTimer(again, "INIT")
    BY <1>2 DEF ClientInit
  <2> HIDE DEF again
  <2>5. ClientInit(k, ok).timer = {"INIT"}
    BY <1>1, <2>3, <2>4, AddTimerKeeps
  <2> QED
    BY <1>1, <2>3, <2>4, <2>5, AddTimerKeeps DEF Good, Shape, BoundStates
<1>3. CASE ~ok
  <2> DEFINE closed == [k EXCEPT !.s = FALSE, !.links = @ \cup {NoAddress}]
  <2>1. closed \in Cookies /\ closed.state = "INIT" /\ closed.timer = k.timer
    BY <1>1 DEF Cookies
  <2>2. ClientInit(k, ok) = AddTimer(closed, "INIT")
    BY <1>3 DEF ClientInit
  <2> HIDE DEF closed
  <2>3. ClientInit(k, ok).timer = {"INIT"}
    BY <1>1, <2>1, <2>2, AddTimerKeeps
  <2> QED
    BY <1>1, <2>1, <2>2, <2>3, AddTimerKeeps DEF Good, Shape, BoundStates
<1> QED
  BY <1>2, <1>3

LEMMA DelCookieEnds ==
  ASSUME NEW k \in Cookies
  PROVE  Good(DelCookie(k)) /\ DelCookie(k).state = "GONE"
BY DEF DelCookie, NoCookie, NoAddress, Good, Cookies, Shape, States, BoundStates

LEMMA ResetSearches ==
  ASSUME NEW k \in Cookies, NEW ok \in BOOLEAN
  PROVE  Good(Reset(k, ok)) /\ Reset(k, ok).state = "INIT"
<1> DEFINE address == IF k.state = "REQUESTING" THEN NoAddress ELSE k.address
           closed == [k EXCEPT !.s = FALSE, !.links = @ \ {address}, !.state = "INIT"]
<1>1. closed \in Cookies /\ closed.state = "INIT"
  <2> HIDE DEF address
  <2> QED
    BY DEF Cookies, States
<1>2. Reset(k, ok) = ClientInit(StopTimers(closed), ok)
  BY DEF Reset
<1> HIDE DEF closed
<1> QED
  BY <1>1, <1>2, StopTimersKeeps, ClientInitSearches

LEMMA ReinitSearchesOrEnds ==
  ASSUME NEW k \in Cookies, k.state = "INIT", k.timer \subseteq {"INIT"}, NEW ok \in BOOLEAN
  PROVE  Good(Reinit(k, ok)) /\ Reinit(k, ok).state \in {"INIT", "GONE"}
<1> DEFINE again == [k EXCEPT !.s = FALSE, !.retry = @ + 1]
<1>1. again \in Cookies /\ again.state = "INIT" /\ again.timer = k.timer
  <2> DEFINE n == k.retry + 1
  <2>1. n \in Nat
    BY DEF Cookies
  <2>2. again = [k EXCEPT !.s = FALSE, !.retry = n]
    OBVIOUS
  <2> HIDE DEF n, again
  <2> QED
    BY <2>1, <2>2 DEF Cookies
<1>2. Reinit(k, ok) = IF again.retry > Retries THEN DelCookie(again) ELSE ClientInit(again, ok)
  BY DEF Reinit
<1> HIDE DEF again
<1> QED
  BY <1>1, <1>2, DelCookieEnds, ClientInitSearches

LEMMA RecvOfferRequests ==
  ASSUME NEW k \in Cookies, k.state = "INIT", Shape(k), NEW m, m.yiaddr \in Nat
  PROVE  /\ Good(RecvOffer(k, m)) /\ RecvOffer(k, m).state = "REQUESTING"
         /\ RecvOffer(k, m).address = m.yiaddr
<1> DEFINE l == [k EXCEPT !.address = m.yiaddr, !.state = "REQUESTING", !.retry = 0]
<1>1. /\ l \in Cookies /\ l.state = "REQUESTING" /\ l.address = m.yiaddr
      /\ l.timer = {"INIT"}
  BY DEF Cookies, States, Shape
<1>2. RecvOffer(k, m) = AddTimer(SendMsg(l, "REQUEST"), "REQUEST")
  BY DEF RecvOffer
<1>3. "REQUEST" \in Timers
  BY DEF Timers
<1> HIDE DEF l
<1> QED
  BY <1>1, <1>2, <1>3, SendMsgKeeps, AddTimerKeeps DEF Good, Shape, BoundStates

LEMMA RecvAckBinds ==
  ASSUME NEW k \in Cookies, NEW m, m.yiaddr \in Nat
  PROVE  /\ Good(RecvAck(k, m)) /\ RecvAck(k, m).state = "BOUND"
         /\ RecvAck(k, m).address = IF k.state = "REQUESTING" THEN m.yiaddr ELSE k.address
<1> DEFINE address == IF k.state = "REQUESTING" THEN m.yiaddr ELSE k.address
           l == [k EXCEPT !.address = address, !.s = FALSE, !.links = {address},
                          !.state = "BOUND"]
<1>1. address \in Nat
  BY DEF Cookies
<1>2. /\ l \in Cookies /\ l.state = "BOUND" /\ l.address = address /\ l.links = {address}
  <2> HIDE DEF address
  <2> QED
    BY <1>1 DEF Cookies, States, BoundStates
<1>3. RecvAck(k, m) = [StopTimers(l) EXCEPT !.timer = Reacquisition]
  BY DEF RecvAck, StartReacquisition
<1> HIDE DEF l
<1> DEFINE p == StopTimers(l)
<1>4. p \in Cookies /\ p.state = "BOUND" /\ p.address = address /\ p.links = {address}
  BY <1>2, StopTimersKeeps
<1> HIDE DEF p, address
<1>5. /\ RecvAck(k, m) \in Cookies /\ RecvAck(k, m).state = "BOUND"
      /\ RecvAck(k, m).address = address /\ RecvAck(k, m).links = {address}
      /\ RecvAck(k, m).timer = Reacquisition
  BY <1>3, <1>4 DEF p, Cookies, Timers
<1> QED
  BY <1>5 DEF address, Good, Shape

\* A renewal may find no socket; then the other two timers are left.
LEMMA RenewRenews ==
  ASSUME NEW k \in Cookies, k.timer = {"T2", "LEASE"}, k.links = {k.address},
         NEW ok \in BOOLEAN
  PROVE  /\ Good(Renew(k, ok)) /\ Renew(k, ok).state = "RENEWING"
         /\ Renew(k, ok).address = k.address
<1>1. CASE ok
  <2> DEFINE l == [k EXCEPT !.state = "RENEWING", !.s = TRUE, !.retry = 0]
  <2>1. /\ l \in Cookies /\ l.state = "RENEWING" /\ l.address = k.address
        /\ l.links = k.links
    BY DEF Cookies, States, BoundStates
  <2>2. Renew(k, ok) = StartRenewing(SendMsg(l, "REQUEST"))
    BY <1>1 DEF Renew
  <2> HIDE DEF l
  <2> QED
    BY <2>1, <2>2, SendMsgKeeps, StartRenewingKeeps DEF Good, Shape
<1>2. CASE ~ok
  <2> DEFINE l == [k EXCEPT !.state = "RENEWING"]
  <2>1. /\ l \in Cookies /\ l.state = "RENEWING" /\ l.address = k.address
        /\ l.links = k.links /\ l.timer = k.timer
    BY DEF Cookies, States, BoundStates
  <2>2. Renew(k, ok) = l
    BY <1>2 DEF Renew
  <2> HIDE DEF l
  <2> QED
    BY <2>1, <2>2 DEF Good, Shape
<1> QED
  BY <1>1, <1>2

LEMMA RebindRebinds ==
  ASSUME NEW k \in Cookies, k.links = {k.address}
  PROVE  /\ Good(Rebind(k)) /\ Rebind(k).state = "REBINDING"
         /\ Rebind(k).address = k.address
<1> DEFINE l == [k EXCEPT !.state = "REBINDING", !.retry = 0]
<1>1. /\ l \in Cookies /\ l.state = "REBINDING" /\ l.address = k.address
      /\ l.links = k.links
  BY DEF Cookies, States, BoundStates
<1>2. Rebind(k) = StartRebinding(SendMsg(l, "REQUEST"))
  BY DEF Rebind
<1> HIDE DEF l
<1> QED
  BY <1>1, <1>2, SendMsgKeeps, StartRebindingKeeps DEF Good, Shape

\* What is left of the timers when one of them has expired does not matter.
LEMMA RetransmitKeeps ==
  ASSUME NEW k \in Cookies,
         \/ k.state = "REQUESTING" /\ k.timer \subseteq {"INIT"}
         \/ k.state \in {"RENEWING", "REBINDING"} /\ k.links = {k.address}
  PROVE  /\ Good(Retransmit(k)) /\ Retransmit(k).state = k.state
         /\ Retransmit(k).address = k.address
<1>1. CASE k.state = "REQUESTING"
  <2>1. Retransmit(k) = AddTimer(SendMsg(k, "REQUEST"), "REQUEST")
    BY <1>1 DEF Retransmit
  <2>2. "REQUEST" \in Timers
    BY DEF Timers
  <2> QED
    BY <1>1, <2>1, <2>2, SendMsgKeeps, AddTimerKeeps DEF Good, Shape, BoundStates
<1>2. CASE k.state = "RENEWING"
  <2>1. Retransmit(k) = StartRenewing(SendMsg(k, "REQUEST"))
    BY <1>2 DEF Retransmit
  <2> QED
    BY <1>2, <2>1, SendMsgKeeps, StartRenewingKeeps DEF Good, Shape
<1>3. CASE k.state = "REBINDING"
  <2>1. Retransmit(k) = StartRebinding(SendMsg(k, "DISCOVER"))
    BY <1>3 DEF Retransmit
  <2> QED
    BY <1>3, <2>1, SendMsgKeeps, StartRebindingKeeps DEF Good, Shape
<1> QED
  BY <1>1, <1>2, <1>3

Leased == {"REQUESTING"} \cup BoundStates

\* A timer that expires keeps the address, or the client searches or ends.
LEMMA FireKeeps ==
  ASSUME NEW k, Good(k), NEW t \in k.timer, NEW ok \in BOOLEAN,
         t = "T2" => "T1" \notin k.timer, t = "LEASE" => "T2" \notin k.timer
  PROVE  /\ Good(Fire(k, t, ok))
         /\ \/ Fire(k, t, ok).state \in {"INIT", "GONE"}
            \/ /\ k.state \in Leased /\ Fire(k, t, ok).state \in Leased
               /\ Fire(k, t, ok).address = k.address
<1> DEFINE o == [k EXCEPT !.timer = @ \ {t}]
           counted == [o EXCEPT !.retry = @ + 1]
<1>1. /\ o \in Cookies /\ o.state = k.state /\ o.timer = k.timer \ {t}
      /\ o.address = k.address /\ o.links = k.links
  BY DEF Good, Cookies
<1>2. /\ counted \in Cookies /\ counted.state = k.state /\ counted.timer = k.timer \ {t}
      /\ counted.address = k.address /\ counted.links = k.links
  <2> DEFINE n == o.retry + 1
  <2>1. n \in Nat
    BY <1>1 DEF Cookies
  <2>2. counted = [o EXCEPT !.retry = n]
    OBVIOUS
  <2> HIDE DEF n, counted, o
  <2> QED
    BY <1>1, <2>1, <2>2 DEF Cookies
<1>3. Fire(k, t, ok) =
        CASE t = "INIT" -> IF k.state = "INIT" THEN Reinit(o, ok) ELSE o
          [] t = "REQUEST" -> IF counted.retry > Retries THEN Reset(counted, ok)
                              ELSE Retransmit(counted)
          [] t \in {"RENEW", "REBIND"} -> Retransmit(counted)
          [] t = "T1" -> IF k.state = "BOUND" THEN Renew(o, ok) ELSE o
          [] t = "T2" -> IF k.state = "RENEWING" THEN Rebind(o) ELSE o
          [] t = "LEASE" -> IF k.state = "REBINDING" THEN Reset(o, ok) ELSE o
  BY DEF Fire
<1> HIDE DEF o, counted
<1>4. k \in Cookies /\ Shape(k) /\ k.state \in States
  BY DEF Good, Cookies
<1>5. CASE k.state = "INIT"
  <2>1. t = "INIT" /\ Fire(k, t, ok) = Reinit(o, ok)
    BY <1>3, <1>4, <1>5 DEF Shape
  <2>2. o.timer \subseteq {"INIT"}
    BY <1>1, <1>4, <1>5 DEF Shape
  <2> QED
    BY <1>1, <1>5, <2>1, <2>2, ReinitSearchesOrEnds
<1>6. CASE k.state = "REQUESTING"
  <2>1. CASE t = "INIT"
    <3>1. Fire(k, t, ok) = o
      BY <1>3, <1>6, <2>1
    <3>2. "REQUEST" \in o.timer /\ o.timer \subseteq {"INIT", "REQUEST"}
      BY <1>1, <1>4, <1>6, <2>1 DEF Shape
    <3> QED
      BY <1>1, <1>6, <3>1, <3>2 DEF Good, Shape, Leased, BoundStates
  <2>2. CASE t = "REQUEST"
    <3>1. Fire(k, t, ok) = Reset(counted, ok) \/ Fire(k, t, ok) = Retransmit(counted)
      BY <1>3, <2>2
    <3>2. counted.timer \subseteq {"INIT"}
      BY <1>2, <1>4, <1>6, <2>2 DEF Shape
    <3> QED
      BY <1>2, <1>6, <3>1, <3>2, ResetSearches, RetransmitKeeps DEF Leased
  <2> QED
    BY <1>4, <1>6, <2>1, <2>2 DEF Shape
<1>7. CASE k.state = "BOUND"
  <2>1. t = "T1"
    BY <1>4, <1>7 DEF Shape, Reacquisition
  <2>2. Fire(k, t, ok) = Renew(o, ok)
    BY <1>3, <1>7, <2>1
  <2>3. o.timer = {"T2", "LEASE"} /\ o.links = {o.address}
    BY <1>1, <1>4, <1>7, <2>1 DEF Shape, Reacquisition, BoundStates
  <2> QED
    BY <1>1, <1>7, <2>2, <2>3, RenewRenews DEF Leased, BoundStates
<1>8. CASE k.state = "RENEWING"
  <2>1. o.links = {o.address} /\ counted.links = {counted.address}
    BY <1>1, <1>2, <1>4, <1>8 DEF Shape, BoundStates
  <2>2. t = "RENEW" \/ t = "T2"
    BY <1>4, <1>8 DEF Shape
  <2>3. CASE t = "RENEW"
    <3>1. Fire(k, t, ok) = Retransmit(counted)
      BY <1>3, <2>3
    <3> QED
      BY <1>2, <1>8, <2>1, <3>1, RetransmitKeeps DEF Leased, BoundStates
  <2>4. CASE t = "T2"
    <3>1. Fire(k, t, ok) = Rebind(o)
      BY <1>3, <1>8, <2>4
    <3> QED
      BY <1>1, <1>8, <2>1, <3>1, RebindRebinds DEF Leased, BoundStates
  <2> QED
    BY <2>2, <2>3, <2>4
<1>9. CASE k.state = "REBINDING"
  <2>1. counted.links = {counted.address}
    BY <1>2, <1>4, <1>9 DEF Shape, BoundStates
  <2>2. Fire(k, t, ok) = Retransmit(counted)
    BY <1>3, <1>4, <1>9 DEF Shape
  <2> QED
    BY <1>2, <1>9, <2>1, <2>2, RetransmitKeeps DEF Leased, BoundStates
<1> QED
  BY <1>4, <1>5, <1>6, <1>7, <1>8, <1>9 DEF Shape, States, BoundStates

-----------------------------------------------------------------------------
(* The server                                                              *)

Replies == [type : {"OFFER", "ACK"}, xid : Clients, yiaddr : Nat]

Sides == [state : [Clients -> {"NONE", "DISCOVER", "OFFER", "BOUND"}],
            ciaddr : [Clients -> Nat], arp : [Hosts -> Nat],
            pool_next : Nat \ {0}, sent : SUBSET Replies]

\* Each address was given to one host, and what was sent to a client is what
\* its negotiation holds.
Allocated(v) ==
  /\ \A c \in Clients : v.state[c] # "NONE" =>
       /\ v.ciaddr[c] \in Nat \ {0} /\ v.ciaddr[c] < v.pool_next
       /\ \A d \in Clients : v.state[d] # "NONE" /\ v.ciaddr[c] = v.ciaddr[d]
                               => HostOf[c] = HostOf[d]
       /\ \A h \in Hosts : v.arp[h] = v.ciaddr[c] => h = HostOf[c]
  /\ \A h, g \in Hosts : v.arp[h] # NoAddress /\ v.arp[h] = v.arp[g] => h = g
  /\ \A h \in Hosts : v.arp[h] < v.pool_next
  /\ \A m \in v.sent : v.state[m.xid] # "NONE" /\ m.yiaddr = v.ciaddr[m.xid]

LEMMA AddNegotiationAllocates ==
  ASSUME NEW v \in Sides, Allocated(v), NEW c \in Clients, v.state[c] = "NONE"
  PROVE  LET w == AddNegotiation(v, c)
         IN /\ w \in Sides /\ Allocated(w) /\ w.state[c] # "NONE"
            /\ \A d \in Clients \ {c} : w.state[d] = v.state[d] /\ w.ciaddr[d] = v.ciaddr[d]
<1> DEFINE w == AddNegotiation(v, c)
           h == HostOf[c]
<1>1. h \in Hosts
  BY DEF Hosts
<1>2. \A m \in v.sent : m.xid \in Clients /\ m.xid # c
  BY DEF Sides, Replies, Allocated
<1>3. CASE v.arp[h] # NoAddress
  <2>1. w = [v EXCEPT !.state[c] = "DISCOVER", !.ciaddr[c] = v.arp[h]]
    BY <1>3 DEF AddNegotiation
  <2>2. /\ w.state = [v.state EXCEPT ![c] = "DISCOVER"]
        /\ w.ciaddr = [v.ciaddr EXCEPT ![c] = v.arp[h]]
        /\ w.arp = v.arp /\ w.pool_next = v.pool_next /\ w.sent = v.sent
        /\ w \in Sides
    <3> DEFINE a == [v.state EXCEPT ![c] = "DISCOVER"]
               b == [v.ciaddr EXCEPT ![c] = v.arp[h]]
    <3>1. /\ a \in [Clients -> {"NONE", "DISCOVER", "OFFER", "BOUND"}]
          /\ b \in [Clients -> Nat]
      BY <1>1 DEF Sides
    <3>2. w = [v EXCEPT !.state = a, !.ciaddr = b]
      BY <2>1
    <3> HIDE DEF a, b, w, h
    <3>3. /\ w.state = a /\ w.ciaddr = b /\ w.arp = v.arp
          /\ w.pool_next = v.pool_next /\ w.sent = v.sent /\ w \in Sides
      BY <3>1, <3>2 DEF Sides
    <3> QED
      BY <3>3 DEF a, b
  <2> HIDE DEF w
  <2>3. \A d \in Clients :
          /\ w.state[d] = IF d = c THEN "DISCOVER" ELSE v.state[d]
          /\ w.ciaddr[d] = IF d = c THEN v.arp[h] ELSE v.ciaddr[d]
    BY <2>2 DEF Sides
  <2>4. v.arp[h] \in Nat \ {0} /\ v.arp[h] < v.pool_next
    BY <1>1, <1>3 DEF Sides, Allocated, NoAddress
  <2>5. Allocated(w)
    BY <1>1, <1>2, <1>3, <2>2, <2>3, <2>4 DEF Allocated
  <2> QED
    BY <2>2, <2>3, <2>5 DEF w
<1>4. CASE v.arp[h] = NoAddress
  <2>1. w = [v EXCEPT !.state[c] = "DISCOVER", !.ciaddr[c] = v.pool_next,
                      !.arp[h] = v.pool_next, !.pool_next = @ + 1]
    BY <1>4 DEF AddNegotiation
  <2>2. /\ w.state = [v.state EXCEPT ![c] = "DISCOVER"]
        /\ w.ciaddr = [v.ciaddr EXCEPT ![c] = v.pool_next]
        /\ w.arp = [v.arp EXCEPT ![h] = v.pool_next]
        /\ w.pool_next = v.pool_next + 1 /\ w.sent = v.sent
        /\ w \in Sides
    <3> DEFINE a == [v.state EXCEPT ![c] = "DISCOVER"]
               b == [v.ciaddr EXCEPT ![c] = v.pool_next]
               r == [v.arp EXCEPT ![h] = v.pool_next]
               n == v.pool_next + 1
    <3>1. /\ a \in [Clients -> {"NONE", "DISCOVER", "OFFER", "BOUND"}]
          /\ b \in [Clients -> Nat] /\ r \in [Hosts -> Nat]
      BY <1>1 DEF Sides
    <3>2. n \in Nat \ {0}
      BY DEF Sides
    <3>3. w = [v EXCEPT !.state = a, !.ciaddr = b, !.arp = r, !.pool_next = n]
      BY <2>1
    <3> HIDE DEF a, b, r, n, w, h
    <3>4. /\ w.state = a /\ w.ciaddr = b /\ w.arp = r
          /\ w.pool_next = n /\ w.sent = v.sent /\ w \in Sides
      BY <3>1, <3>2, <3>3 DEF Sides
    <3> QED
      BY <3>4 DEF a, b, r, n
  <2> HIDE DEF w
  <2>3. \A d \in Clients :
          /\ w.state[d] = IF d = c THEN "DISCOVER" ELSE v.state[d]
          /\ w.ciaddr[d] = IF d = c THEN v.pool_next ELSE v.ciaddr[d]
    BY <2>2 DEF Sides
  <2>4. \A g \in Hosts : w.arp[g] = IF g = h THEN v.pool_next ELSE v.arp[g]
    BY <2>2 DEF Sides
  <2>5. v.pool_next \in Nat \ {0}
    BY DEF Sides
  <2>6. \A g \in Hosts : v.arp[g] \in Nat
    BY DEF Sides
  <2>7. \A d \in Clients : v.ciaddr[d] \in Nat
    BY DEF Sides
  <2>8. Allocated(w)
    <3>1. ASSUME NEW d \in Clients, w.state[d] # "NONE"
          PROVE  /\ w.ciaddr[d] \in Nat \ {0} /\ w.ciaddr[d] < w.pool_next
                 /\ \A e \in Clients : w.state[e] # "NONE" /\ w.ciaddr[d] = w.ciaddr[e]
                                         => HostOf[d] = HostOf[e]
                 /\ \A g \in Hosts : w.arp[g] = w.ciaddr[d] => g = HostOf[d]
      BY <2>2, <2>3, <2>4, <2>5, <2>6, <2>7, <3>1 DEF Allocated
    <3>2. ASSUME NEW f \in Hosts, NEW g \in Hosts, w.arp[f] # NoAddress, w.arp[f] = w.arp[g]
          PROVE  f = g
      BY <2>4, <2>5, <2>6, <3>2 DEF Allocated
    <3>3. \A g \in Hosts : w.arp[g] < w.pool_next
      BY <2>2, <2>4, <2>5, <2>6 DEF Allocated
    <3>4. \A m \in w.sent : w.state[m.xid] # "NONE" /\ m.yiaddr = w.ciaddr[m.xid]
      BY <1>2, <2>2, <2>3 DEF Allocated
    <3> QED
      BY <3>1, <3>2, <3>3, <3>4 DEF Allocated
  <2> QED
    BY <2>2, <2>3, <2>8 DEF w
<1> QED
  BY <1>3, <1>4

\* What a reply changes is the state of its negotiation and what was sent.
Replied(v, w, c, st, type) ==
  w = [v EXCEPT !.state[c] = st,
                !.sent = @ \cup {[type |-> type, xid |-> c, yiaddr |-> v.ciaddr[c]]}]

LEMMA MakeReplyKeeps ==
  ASSUME NEW v \in Sides, Allocated(v), NEW c \in Clients, v.state[c] # "NONE",
         NEW st \in {"OFFER", "BOUND"}, NEW type \in {"OFFER", "ACK"},
         NEW w, Replied(v, w, c, st, type)
  PROVE  /\ w \in Sides /\ Allocated(w) /\ w.ciaddr = v.ciaddr
         /\ \A d \in Clients : w.state[d] # "NONE" <=> v.state[d] # "NONE"
<1> DEFINE a == [v.state EXCEPT ![c] = st]
           m == [type |-> type, xid |-> c, yiaddr |-> v.ciaddr[c]]
           sent == v.sent \cup {m}
<1>1. a \in [Clients -> {"NONE", "DISCOVER", "OFFER", "BOUND"}]
  BY DEF Sides
<1>2. m \in Replies /\ m.xid = c /\ m.yiaddr = v.ciaddr[c]
  BY DEF Sides, Replies
<1>3. sent \in SUBSET Replies
  BY <1>2 DEF Sides
<1>4. w = [v EXCEPT !.state = a, !.sent = sent]
  BY DEF Replied
<1>5. \A d \in Clients : a[d] = IF d = c THEN st ELSE v.state[d]
  BY DEF Sides
<1>6. \A n \in sent : n.xid \in Clients /\ v.state[n.xid] # "NONE" /\ n.yiaddr = v.ciaddr[n.xid]
  BY <1>2 DEF Allocated, Sides, Replies
<1> HIDE DEF a, sent
<1>7. /\ w.state = a /\ w.ciaddr = v.ciaddr /\ w.arp = v.arp
      /\ w.pool_next = v.pool_next /\ w.sent = sent /\ w \in Sides
  BY <1>1, <1>3, <1>4 DEF Sides
<1>8. \A d \in Clients : w.state[d] # "NONE" <=> v.state[d] # "NONE"
  BY <1>5, <1>7
<1>9. Allocated(w)
  BY <1>6, <1>7, <1>8 DEF Allocated
<1> QED
  BY <1>7, <1>8, <1>9

-----------------------------------------------------------------------------
(* The clients and the server                                              *)

\* A client's address is that of its negotiation, and only one cookie of a
\* host is in use.
Agreed == \A c \in Clients :
  /\ cookie[c].state \in Leased =>
       server.state[c] # "NONE" /\ cookie[c].address = server.ciaddr[c]
  /\ \A d \in Clients : c # d /\ HostOf[c] = HostOf[d] =>
       cookie[c].state \in {"NONE", "GONE"} \/ cookie[d].state \in {"NONE", "GONE"}

CookiesGood == cookie \in [Clients -> Cookies] /\ \A c \in Clients : Good(cookie[c])

IInv == CookiesGood /\ server \in Sides /\ Allocated(server) /\ Agreed

LEMMA InitHolds ==
  ASSUME Init
  PROVE  IInv
<1>1. CookiesGood
  BY NoCookieIsGood DEF Init, CookiesGood, Good
<1>2. server \in Sides
  BY DEF Init, Sides, NoAddress
<1>3. Allocated(server)
  BY DEF Init, Allocated, NoAddress
<1>4. Agreed
  BY DEF Init, Agreed, NoCookie, Leased, BoundStates
<1> QED
  BY <1>1, <1>2, <1>3, <1>4 DEF IInv

\* A client takes a step that is no start.
LEMMA ClientKeeps ==
  ASSUME IInv, NEW c \in Clients, NEW l, Good(l), cookie' = [cookie EXCEPT ![c] = l],
         UNCHANGED server,
         cookie[c].state \notin {"NONE", "GONE"} \/ l.state \in {"NONE", "GONE"},
         l.state \in Leased => server.state[c] # "NONE" /\ l.address = server.ciaddr[c]
  PROVE  IInv'
<1>1. \A d \in Clients : cookie'[d] = IF d = c THEN l ELSE cookie[d]
  BY DEF IInv, CookiesGood
<1>2. CookiesGood'
  BY <1>1 DEF IInv, CookiesGood, Good
<1>3. Agreed'
  BY <1>1 DEF IInv, Agreed
<1> QED
  BY <1>2, <1>3 DEF IInv

LEMMA InitiateStep ==
  ASSUME IInv, NEW c \in Clients, Initiate(c)
  PROVE  IInv'
<1> DEFINE k == [cookie[c] EXCEPT !.state = "INIT"]
<1>1. PICK ok \in Outcomes(c) : cookie' = [cookie EXCEPT ![c] = ClientInit(k, ok)]
  BY DEF Initiate
<1>2. ok \in BOOLEAN
  BY DEF Outcomes
<1>3. k \in Cookies /\ k.state = "INIT" /\ k.timer = {}
  BY DEF Initiate, IInv, CookiesGood, Good, Shape, Cookies, States
<1> HIDE DEF k
<1> DEFINE l == ClientInit(k, ok)
<1>4. Good(l) /\ l.state = "INIT"
  BY <1>2, <1>3, ClientInitSearches
<1> HIDE DEF l
<1>5. \A d \in Clients : cookie'[d] = IF d = c THEN l ELSE cookie[d]
  BY <1>1 DEF l, IInv, CookiesGood
<1>6. CookiesGood'
  BY <1>1, <1>4, <1>5 DEF l, IInv, CookiesGood, Good
<1>7. \A d \in Clients \ {c} : HostOf[d] = HostOf[c] => cookie[d].state \in {"NONE", "GONE"}
  BY DEF Initiate
<1>8. UNCHANGED server
  BY DEF Initiate
<1>9. Agreed'
  BY <1>4, <1>5, <1>7, <1>8 DEF IInv, Agreed, Leased, BoundStates
<1> QED
  BY <1>6, <1>8, <1>9 DEF IInv

LEMMA AbortStep ==
  ASSUME IInv, NEW c \in Clients, Abort(c)
  PROVE  IInv'
<1> DEFINE l == DelCookie(cookie[c])
<1>1. Good(l) /\ l.state = "GONE"
  BY DelCookieEnds DEF IInv, CookiesGood
<1>2. cookie' = [cookie EXCEPT ![c] = l] /\ UNCHANGED server
  BY DEF Abort
<1> HIDE DEF l
<1> QED
  BY <1>1, <1>2, ClientKeeps DEF Leased, BoundStates

LEMMA ReceiveStep ==
  ASSUME IInv, NEW c \in Clients, Receive(c)
  PROVE  IInv'
<1> DEFINE k == cookie[c]
<1>1. k \in Cookies /\ Shape(k) /\ UNCHANGED server
  BY DEF Receive, IInv, CookiesGood, Good
<1>2. \A m \in server.sent : m.xid = c =>
        server.state[c] # "NONE" /\ m.yiaddr = server.ciaddr[c] /\ m.yiaddr \in Nat
  BY DEF IInv, Allocated, Sides
<1>3. ASSUME NEW m \in server.sent, m.xid = c, k.state = "INIT",
             cookie' = [cookie EXCEPT ![c] = RecvOffer(k, m)]
      PROVE  IInv'
  <2> DEFINE l == RecvOffer(k, m)
  <2>1. Good(l) /\ l.address = m.yiaddr
    BY <1>1, <1>2, <1>3, RecvOfferRequests
  <2>2. cookie' = [cookie EXCEPT ![c] = l]
    BY <1>3
  <2> HIDE DEF l
  <2> QED
    BY <1>1, <1>2, <1>3, <2>1, <2>2, ClientKeeps
<1>4. ASSUME NEW m \in server.sent, m.xid = c,
             k.state \in {"REQUESTING", "RENEWING", "REBINDING"},
             cookie' = [cookie EXCEPT ![c] = RecvAck(k, m)]
      PROVE  IInv'
  <2> DEFINE l == RecvAck(k, m)
  <2>1. Good(l) /\ l.address = IF k.state = "REQUESTING" THEN m.yiaddr ELSE k.address
    BY <1>1, <1>2, <1>4, RecvAckBinds
  <2>2. cookie' = [cookie EXCEPT ![c] = l]
    BY <1>4
  <2>3. k.address = server.ciaddr[c]
    BY <1>4 DEF IInv, Agreed, Leased, BoundStates
  <2> HIDE DEF l
  <2> QED
    BY <1>1, <1>2, <1>4, <2>1, <2>2, <2>3, ClientKeeps
<1>5. ASSUME NEW ok \in Outcomes(c), k.state \in {"REQUESTING", "RENEWING", "REBINDING"},
             cookie' = [cookie EXCEPT ![c] = Reset(k, ok)]
      PROVE  IInv'
  <2> DEFINE l == Reset(k, ok)
  <2>1. ok \in BOOLEAN
    BY DEF Outcomes
  <2>2. Good(l) /\ l.state = "INIT"
    BY <1>1, <2>1, ResetSearches
  <2>3. cookie' = [cookie EXCEPT ![c] = l]
    BY <1>5
  <2> HIDE DEF l
  <2> QED
    BY <1>1, <1>5, <2>2, <2>3, ClientKeeps DEF Leased, BoundStates
<1> QED
  BY <1>3, <1>4, <1>5 DEF Receive

LEMMA TimerStep ==
  ASSUME IInv, NEW c \in Clients, TimerFires(c)
  PROVE  IInv'
<1> DEFINE k == cookie[c]
<1>1. PICK t \in k.timer, ok \in Outcomes(c) :
        /\ t = "T2" => "T1" \notin k.timer
        /\ t = "LEASE" => "T2" \notin k.timer
        /\ cookie' = [cookie EXCEPT ![c] = Fire(k, t, ok)] /\ UNCHANGED server
  BY DEF TimerFires
<1>2. Good(k) /\ ok \in BOOLEAN
  BY DEF IInv, CookiesGood, Outcomes
<1> DEFINE l == Fire(k, t, ok)
<1>3. /\ Good(l)
      /\ \/ l.state \in {"INIT", "GONE"}
         \/ k.state \in Leased /\ l.state \in Leased /\ l.address = k.address
  BY <1>1, <1>2, FireKeeps
<1>4. k.state \notin {"NONE", "GONE"}
  BY <1>1, <1>2 DEF Good, Shape
<1>5. cookie' = [cookie EXCEPT ![c] = l] /\ UNCHANGED server
  BY <1>1
<1> HIDE DEF l
<1>6. l.state \in Leased => server.state[c] # "NONE" /\ l.address = server.ciaddr[c]
  BY <1>3 DEF IInv, Agreed, Leased, BoundStates
<1> QED
  BY <1>3, <1>4, <1>5, <1>6, ClientKeeps

\* The server takes a step: no negotiation is forgotten or gets another address.
LEMMA ServerKeeps ==
  ASSUME IInv, UNCHANGED cookie, server' \in Sides, Allocated(server'),
         \A d \in Clients : server.state[d] # "NONE" =>
           server'.state[d] # "NONE" /\ server'.ciaddr[d] = server.ciaddr[d]
  PROVE  IInv'
BY DEF IInv, CookiesGood, Agreed

LEMMA ServerRecvStep ==
  ASSUME IInv, NEW c \in Clients, ServerRecv(c)
  PROVE  IInv'
<1> DEFINE v == IF server.state[c] = "NONE" THEN AddNegotiation(server, c) ELSE server
<1>1. PICK m \in cookie[c].sent :
        /\ server' = IF v.ciaddr[c] \notin 1..PoolEnd THEN v
                     ELSE IF m.type = "DISCOVER"
                     THEN [MakeReply(v, c, "OFFER") EXCEPT !.state[c] = "OFFER"]
                     ELSE ReplyToRequest(v, c, m)
        /\ UNCHANGED cookie
  BY DEF ServerRecv
<1>2. /\ v \in Sides /\ Allocated(v) /\ v.state[c] # "NONE"
      /\ \A d \in Clients : server.state[d] # "NONE" =>
           v.state[d] # "NONE" /\ v.ciaddr[d] = server.ciaddr[d]
  BY AddNegotiationAllocates DEF IInv
<1> HIDE DEF v
<1>3. CASE server' = v
  BY <1>1, <1>2, <1>3, ServerKeeps
<1>4. ASSUME NEW st \in {"OFFER", "BOUND"}, NEW type \in {"OFFER", "ACK"},
             Replied(v, server', c, st, type)
      PROVE  IInv'
  <2>1. /\ server' \in Sides /\ Allocated(server') /\ server'.ciaddr = v.ciaddr
        /\ \A d \in Clients : server'.state[d] # "NONE" <=> v.state[d] # "NONE"
    BY <1>2, <1>4, MakeReplyKeeps
  <2> QED
    BY <1>1, <1>2, <2>1, ServerKeeps
<1>5. v.state \in [Clients -> {"NONE", "DISCOVER", "OFFER", "BOUND"}]
  BY <1>2 DEF Sides
<1>6. CASE server' = [MakeReply(v, c, "OFFER") EXCEPT !.state[c] = "OFFER"]
  <2>1. Replied(v, server', c, "OFFER", "OFFER")
    BY <1>2, <1>6 DEF MakeReply, Replied, Sides
  <2> QED
    BY <1>4, <2>1
<1>7. CASE server' = MakeReply(v, c, "ACK") /\ v.state[c] = "BOUND"
  <2>1. Replied(v, server', c, "BOUND", "ACK")
    BY <1>2, <1>5, <1>7 DEF MakeReply, Replied, Sides
  <2> QED
    BY <1>4, <2>1
<1>8. CASE server' = MakeReply([v EXCEPT !.state[c] = "BOUND"], c, "ACK")
  <2>1. Replied(v, server', c, "BOUND", "ACK")
    BY <1>2, <1>8 DEF MakeReply, Replied, Sides
  <2> QED
    BY <1>4, <2>1
<1> QED
  BY <1>1, <1>3, <1>6, <1>7, <1>8 DEF ReplyToRequest

LEMMA ArpStep ==
  ASSUME IInv, ArpExpires
  PROVE  IInv'
<1>1. PICK h \in Hosts : server' = [server EXCEPT !.arp[h] = NoAddress] /\ UNCHANGED cookie
  BY DEF ArpExpires
<1>2. server \in Sides /\ Allocated(server)
  BY DEF IInv
<1>3. /\ server'.state = server.state /\ server'.ciaddr = server.ciaddr
      /\ server'.arp = [server.arp EXCEPT ![h] = NoAddress]
      /\ server'.pool_next = server.pool_next /\ server'.sent = server.sent
      /\ server' \in Sides
  BY <1>1, <1>2 DEF Sides, NoAddress
<1>4. \A g \in Hosts : server'.arp[g] = IF g = h THEN 0 ELSE server.arp[g]
  BY <1>2, <1>3 DEF Sides, NoAddress
<1>5. server.pool_next \in Nat \ {0}
  BY <1>2 DEF Sides
<1>6. Allocated(server')
  BY <1>2, <1>3, <1>4, <1>5 DEF Allocated, NoAddress
<1> QED
  BY <1>1, <1>3, <1>6, ServerKeeps

LEMMA InvariantStep ==
  ASSUME IInv, Next \/ UNCHANGED vars
  PROVE  IInv'
<1>1. CASE UNCHANGED vars
  BY <1>1 DEF vars, IInv, CookiesGood, Agreed
<1> QED
  BY <1>1, InitiateStep, AbortStep, ReceiveStep, TimerStep, ServerRecvStep, ArpStep
  DEF Next

-----------------------------------------------------------------------------
(* The bounds of the retries and of the pool                               *)

\* The retries are counted, and but for a lease no address is put on the device.
Steady(k, l) == /\ l.retry \in 0 .. Retries
                /\ l.state \notin BoundStates => l.links \subseteq k.links \cup {NoAddress}

LEMMA ClientInitSteady ==
  ASSUME NEW k \in Cookies, k.retry \in 0 .. Retries, NEW ok \in BOOLEAN
  PROVE  /\ ClientInit(k, ok).retry \in {0, k.retry}
         /\ ClientInit(k, ok).links = k.links \cup {NoAddress}
<1>1. "INIT" \in Timers /\ NoAddress \in Nat
  BY DEF Timers, NoAddress
<1>2. CASE ok
  <2> DEFINE opened == [k EXCEPT !.s = TRUE, !.links = @ \cup {NoAddress}]
             sent == SendMsg(opened, "DISCOVER")
             again == [sent EXCEPT !.retry = 0]
  <2>1. opened \in Cookies /\ opened.links = k.links \cup {NoAddress}
    BY <1>1 DEF Cookies
  <2>2. sent \in Cookies /\ sent.links = k.links \cup {NoAddress}
    BY <2>1, SendMsgKeeps
  <2>3. again \in Cookies /\ again.links = k.links \cup {NoAddress} /\ again.retry = 0
    <3> HIDE DEF sent
    <3> QED
      BY <2>2 DEF Cookies
  <2>4. ClientInit(k, ok) = AddTimer(again, "INIT")
    BY <1>2 DEF ClientInit
  <2> HIDE DEF again
  <2> QED
    BY <1>1, <2>3, <2>4, AddTimerKeeps
<1>3. CASE ~ok
  <2> DEFINE closed == [k EXCEPT !.s = FALSE, !.links = @ \cup {NoAddress}]
  <2>1. closed \in Cookies /\ closed.links = k.links \cup {NoAddress} /\ closed.retry = k.retry
    BY <1>1 DEF Cookies
  <2>2. ClientInit(k, ok) = AddTimer(closed, "INIT")
    BY <1>3 DEF ClientInit
  <2> HIDE DEF closed
  <2> QED
    BY <1>1, <2>1, <2>2, AddTimerKeeps
<1> QED
  BY <1>2, <1>3

LEMMA DelCookieSteady ==
  ASSUME Retries \in Nat, NEW k
  PROVE  Steady(k, DelCookie(k))
BY DEF DelCookie, NoCookie, Steady

LEMMA ResetSteady ==
  ASSUME Retries \in Nat, NEW k \in Cookies, NEW ok \in BOOLEAN
  PROVE  Steady(k, Reset(k, ok))
<1> DEFINE address == IF k.state = "REQUESTING" THEN NoAddress ELSE k.address
           closed == [k EXCEPT !.s = FALSE, !.links = @ \ {address}, !.state = "INIT"]
           stopped == StopTimers(closed)
<1>1. closed \in Cookies /\ closed.links \subseteq k.links
  <2> HIDE DEF address
  <2> QED
    BY DEF Cookies, States
<1>2. Reset(k, ok) = ClientInit(stopped, ok)
  BY DEF Reset
<1> HIDE DEF closed
<1>3. stopped \in Cookies /\ stopped.links \subseteq k.links /\ stopped.retry = 0
  BY <1>1, StopTimersKeeps
<1> HIDE DEF stopped
<1>4. /\ ClientInit(stopped, ok).retry = 0
      /\ ClientInit(stopped, ok).links = stopped.links \cup {NoAddress}
  BY <1>3, ClientInitSteady
<1> QED
  BY <1>2, <1>3, <1>4 DEF Steady

LEMMA ReinitSteady ==
  ASSUME Retries \in Nat, NEW k \in Cookies, k.retry \in 0 .. Retries, NEW ok \in BOOLEAN
  PROVE  Steady(k, Reinit(k, ok))
<1> DEFINE again == [k EXCEPT !.s = FALSE, !.retry = @ + 1]
<1>1. again \in Cookies /\ again.retry = k.retry + 1 /\ again.links = k.links
  <2> DEFINE n == k.retry + 1
  <2>1. n \in Nat
    OBVIOUS
  <2>2. again = [k EXCEPT !.s = FALSE, !.retry = n]
    OBVIOUS
  <2> HIDE DEF n, again
  <2>3. again \in Cookies /\ again.retry = n /\ again.links = k.links
    BY <2>1, <2>2 DEF Cookies
  <2> QED
    BY <2>3 DEF n
<1>2. Reinit(k, ok) = IF again.retry > Retries THEN DelCookie(again) ELSE ClientInit(again, ok)
  BY DEF Reinit
<1> HIDE DEF again
<1>3. CASE again.retry > Retries
  <2>1. Steady(again, DelCookie(again))
    BY DelCookieSteady
  <2> QED
    BY <1>1, <1>2, <1>3, <2>1 DEF Steady
<1>4. CASE ~(again.retry > Retries)
  <2>1. again.retry \in 0 .. Retries
    BY <1>1, <1>4
  <2>2. /\ ClientInit(again, ok).retry \in {0, again.retry}
        /\ ClientInit(again, ok).links = again.links \cup {NoAddress}
    BY <1>1, <2>1, ClientInitSteady
  <2> QED
    BY <1>1, <1>2, <1>4, <2>1, <2>2 DEF Steady
<1> QED
  BY <1>3, <1>4

LEMMA RecvOfferSteady ==
  ASSUME Retries \in Nat, NEW k \in Cookies, NEW m, m.yiaddr \in Nat
  PROVE  Steady(k, RecvOffer(k, m))
<1> DEFINE l == [k EXCEPT !.address = m.yiaddr, !.state = "REQUESTING", !.retry = 0]
<1>1. l \in Cookies /\ l.retry = 0 /\ l.links = k.links
  BY DEF Cookies, States
<1>2. RecvOffer(k, m) = AddTimer(SendMsg(l, "REQUEST"), "REQUEST")
  BY DEF RecvOffer
<1>3. "REQUEST" \in Timers
  BY DEF Timers
<1> HIDE DEF l
<1>4. RecvOffer(k, m).retry = 0 /\ RecvOffer(k, m).links = k.links
  BY <1>1, <1>2, <1>3, SendMsgKeeps, AddTimerKeeps
<1> QED
  BY <1>4 DEF Steady

LEMMA RecvAckSteady ==
  ASSUME Retries \in Nat, NEW k \in Cookies, NEW m, m.yiaddr \in Nat
  PROVE  Steady(k, RecvAck(k, m))
<1> DEFINE address == IF k.state = "REQUESTING" THEN m.yiaddr ELSE k.address
           l == [k EXCEPT !.address = address, !.s = FALSE, !.links = {address},
                          !.state = "BOUND"]
<1>1. address \in Nat
  BY DEF Cookies
<1>2. l \in Cookies
  <2> HIDE DEF address
  <2> QED
    BY <1>1 DEF Cookies, States, BoundStates
<1>3. RecvAck(k, m) = [StopTimers(l) EXCEPT !.timer = Reacquisition]
  BY DEF RecvAck, StartReacquisition
<1> HIDE DEF l
<1> DEFINE p == StopTimers(l)
<1>4. p \in Cookies /\ p.retry = 0
  BY <1>2, StopTimersKeeps
<1> HIDE DEF p
<1>5. RecvAck(k, m).retry = 0
  BY <1>3, <1>4 DEF p, Cookies
<1>6. RecvAck(k, m).state = "BOUND"
  BY RecvAckBinds
<1> QED
  BY <1>5, <1>6 DEF Steady, BoundStates

LEMMA RenewSteady ==
  ASSUME Retries \in Nat, NEW k \in Cookies, k.retry \in 0 .. Retries, NEW ok \in BOOLEAN
  PROVE  Steady(k, Renew(k, ok))
<1> DEFINE a == [k EXCEPT !.state = "RENEWING", !.s = TRUE, !.retry = 0]
           b == [k EXCEPT !.state = "RENEWING"]
<1>1. a \in Cookies /\ a.links = k.links /\ b.retry = k.retry /\ b.links = k.links
  BY DEF Cookies, States, BoundStates
<1>2. Renew(k, ok) = IF ok THEN StartRenewing(SendMsg(a, "REQUEST")) ELSE b
  BY DEF Renew
<1> HIDE DEF a, b
<1>3. /\ StartRenewing(SendMsg(a, "REQUEST")).retry = 0
      /\ StartRenewing(SendMsg(a, "REQUEST")).links = k.links
  BY <1>1, SendMsgKeeps, StartRenewingKeeps
<1> QED
  BY <1>1, <1>2, <1>3 DEF Steady

LEMMA RebindSteady ==
  ASSUME Retries \in Nat, NEW k \in Cookies
  PROVE  Steady(k, Rebind(k))
<1> DEFINE l == [k EXCEPT !.state = "REBINDING", !.retry = 0]
<1>1. l \in Cookies /\ l.links = k.links
  BY DEF Cookies, States, BoundStates
<1>2. Rebind(k) = StartRebinding(SendMsg(l, "REQUEST"))
  BY DEF Rebind
<1> HIDE DEF l
<1>3. Rebind(k).retry = 0 /\ Rebind(k).links = k.links
  BY <1>1, <1>2, SendMsgKeeps, StartRebindingKeeps
<1> QED
  BY <1>3 DEF Steady

\* A renewal starts to count again.
LEMMA RetransmitSteady ==
  ASSUME NEW k \in Cookies, k.state \in {"REQUESTING", "RENEWING", "REBINDING"}
  PROVE  /\ Retransmit(k).links = k.links
         /\ Retransmit(k).retry = IF k.state = "REQUESTING" THEN k.retry ELSE 0
<1>1. "REQUEST" \in Timers
  BY DEF Timers
<1>2. CASE k.state = "REQUESTING"
  BY <1>1, <1>2, SendMsgKeeps, AddTimerKeeps DEF Retransmit
<1>3. CASE k.state = "RENEWING"
  BY <1>3, SendMsgKeeps, StartRenewingKeeps DEF Retransmit
<1>4. CASE k.state = "REBINDING"
  BY <1>4, SendMsgKeeps, StartRebindingKeeps DEF Retransmit
<1> QED
  BY <1>2, <1>3, <1>4

LEMMA FireSteady ==
  ASSUME Retries \in Nat, NEW k, Good(k), k.retry \in 0 .. Retries,
         NEW t \in k.timer, NEW ok \in BOOLEAN
  PROVE  Steady(k, Fire(k, t, ok))
<1> DEFINE o == [k EXCEPT !.timer = @ \ {t}]
           counted == [o EXCEPT !.retry = @ + 1]
<1>1. /\ o \in Cookies /\ o.state = k.state /\ o.retry = k.retry /\ o.links = k.links
  BY DEF Good, Cookies
<1>2. /\ counted \in Cookies /\ counted.state = k.state /\ counted.links = k.links
      /\ counted.retry = k.retry + 1
  <2> DEFINE n == o.retry + 1
  <2>1. n \in Nat
    BY <1>1 DEF Cookies
  <2>2. counted = [o EXCEPT !.retry = n]
    OBVIOUS
  <2> HIDE DEF n, counted, o
  <2>3. /\ counted \in Cookies /\ counted.state = o.state /\ counted.links = o.links
        /\ counted.retry = n
    BY <1>1, <2>1, <2>2 DEF Cookies
  <2> QED
    BY <1>1, <2>3 DEF n
<1>3. Fire(k, t, ok) =
        CASE t = "INIT" -> IF k.state = "INIT" THEN Reinit(o, ok) ELSE o
          [] t = "REQUEST" -> IF counted.retry > Retries THEN Reset(counted, ok)
                              ELSE Retransmit(counted)
          [] t \in {"RENEW", "REBIND"} -> Retransmit(counted)
          [] t = "T1" -> IF k.state = "BOUND" THEN Renew(o, ok) ELSE o
          [] t = "T2" -> IF k.state = "RENEWING" THEN Rebind(o) ELSE o
          [] t = "LEASE" -> IF k.state = "REBINDING" THEN Reset(o, ok) ELSE o
  BY DEF Fire
<1> HIDE DEF o, counted
<1>4. k \in Cookies /\ Shape(k) /\ k.state \in States /\ t \in Timers
  BY DEF Good, Cookies
<1>5. Steady(k, o)
  BY <1>1 DEF Steady
<1>6. Steady(k, Reinit(o, ok)) /\ Steady(k, Renew(o, ok)) /\ Steady(k, Rebind(o)) /\ Steady(k, Reset(o, ok))
  <2>1. Steady(o, Reinit(o, ok)) /\ Steady(o, Renew(o, ok)) /\ Steady(o, Rebind(o)) /\ Steady(o, Reset(o, ok))
    BY <1>1, ReinitSteady, RenewSteady, RebindSteady, ResetSteady
  <2> QED
    BY <1>1, <2>1 DEF Steady
<1>7. Steady(k, Reset(counted, ok))
  <2>1. Steady(counted, Reset(counted, ok))
    BY <1>2, ResetSteady
  <2> QED
    BY <1>2, <2>1 DEF Steady
<1>8. CASE t = "REQUEST"
  <2>1. k.state = "REQUESTING"
    BY <1>4, <1>8 DEF Shape, States, BoundStates, Reacquisition
  <2>2. CASE counted.retry > Retries
    BY <1>3, <1>7, <1>8, <2>2
  <2>3. CASE ~(counted.retry > Retries)
    <3>1. Fire(k, t, ok) = Retransmit(counted)
      BY <1>3, <1>8, <2>3
    <3>2. /\ Retransmit(counted).links = k.links /\ Retransmit(counted).retry = k.retry + 1
      BY <1>2, <2>1, RetransmitSteady
    <3> QED
      BY <1>2, <2>3, <3>1, <3>2 DEF Steady
  <2> QED
    BY <2>2, <2>3
<1>9. CASE t \in {"RENEW", "REBIND"}
  <2>1. k.state \in {"RENEWING", "REBINDING"}
    BY <1>4, <1>9 DEF Shape, States, BoundStates, Reacquisition
  <2>2. Fire(k, t, ok) = Retransmit(counted)
    BY <1>3, <1>9
  <2>3. Retransmit(counted).links = k.links /\ Retransmit(counted).retry = 0
    BY <1>2, <2>1, RetransmitSteady
  <2> QED
    BY <2>2, <2>3 DEF Steady
<1> QED
  BY <1>3, <1>4, <1>5, <1>6, <1>8, <1>9 DEF Timers, Reacquisition

\* Those that have a negotiation with the server, an address for each of them.
Known == {c \in Clients : server.state[c] # "NONE"}
Counted == /\ \A c \in Clients : /\ cookie[c].retry \in 0 .. Retries
                                 /\ cookie[c].links \subseteq 0 .. server.pool_next
           /\ server.pool_next <= Cardinality(Known) + 1
BInv == IInv /\ Counted
Countable == IsFiniteSet(Clients) /\ Retries \in Nat

LEMMA CountedInitially ==
  ASSUME Countable, Init
  PROVE  BInv
<1>1. IInv
  BY InitHolds
<1>2. Cardinality({}) = 0 /\ Known = {}
  BY FS_EmptySet DEF Init, Known
<1>3. \A c \in Clients : cookie[c].retry = 0 /\ cookie[c].links = {}
  BY DEF Init, NoCookie
<1>4. server.pool_next = 1
  BY DEF Init
<1> QED
  BY <1>1, <1>2, <1>3, <1>4 DEF BInv, Counted, Countable

\* A client takes a step: what it puts on the device is its lease.
LEMMA ClientCounts ==
  ASSUME Countable, BInv, IInv', NEW c \in Clients, NEW l, Steady(cookie[c], l),
         cookie' = [cookie EXCEPT ![c] = l], UNCHANGED server
  PROVE  Counted'
<1>1. \A d \in Clients : cookie'[d] = IF d = c THEN l ELSE cookie[d]
  BY DEF BInv, IInv, CookiesGood
<1>2. server.pool_next \in Nat \ {0}
  BY DEF BInv, IInv, Sides
<1>3. l.links \subseteq 0 .. server.pool_next
  <2>1. CASE l.state \notin BoundStates
    BY <1>2, <2>1 DEF Steady, BInv, Counted, NoAddress
  <2>2. CASE l.state \in BoundStates
    <3>1. l.links = {l.address}
      BY <1>1, <2>2 DEF IInv, CookiesGood, Good, Shape
    <3>2. server.state[c] # "NONE" /\ l.address = server.ciaddr[c]
      BY <1>1, <2>2 DEF IInv, Agreed, Leased
    <3>3. server.ciaddr[c] \in Nat /\ server.ciaddr[c] < server.pool_next
      BY <3>2 DEF BInv, IInv, Allocated
    <3> QED
      BY <1>2, <3>1, <3>2, <3>3
  <2> QED
    BY <2>1, <2>2
<1>4. l.retry \in 0 .. Retries
  BY DEF Steady
<1>5. Known' = Known
  BY DEF Known
<1> QED
  BY <1>1, <1>3, <1>4, <1>5 DEF BInv, Counted

\* The server takes a step: a new address is that of a new negotiation.
LEMMA ServerCounts ==
  ASSUME Countable, BInv, IInv', UNCHANGED cookie,
         \/ Known' = Known /\ server'.pool_next = server.pool_next
         \/ \E c \in Clients \ Known : /\ Known' = Known \cup {c}
                                       /\ server'.pool_next \in {server.pool_next, server.pool_next + 1}
  PROVE  Counted'
<1>1. server.pool_next \in Nat \ {0}
  BY DEF BInv, IInv, Sides
<1>2. IsFiniteSet(Known) /\ Cardinality(Known) \in Nat
  BY FS_Subset, FS_CardinalityType DEF Known, Countable
<1>3. /\ server'.pool_next <= Cardinality(Known') + 1
      /\ server.pool_next <= server'.pool_next /\ server'.pool_next \in Nat
  <2>1. CASE Known' = Known /\ server'.pool_next = server.pool_next
    BY <1>1, <2>1 DEF BInv, Counted
  <2>2. ASSUME NEW c \in Clients \ Known, Known' = Known \cup {c},
               server'.pool_next \in {server.pool_next, server.pool_next + 1}
        PROVE  /\ server'.pool_next <= Cardinality(Known') + 1
               /\ server.pool_next <= server'.pool_next /\ server'.pool_next \in Nat
    <3>1. Cardinality(Known') = Cardinality(Known) + 1
      BY <1>2, <2>2, FS_AddElement
    <3>2. server.pool_next <= Cardinality(Known) + 1
      BY DEF BInv, Counted
    <3> QED
      BY <1>1, <1>2, <2>2, <3>1, <3>2
  <2> QED
    BY <2>1, <2>2
<1>4. ASSUME NEW c \in Clients
      PROVE  cookie'[c].retry \in 0 .. Retries /\ cookie'[c].links \subseteq 0 .. server'.pool_next
  BY <1>1, <1>3 DEF BInv, Counted
<1> QED
  BY <1>3, <1>4 DEF Counted

LEMMA ServerRecvCounts ==
  ASSUME Countable, BInv, IInv', NEW c \in Clients, ServerRecv(c)
  PROVE  Counted'
<1> DEFINE v == IF server.state[c] = "NONE" THEN AddNegotiation(server, c) ELSE server
<1>1. /\ UNCHANGED cookie
      /\ \E m : server' = IF v.ciaddr[c] \notin 1..PoolEnd THEN v
                          ELSE IF m.type = "DISCOVER"
                          THEN [MakeReply(v, c, "OFFER") EXCEPT !.state[c] = "OFFER"]
                          ELSE ReplyToRequest(v, c, m)
  BY DEF ServerRecv
<1>2. server \in Sides
  BY DEF BInv, IInv
<1>3. v \in Sides /\ v.state[c] # "NONE"
  BY <1>2, AddNegotiationAllocates DEF BInv, IInv
<1>4. /\ \A d \in Clients \ {c} : v.state[d] = server.state[d]
      /\ server.state[c] # "NONE" => v.pool_next = server.pool_next
      /\ v.pool_next \in {server.pool_next, server.pool_next + 1}
  BY <1>2 DEF AddNegotiation, Sides
<1> HIDE DEF v
<1>5. /\ server'.pool_next = v.pool_next
      /\ \A d \in Clients \ {c} : server'.state[d] = v.state[d]
      /\ server'.state[c] # "NONE"
  BY <1>1, <1>3 DEF MakeReply, ReplyToRequest, Sides
<1>6. CASE server.state[c] # "NONE"
  <2>1. Known' = Known
    BY <1>4, <1>5, <1>6 DEF Known
  <2> QED
    BY <1>1, <1>4, <1>5, <1>6, <2>1, ServerCounts
<1>7. CASE server.state[c] = "NONE"
  <2>1. c \in Clients \ Known /\ Known' = Known \cup {c}
    BY <1>4, <1>5, <1>7 DEF Known
  <2> QED
    BY <1>1, <1>4, <1>5, <2>1, ServerCounts
<1> QED
  BY <1>6, <1>7

LEMMA CountsAreKept ==
  ASSUME BInv, UNCHANGED cookie, Known' = Known, server'.pool_next = server.pool_next
  PROVE  Counted'
<1>1. server'.pool_next <= Cardinality(Known') + 1
  BY DEF BInv, Counted
<1>2. ASSUME NEW c \in Clients
      PROVE  cookie'[c].retry \in 0 .. Retries /\ cookie'[c].links \subseteq 0 .. server'.pool_next
  <2>1. cookie[c].retry \in 0 .. Retries /\ cookie[c].links \subseteq 0 .. server.pool_next
    BY DEF BInv, Counted
  <2> QED
    BY <2>1
<1> QED
  BY <1>1, <1>2 DEF Counted

LEMMA InitiateCounts ==
  ASSUME Countable, BInv, IInv', NEW c \in Clients, Initiate(c)
  PROVE  Counted'
<1> DEFINE k == [cookie[c] EXCEPT !.state = "INIT"]
<1>1. PICK ok \in Outcomes(c) : cookie' = [cookie EXCEPT ![c] = ClientInit(k, ok)]
  BY DEF Initiate
<1>2. Retries \in Nat /\ Good(cookie[c]) /\ cookie[c].retry \in 0 .. Retries /\ ok \in BOOLEAN
  BY DEF Countable, BInv, IInv, CookiesGood, Counted, Outcomes
<1>3. k \in Cookies /\ k.retry = cookie[c].retry /\ k.links = cookie[c].links
  BY <1>2 DEF Good, Cookies, States
<1>4. UNCHANGED server
  BY DEF Initiate
<1> HIDE DEF k
<1>5. Steady(cookie[c], ClientInit(k, ok))
  BY <1>2, <1>3, ClientInitSteady DEF Steady
<1> QED
  BY <1>1, <1>4, <1>5, ClientCounts

LEMMA AbortCounts ==
  ASSUME Countable, BInv, IInv', NEW c \in Clients, Abort(c)
  PROVE  Counted'
<1>1. Retries \in Nat /\ Good(cookie[c]) /\ cookie[c].retry \in 0 .. Retries
  BY DEF Countable, BInv, IInv, CookiesGood, Counted
<1> QED
  BY <1>1, DelCookieSteady, ClientCounts DEF Abort

LEMMA ReceiveCounts ==
  ASSUME Countable, BInv, IInv', NEW c \in Clients, Receive(c)
  PROVE  Counted'
<1>1. Retries \in Nat /\ Good(cookie[c]) /\ cookie[c].retry \in 0 .. Retries
  BY DEF Countable, BInv, IInv, CookiesGood, Counted
<1>2. cookie[c] \in Cookies /\ UNCHANGED server
  BY <1>1 DEF Good, Receive
<1>3. /\ \A ok \in Outcomes(c) : ok \in BOOLEAN
      /\ \A m \in server.sent : m.yiaddr \in Nat
  BY DEF Outcomes, BInv, IInv, Sides, Replies
<1>4. \/ \E m \in server.sent : \/ cookie' = [cookie EXCEPT ![c] = RecvOffer(cookie[c], m)]
                                \/ cookie' = [cookie EXCEPT ![c] = RecvAck(cookie[c], m)]
      \/ \E ok \in Outcomes(c) : cookie' = [cookie EXCEPT ![c] = Reset(cookie[c], ok)]
  BY DEF Receive
<1>5. \A m \in server.sent : /\ Steady(cookie[c], RecvOffer(cookie[c], m))
                             /\ Steady(cookie[c], RecvAck(cookie[c], m))
  BY <1>1, <1>2, <1>3, RecvOfferSteady, RecvAckSteady
<1>6. \A ok \in Outcomes(c) : Steady(cookie[c], Reset(cookie[c], ok))
  BY <1>1, <1>2, <1>3, ResetSteady
<1> QED
  BY <1>2, <1>4, <1>5, <1>6, ClientCounts

LEMMA TimerCounts ==
  ASSUME Countable, BInv, IInv', NEW c \in Clients, TimerFires(c)
  PROVE  Counted'
<1>1. Retries \in Nat /\ Good(cookie[c]) /\ cookie[c].retry \in 0 .. Retries
  BY DEF Countable, BInv, IInv, CookiesGood, Counted
<1>2. PICK t \in cookie[c].timer, ok \in Outcomes(c) :
        cookie' = [cookie EXCEPT ![c] = Fire(cookie[c], t, ok)] /\ UNCHANGED server
  BY DEF TimerFires
<1>3. Steady(cookie[c], Fire(cookie[c], t, ok))
  BY <1>1, FireSteady DEF Outcomes
<1> QED
  BY <1>2, <1>3, ClientCounts

LEMMA QuietCounts ==
  ASSUME BInv, ArpExpires \/ UNCHANGED vars
  PROVE  Counted'
<1>1. UNCHANGED cookie /\ server'.pool_next = server.pool_next /\ server'.state = server.state
  BY DEF ArpExpires, vars, BInv, IInv, Sides
<1>2. Known' = Known
  BY <1>1 DEF Known
<1> QED
  BY <1>1, <1>2, CountsAreKept

LEMMA CountedStep ==
  ASSUME Countable, BInv, Next \/ UNCHANGED vars
  PROVE  BInv'
<1>1. IInv'
  BY InvariantStep DEF BInv
<1>2. CASE Next
  <2>1. \/ ArpExpires
        \/ \E c \in Clients : \/ Initiate(c) \/ Abort(c) \/ Receive(c)
                              \/ TimerFires(c) \/ ServerRecv(c)
    BY <1>2 DEF Next
  <2> QED
    BY <1>1, <2>1, InitiateCounts, AbortCounts, ReceiveCounts, TimerCounts, ServerRecvCounts,
       QuietCounts DEF BInv
<1>3. CASE UNCHANGED vars
  BY <1>1, <1>3, QuietCounts DEF BInv
<1> QED
  BY <1>2, <1>3

LEMMA CountedMeans ==
  ASSUME Countable, BInv
  PROVE  TypeOK
<1>1. IsFiniteSet(Known) /\ Cardinality(Known) <= Cardinality(Clients)
  BY FS_Subset DEF Known, Countable
<1>2. Cardinality(Known) \in Nat /\ Cardinality(Clients) \in Nat
  BY <1>1, FS_CardinalityType DEF Countable
<1>3. server.pool_next \in 1 .. Cardinality(Clients) + 1
  BY <1>1, <1>2 DEF BInv, IInv, Sides, Counted
<1>4. ASSUME NEW c \in Clients
      PROVE  /\ cookie[c].state \in {"NONE", "GONE", "INIT", "REQUESTING"} \cup BoundStates
             /\ cookie[c].retry \in 0 .. Retries + 1
             /\ cookie[c].timer \subseteq Timers
             /\ cookie[c].links \subseteq 0 .. server.pool_next
  <2>1. cookie[c] \in Cookies /\ cookie[c].retry \in 0 .. Retries
    BY DEF BInv, IInv, CookiesGood, Good, Counted
  <2> QED
    BY <2>1 DEF Cookies, States, Countable, BInv, Counted
<1> QED
  BY <1>3, <1>4 DEF TypeOK

LEMMA InvariantHolds == Spec => []IInv
<1>1. Init => IInv
  BY InitHolds
<1>2. IInv /\ [Next]_vars => IInv'
  BY InvariantStep
<1> QED
  BY <1>1, <1>2, PTL DEF Spec

\* What the invariant means.
LEMMA LeasesMean ==
  ASSUME IInv
  PROVE  LeasesAreDistinct /\ LinkIsLease
<1>1. LeasesAreDistinct
  <2> SUFFICES ASSUME NEW c \in Clients, NEW d \in Clients, c # d,
                      cookie[c].state \in BoundStates, cookie[d].state \in BoundStates,
                      cookie[c].address = cookie[d].address
               PROVE  FALSE
    BY DEF LeasesAreDistinct
  <2>1. /\ server.state[c] # "NONE" /\ server.state[d] # "NONE"
        /\ server.ciaddr[c] = server.ciaddr[d]
    BY DEF IInv, Agreed, Leased
  <2>2. HostOf[c] = HostOf[d]
    BY <2>1 DEF IInv, Allocated
  <2> QED
    BY <2>2 DEF IInv, Agreed, BoundStates
<1>2. LinkIsLease
  BY DEF IInv, CookiesGood, Good, Shape, LinkIsLease
<1> QED
  BY <1>1, <1>2

LEMMA TimersMean ==
  ASSUME IInv
  PROVE  AlwaysATimer
<1> SUFFICES ASSUME NEW c \in Clients
             PROVE  LET k == cookie[c] IN
                      CASE k.state \in {"NONE", "GONE"} -> TRUE
                        [] k.state = "INIT" -> "INIT" \in k.timer
                        [] k.state = "REQUESTING" -> "REQUEST" \in k.timer
                        [] k.state = "BOUND" -> "T1" \in k.timer
                        [] k.state = "RENEWING" -> k.timer \cap {"RENEW", "T2"} # {}
                        [] k.state = "REBINDING" -> "REBIND" \in k.timer
  BY DEF AlwaysATimer
<1>1. cookie[c].state \in States /\ Shape(cookie[c])
  BY DEF IInv, CookiesGood, Good, Cookies
<1> QED
  BY <1>1 DEF States, BoundStates, Shape, Reacquisition

\* No two clients hold one address at a time (pico_dhcp_server.c).
THEOREM AddressesAreNotShared == Spec => []LeasesAreDistinct
BY LeasesMean, InvariantHolds, PTL

\* The device of a client has the leased address and no other
\* (pico_dhcp_client.c, recv_ack and reset).
THEOREM DeviceHasLease == Spec => []LinkIsLease
BY LeasesMean, InvariantHolds, PTL

\* Whatever is lost or fails, a client has a timer that moves it on
\* (pico_dhcp_client.c, pico_dhcp_client_timer_handler).
THEOREM ClientIsTimed == Spec => []AlwaysATimer
BY TimersMean, InvariantHolds, PTL
=============================================================================
