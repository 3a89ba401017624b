----------------------------- MODULE DhcpLease -----------------------------
(***************************************************************************)
(* DHCP of picoTCP: the clients of pico_dhcp_client.c and the server of    *)
(* pico_dhcp_server.c over a network that loses, duplicates, delays and    *)
(* reorders messages (a message once sent may be delivered at any later    *)
(* time, any number of times, or never).                                   *)
(*                                                                         *)
(* A client is its cookie; its handlers are written as functions from      *)
(* cookie to cookie.  All messages of a cookie carry its one xid, which is *)
(* the client's name here.  Time is the order of the timers: T1 goes off   *)
(* before T2, T2 before the end of the lease.                              *)
(***************************************************************************)
EXTENDS Naturals, FiniteSets

CONSTANTS Clients,      \* cookies, each with an xid of its own
          HostOf,       \* the device (its MAC address) of every cookie
          Troubled,     \* cookies that are aborted, or whose socket calls fail
          PoolEnd,      \* addresses 1..PoolEnd are the server's pool
          Retries       \* DHCP_CLIENT_RETRIES

VARIABLES cookie,       \* of every client
          server        \* negotiations, pool_next, ARP table, replies sent

vars == <<cookie, server>>

NoAddress == 0
Hosts == {HostOf[c] : c \in Clients}
Reacquisition == {"T1", "T2", "LEASE"}
Timers == {"INIT", "REQUEST", "RENEW", "REBIND"} \cup Reacquisition
BoundStates == {"BOUND", "RENEWING", "REBINDING"}

\* links: the addresses of the device; sent: every message ever sent.
NoCookie == [state |-> "NONE", retry |-> 0, s |-> FALSE, timer |-> {},
             address |-> NoAddress, links |-> {}, sent |-> {}]

Init == /\ cookie = [c \in Clients |-> NoCookie]
        /\ server = [state |-> [c \in Clients |-> "NONE"],
                     ciaddr |-> [c \in Clients |-> NoAddress],
                     arp |-> [h \in Hosts |-> NoAddress],
                     pool_next |-> 1,
                     sent |-> {}]

Outcomes(c) == IF c \in Troubled THEN BOOLEAN ELSE {TRUE}

-----------------------------------------------------------------------------
(* The client's helpers.                                                   *)

StopTimers(k) == [k EXCEPT !.retry = 0, !.timer = {}]
AddTimer(k, t) == [k EXCEPT !.timer = @ \cup {t}]
StartReacquisition(k) ==
  [StopTimers(k) EXCEPT !.timer = Reacquisition]
\* Both stop every timer, T2 and the lease timer included.
StartRenewing(k) == AddTimer(StopTimers(k), "RENEW")
StartRebinding(k) == AddTimer(StopTimers(k), "REBIND")

\* A message goes out only through an open socket.
SendMsg(k, type) ==
  [k EXCEPT !.sent =
     IF k.s THEN @ \cup {[type |-> type,
                          reqip |-> k.state = "REQUESTING",
                          ciaddr |-> IF k.state \in BoundStates
                                     THEN k.address ELSE NoAddress]}
     ELSE @]

\* pico_dhcp_client_init; ok: the socket opens, binds and sends.
ClientInit(k, ok) ==
  IF ok THEN LET opened == [k EXCEPT !.s = TRUE, !.links = @ \cup {NoAddress}]
             IN AddTimer([SendMsg(opened, "DISCOVER") EXCEPT !.retry = 0],
                         "INIT")
  ELSE AddTimer([k EXCEPT !.s = FALSE, !.links = @ \cup {NoAddress}], "INIT")

DelCookie(k) == [NoCookie EXCEPT !.state = "GONE", !.sent = k.sent,
                                 !.links = k.links \ {k.address}]

Reset(k, ok) ==
  LET address == IF k.state = "REQUESTING" THEN NoAddress ELSE k.address
  IN ClientInit(StopTimers([k EXCEPT !.s = FALSE,
                                     !.links = @ \ {address},
                                     !.state = "INIT"]), ok)

\* (mutant: failing attempts are not limited)
Reinit_NoLimit(k, ok) == ClientInit([k EXCEPT !.s = FALSE, !.retry = @ + 1], ok)
Reinit(k, ok) ==
  LET again == [k EXCEPT !.s = FALSE, !.retry = @ + 1]
  IN IF again.retry > Retries
     THEN DelCookie(again)
     ELSE ClientInit(again, ok)

-----------------------------------------------------------------------------
(* The client's state machine dhcp_fsm: one operator per entry.            *)

RecvOffer(k, m) ==
  AddTimer(SendMsg([k EXCEPT !.address = m.yiaddr, !.state = "REQUESTING",
                             !.retry = 0], "REQUEST"), "REQUEST")

\* (mutant: an ACK in the middle of a renewal changes the address)
RecvAck_KeepLinks(k, m) ==
  StartReacquisition([k EXCEPT !.address = IF k.state = "REQUESTING"
                                           THEN m.yiaddr ELSE @,
                               !.s = FALSE, !.links = @ \cup {m.yiaddr},
                               !.state = "BOUND"])
RecvAck(k, m) ==
  LET address == IF k.state = "REQUESTING" THEN m.yiaddr ELSE k.address
  IN StartReacquisition([k EXCEPT !.address = address, !.s = FALSE,
                                  !.links = {address},
                                  !.state = "BOUND"])

\* The failing branch leaves the client without a socket, T2 still running.
Renew(k, ok) ==
  IF ok THEN StartRenewing(SendMsg([k EXCEPT !.state = "RENEWING",
                                             !.s = TRUE, !.retry = 0],
                                   "REQUEST"))
  ELSE [k EXCEPT !.state = "RENEWING"]

Rebind(k) == StartRebinding(SendMsg([k EXCEPT !.state = "REBINDING",
                                              !.retry = 0], "REQUEST"))

\* (mutant: a renewal is sent again, its timer is not started again)
Retransmit_Once(k) ==
  IF k.state = "REQUESTING" THEN AddTimer(SendMsg(k, "REQUEST"), "REQUEST")
  ELSE SendMsg(k, "REQUEST")
Retransmit(k) ==
  CASE k.state = "REQUESTING" -> AddTimer(SendMsg(k, "REQUEST"), "REQUEST")
    [] k.state = "RENEWING" -> StartRenewing(SendMsg(k, "REQUEST"))
    [] k.state = "REBINDING" -> StartRebinding(SendMsg(k, "DISCOVER"))
    [] OTHER -> k

-----------------------------------------------------------------------------
(* The client's steps.                                                     *)

\* pico_dhcp_initiate_negotiation
Initiate(c) == /\ cookie[c].state = "NONE"
               /\ \A d \in Clients \ {c} : HostOf[d] = HostOf[c] =>
                                          cookie[d].state \in {"NONE", "GONE"}
               /\ \E ok \in Outcomes(c) : cookie' = [cookie EXCEPT ![c] =
                    ClientInit([@ EXCEPT !.state = "INIT"], ok)]
               /\ UNCHANGED server

\* pico_dhcp_client_abort; a cookie that is gone is not used again.
Abort(c) == /\ c \in Troubled /\ cookie[c].state \notin {"NONE", "GONE"}
            /\ cookie' = [cookie EXCEPT ![c] = DelCookie(@)]
            /\ UNCHANGED server

\* pico_dhcp_client_wakeup, for a message of the server or a NAK of another
\* one; an event without an entry in dhcp_fsm changes nothing.
Receive(c) ==
  LET k == cookie[c] IN
  /\ k.s
  /\ \/ \E m \in server.sent : /\ m.xid = c /\ m.type = "OFFER"
                               /\ k.state = "INIT"
                               /\ cookie' = [cookie EXCEPT ![c] = RecvOffer(@, m)]
     \/ \E m \in server.sent : /\ m.xid = c /\ m.type = "ACK"
                               /\ k.state \in {"REQUESTING", "RENEWING", "REBINDING"}
                               /\ cookie' = [cookie EXCEPT ![c] = RecvAck(@, m)]
     \/ \E ok \in Outcomes(c) : /\ k.state \in {"REQUESTING", "RENEWING", "REBINDING"}
                            /\ cookie' = [cookie EXCEPT ![c] = Reset(@, ok)]
  /\ UNCHANGED server

\* pico_dhcp_client_timer_handler and dhcp_get_timer_event
Fire(k, t, ok) ==
  LET o == [k EXCEPT !.timer = @ \ {t}]
      counted == [o EXCEPT !.retry = @ + 1]
  IN CASE t = "INIT" -> IF k.state = "INIT" THEN Reinit(o, ok) ELSE o
       [] t = "REQUEST" -> IF counted.retry > Retries THEN Reset(counted, ok)
                           ELSE Retransmit(counted)
       [] t \in {"RENEW", "REBIND"} -> Retransmit(counted)
       [] t = "T1" -> IF k.state = "BOUND" THEN Renew(o, ok) ELSE o
       [] t = "T2" -> IF k.state = "RENEWING" THEN Rebind(o) ELSE o
       [] t = "LEASE" -> IF k.state = "REBINDING" THEN Reset(o, ok) ELSE o

TimerFires(c) ==
  \E t \in cookie[c].timer, ok \in Outcomes(c) :
    /\ (t = "T2" => "T1" \notin cookie[c].timer)
    /\ (t = "LEASE" => "T2" \notin cookie[c].timer)
    /\ cookie' = [cookie EXCEPT ![c] = Fire(@, t, ok)]
    /\ UNCHANGED server

-----------------------------------------------------------------------------
(* The server.                                                             *)

\* (mutant: pool_next is not advanced)
AddNegotiation_SamePool(v, c) ==
  [v EXCEPT !.state[c] = "DISCOVER", !.ciaddr[c] = v.pool_next,
            !.arp[HostOf[c]] = v.pool_next]
AddNegotiation(v, c) ==
  IF v.arp[HostOf[c]] # NoAddress
  THEN [v EXCEPT !.state[c] = "DISCOVER", !.ciaddr[c] = v.arp[HostOf[c]]]
  ELSE [v EXCEPT !.state[c] = "DISCOVER", !.ciaddr[c] = v.pool_next,
                 !.arp[HostOf[c]] = v.pool_next, !.pool_next = @ + 1]

MakeReply(v, c, type) ==
  [v EXCEPT !.sent = @ \cup {[type |-> type, xid |-> c, yiaddr |-> v.ciaddr[c]]}]

ReplyToRequest(v, c, m) ==
  CASE /\ v.state[c] = "BOUND"
       /\ ~m.reqip /\ m.ciaddr = v.ciaddr[c] -> MakeReply(v, c, "ACK")
    [] v.state[c] = "OFFER" -> MakeReply([v EXCEPT !.state[c] = "BOUND"], c, "ACK")
    [] OTHER -> v

\* pico_dhcp_server_recv; an address beyond the pool is not offered, though
\* its negotiation is kept.
ServerRecv(c) ==
  \E m \in cookie[c].sent :
    LET v == IF server.state[c] = "NONE" THEN AddNegotiation(server, c)
             ELSE server
    IN /\ server' = IF v.ciaddr[c] \notin 1..PoolEnd THEN v
                    ELSE IF m.type = "DISCOVER"
                    THEN [MakeReply(v, c, "OFFER") EXCEPT !.state[c] = "OFFER"]
                    ELSE ReplyToRequest(v, c, m)
       /\ UNCHANGED cookie

\* The ARP entry of a client grows old and is dropped.
ArpExpires == \E h \in Hosts : /\ server.arp[h] # NoAddress
                               /\ server' = [server EXCEPT !.arp[h] = NoAddress]
                               /\ UNCHANGED cookie

Next == \/ \E c \in Clients : \/ Initiate(c) \/ Abort(c) \/ Receive(c)
                              \/ TimerFires(c) \/ ServerRecv(c)
        \/ ArpExpires

Spec == Init /\ [][Next]_vars

-----------------------------------------------------------------------------
(* Properties.                                                             *)

TypeOK ==
  /\ \A c \in Clients :
       /\ cookie[c].state \in {"NONE", "GONE", "INIT", "REQUESTING"}
                                  \cup BoundStates
       /\ cookie[c].retry \in 0..Retries + 1
       /\ cookie[c].timer \subseteq Timers
       /\ cookie[c].links \subseteq 0..server.pool_next
  /\ server.pool_next \in 1..Cardinality(Clients) + 1

\* Two clients never use one address at a time, whatever is lost, repeated or
\* late, and however often negotiations start again.
LeasesAreDistinct ==
  \A c, d \in Clients :
    c # d /\ cookie[c].state \in BoundStates /\ cookie[d].state \in BoundStates
    => cookie[c].address # cookie[d].address

\* The device of a client that holds a lease has the leased address, and no
\* other: no link of the negotiation or of the search survives.
LinkIsLease == \A c \in Clients : cookie[c].state \in BoundStates =>
                 cookie[c].links = {cookie[c].address}

\* A client always has a timer that will move it on: it can lose any message
\* and every socket call and still not sleep for ever.
AlwaysATimer ==
  \A c \in Clients : LET k == cookie[c] IN
    CASE k.state \in {"NONE", "GONE"} -> TRUE
      [] k.state = "INIT" -> "INIT" \in k.timer
      [] k.state = "REQUESTING" -> "REQUEST" \in k.timer
      [] k.state = "BOUND" -> "T1" \in k.timer
      [] k.state = "RENEWING" -> k.timer \cap {"RENEW", "T2"} # {}
      [] k.state = "REBINDING" -> "REBIND" \in k.timer

\* The remark on timers in pico_dhcp_client.c: a client that renews still has
\* the former T2 and lease timers.
\* (The code breaks it: see the README.)
FormerTimersRun == \A c \in Clients : cookie[c].state = "RENEWING" =>
                     {"T2", "LEASE"} \subseteq cookie[c].timer
=============================================================================
