------------------------------ MODULE Ipv6Dad ------------------------------
(***************************************************************************)
(* Duplicate address detection: hosts on one segment that give themselves  *)
(* IPv6 addresses (pico_ipv6.c, pico_device.c) and ask whether another has *)
(* them (pico_ipv6_nd.c, pico_icmp6.c).                                    *)
(*                                                                         *)
(* An address is tentative until nobody has answered the solicitations for *)
(* it.  The segment loses nothing and a frame arrives before the second    *)
(* after a solicitation is over; the link of a host may come up late.  Two *)
(* picks of a random address are the same only on different hosts.         *)
(***************************************************************************)
EXTENDS FiniteSets, Naturals

CONSTANTS Hosts,
          LinkLocal,   \* the link-local addresses
          Global,      \* the addresses that a user adds
          Suffix,      \* the last three bytes of every address
          Retrans      \* PICO_IPV6_DEFAULT_DAD_RETRANS

VARIABLES address6,    \* the state of every address of every host
          segment,     \* the solicitations and advertisements on their way
          linkUp       \* whether the device of a host has a link

vars == <<address6, segment, linkUp>>

Addresses == LinkLocal \cup Global
NoAddress == [state |-> "none", left |-> 0, armed |-> FALSE]
\* pico_ipv6_link_add: a timer will start the detection.
Tentative == [state |-> "tentative", left |-> Retrans, armed |-> TRUE]
Has(h, a) == address6[h][a].state # "none"
IsTentative(h, a) == address6[h][a].state = "tentative"
\* pico_ipv6_link_get finds no tentative address.
IsValid(h, a) == address6[h][a].state = "valid"

Init == /\ \E first \in [Hosts -> LinkLocal] :
             address6 = [h \in Hosts |-> [a \in Addresses |->
                           IF a = first[h] THEN Tentative ELSE NoAddress]]
        /\ segment = {}
        /\ linkUp \in [Hosts -> BOOLEAN]

Messages(kind, h, a) == {[kind |-> kind, target |-> a, from |-> h, to |-> o] : o \in Hosts \ {h}}

-----------------------------------------------------------------------------
LinkAdd(h, a) ==
  /\ ~Has(h, a)
  /\ address6' = [address6 EXCEPT ![h][a] = Tentative]
  /\ UNCHANGED <<segment, linkUp>>

\* The timer of the detection is cancelled with the link.
LinkDel(h, a) ==
  /\ Has(h, a)
  /\ address6' = [address6 EXCEPT ![h][a] = NoAddress]
  /\ UNCHANGED <<segment, linkUp>>

LinkComesUp(h) ==
  /\ ~linkUp[h]
  /\ linkUp' = [linkUp EXCEPT ![h] = TRUE]
  /\ UNCHANGED <<address6, segment>>

\* What the host has asked has arrived, and no answer is on its way.
Quiet(h, a) == \A m \in segment : m.target = a =>
  ~(m.kind = "NS" /\ m.from = h) /\ ~(m.kind = "NA" /\ m.to = h)

\* (mutant: without a link the detection is not tried again)
NoLink_Once(h, a) == address6' = [address6 EXCEPT ![h][a].armed = FALSE]
NoLink(h, a) == UNCHANGED address6
Solicit(h, a) ==
  /\ address6' = [address6 EXCEPT ![h][a].left = @ - 1]
  /\ segment' = segment \cup Messages("NS", h, a)
Confirm(h, a) ==
  /\ Quiet(h, a)
  /\ address6' = [address6 EXCEPT ![h][a].state = "valid", ![h][a].armed = FALSE]
  /\ UNCHANGED segment
\* pico_ipv6_nd_dad, on its timer
Dad(h, a) ==
  /\ IsTentative(h, a) /\ address6[h][a].armed
  /\ UNCHANGED linkUp
  /\ \/ ~linkUp[h] /\ NoLink(h, a) /\ UNCHANGED segment
     \/ linkUp[h] /\ address6[h][a].left > 0 /\ Solicit(h, a)
     \/ linkUp[h] /\ address6[h][a].left = 0 /\ Confirm(h, a)

-----------------------------------------------------------------------------
\* ipv6_duplicate_detected: another address is picked for a link-local one,
\* none that the host has already confirmed; a pick that is tentative fails.
Duplicate(h, a) ==
  IF a \in LinkLocal
  THEN \E b \in {b \in LinkLocal \ {a} : ~IsValid(h, b)} :
         address6' = [address6 EXCEPT ![h][a] = NoAddress,
                                      ![h][b] = IF Has(h, b) THEN @ ELSE Tentative]
  ELSE address6' = [address6 EXCEPT ![h][a] = NoAddress]

\* neigh_sol_validate_unspec: the group must be that of a link-local address.
ForUs(h, a) == \E b \in LinkLocal : Has(h, b) /\ Suffix[b] = Suffix[a]
\* pico_nd_neigh_sol_recv, a solicitation without a source
SolicitationRecv(h, a) ==
  LET rest == segment \ {m \in segment : m.to = h /\ m.target = a /\ m.kind = "NS"}
  IN CASE ForUs(h, a) /\ IsTentative(h, a) -> Duplicate(h, a) /\ segment' = rest
       [] ForUs(h, a) /\ IsValid(h, a) ->
            UNCHANGED address6 /\ segment' = rest \cup Messages("NA", h, a)
       [] OTHER -> UNCHANGED address6 /\ segment' = rest

\* (mutant: the address is looked up with pico_ipv6_link_get)
AdvertisementRecv_Valid(h, a) ==
  /\ IF IsValid(h, a) THEN Duplicate(h, a) ELSE UNCHANGED address6
  /\ segment' = segment \ {m \in segment : m.to = h /\ m.target = a /\ m.kind = "NA"}
\* pico_nd_neigh_adv_recv, as far as it is about the host's own addresses
AdvertisementRecv(h, a) ==
  /\ IF IsTentative(h, a) THEN Duplicate(h, a) ELSE UNCHANGED address6
  /\ segment' = segment \ {m \in segment : m.to = h /\ m.target = a /\ m.kind = "NA"}

Arrives(h, a) ==
  /\ linkUp[h]
  /\ UNCHANGED linkUp
  /\ \/ (\E m \in segment : m.to = h /\ m.target = a /\ m.kind = "NS") /\ SolicitationRecv(h, a)
     \/ (\E m \in segment : m.to = h /\ m.target = a /\ m.kind = "NA") /\ AdvertisementRecv(h, a)
\* What is sent to a host without a link is not received.
Missed(h) ==
  /\ ~linkUp[h] /\ \E m \in segment : m.to = h
  /\ segment' = {m \in segment : m.to # h}
  /\ UNCHANGED <<address6, linkUp>>

Next ==
  \E h \in Hosts :
    \/ LinkComesUp(h) \/ Missed(h)
    \/ \E a \in Global : LinkAdd(h, a) \/ LinkDel(h, a)
    \/ \E a \in Addresses : Dad(h, a) \/ Arrives(h, a)

Spec == Init /\ [][Next]_vars
\* The stack's tick runs the timers and takes in what has arrived.
FairSpec ==
  /\ Spec
  /\ \A h \in Hosts : /\ WF_vars(LinkComesUp(h))
                      /\ WF_vars(Missed(h))
                      /\ \A a \in Addresses : WF_vars(Dad(h, a)) /\ WF_vars(Arrives(h, a))

-----------------------------------------------------------------------------
(* Properties.                                                             *)

\* Two hosts never both take a link-local address for theirs, whatever the
\* order of their solicitations, advertisements and links.
LinkLocalIsUnique == \A a \in LinkLocal : Cardinality({h \in Hosts : IsValid(h, a)}) <= 1

\* The same of the addresses a user adds.
\* (The code breaks it: see the README.)
GlobalIsUnique == \A a \in Global : Cardinality({h \in Hosts : IsValid(h, a)}) <= 1

\* Every detection comes to an end: the address is taken or given up, also when
\* the link comes up after the address was added.
DetectionEnds == \A h \in Hosts, a \in Addresses : IsTentative(h, a) ~> ~IsTentative(h, a)
=============================================================================
