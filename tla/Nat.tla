-------------------------------- MODULE Nat --------------------------------
(***************************************************************************)
(* Translation of IPv4 addresses (pico_nat.c): one table ordered by the    *)
(* inner address and port, one by the port on the outer address, both of   *)
(* the same tuples; a timer removes the tuples that are not used.  The     *)
(* inner address and port are one endpoint; remote hosts, checksums and    *)
(* ICMP, which has no tuple, are left out.                                 *)
(***************************************************************************)
EXTENDS Naturals, Sequences

CONSTANTS Keys,        \* inner endpoints, each with a protocol
          NatPorts,    \* ports of the outer address
          Period,      \* PICO_NAT_TIMEWAIT, in steps of the clock
          TcpLimit,    \* 360: clean-ups after which a TCP tuple is too old
          MaxEnables   \* calls of pico_ipv4_nat_enable

VARIABLES natOut,    \* NATOutbound: the tuple of each endpoint and protocol
          natIn,     \* NATInbound: whose tuple each port and protocol belongs to
          natLink,   \* nat_link is set
          cleanups,  \* time to go of each clean-up timer
          unused     \* time since the tuple was used

vars == <<natOut, natIn, natLink, cleanups, unused>>

Protocols == {"tcp", "udp"}
NoTuple == [port |-> 0, active |-> 0, forward |-> FALSE,
            ended |-> FALSE, finIn |-> FALSE, finOut |-> FALSE]
Nobody == <<"nobody", "none">>

Init == /\ natOut = [k \in Keys |-> NoTuple]
        /\ natIn = [p \in NatPorts \X Protocols |-> Nobody]
        /\ natLink = FALSE /\ cleanups = <<>>
        /\ unused = [k \in Keys |-> 0]

\* pico_ipv4_nat_add: both tables, or neither.
CanAdd(k, port) == natOut[k] = NoTuple /\ natIn[<<port, k[2]>>] = Nobody
Tuple(port, forward) == [NoTuple EXCEPT !.port = port, !.active = 1, !.forward = forward]

\* pico_ipv4_nat_sniff_session: UDP is young again, TCP remembers how it ends.
\* (mutant: UDP is looked at like TCP)
Sniffed_Old(t, proto, flag, dir) == [t EXCEPT !.ended = @ \/ flag = "rst"]
Sniffed(t, proto, flag, dir) ==
  IF proto = "udp" THEN [t EXCEPT !.active = 1]
  ELSE [t EXCEPT !.ended = @ \/ flag = "rst",
                 !.finIn = @ \/ (flag = "fin" /\ dir = "in"),
                 !.finOut = @ \/ (flag = "fin" /\ dir = "out")]

\* pico_ipv4_nat_generate_tuple
NewPort(k, flag, port) ==
  /\ CanAdd(k, port)
  /\ natOut' = [natOut EXCEPT ![k] = Sniffed(Tuple(port, FALSE), k[2], flag, "out")]
  /\ natIn' = [natIn EXCEPT ![<<port, k[2]>>] = k]

\* pico_ipv4_nat_outbound: a new tuple has a port that is free;
\* without one the code goes on with no tuple, and the model stops.
Outbound(k, flag) ==
  /\ natLink
  /\ \/ /\ natOut[k] # NoTuple
        /\ natOut' = [natOut EXCEPT ![k] = Sniffed(@, k[2], flag, "out")] /\ UNCHANGED natIn
     \/ \E port \in NatPorts : NewPort(k, flag, port)
  /\ unused' = [unused EXCEPT ![k] = 0]
  /\ UNCHANGED <<natLink, cleanups>>

\* pico_ipv4_nat_inbound: the port alone says whose frame it is.
Inbound(port, proto, flag) ==
  LET k == natIn[<<port, proto>>]
  IN /\ natLink /\ k # Nobody
     /\ natOut' = [natOut EXCEPT ![k] = Sniffed(@, proto, flag, "in")]
     /\ unused' = [unused EXCEPT ![k] = 0]
     /\ UNCHANGED <<natIn, natLink, cleanups>>

\* pico_ipv4_nat_del, for the tuples of some keys.
\* (mutant: the tuple stays in the other table)
InWithout_Keep(gone) == natIn
InWithout(gone) == [p \in DOMAIN natIn |-> IF natIn[p] \in gone THEN Nobody ELSE natIn[p]]
Delete(gone, others) ==
  /\ natOut' = [k \in Keys |-> IF k \in gone THEN NoTuple ELSE others[k]]
  /\ natIn' = InWithout(gone)

\* pico_ipv4_port_forward
PortForwardAdd(k, port) ==
  /\ IF CanAdd(k, port)
     THEN /\ natOut' = [natOut EXCEPT ![k] = Tuple(port, TRUE)]
          /\ natIn' = [natIn EXCEPT ![<<port, k[2]>>] = k]
          /\ unused' = [unused EXCEPT ![k] = 0]
     ELSE UNCHANGED <<natOut, natIn, unused>>
  /\ UNCHANGED <<natLink, cleanups>>
\* The user ends what the user added; the code would end any tuple of the port.
PortForwardDel(k) ==
  /\ natOut[k].forward /\ Delete({k}, natOut)
  /\ UNCHANGED <<natLink, cleanups, unused>>

\* pico_ipv4_nat_table_cleanup: what it makes of a tuple, and which it deletes.
Finished(t) == t.ended \/ (t.finIn /\ t.finOut)
Older(k, t) == IF t = NoTuple \/ t.forward THEN t
               ELSE IF k[2] = "tcp" /\ Finished(t) THEN [t EXCEPT !.active = 0]
               ELSE [t EXCEPT !.active = @ + 1]
\* (mutant: a TCP tuple goes for its age only)
TooOld_Never(k, t) == t # NoTuple /\ ~t.forward /\
                      t.active > IF k[2] = "tcp" THEN TcpLimit ELSE 1
TooOld(k, t) == t # NoTuple /\ ~t.forward /\
                IF k[2] = "tcp" THEN t.active = 0 \/ t.active > TcpLimit ELSE t.active > 1
Cleanup(i) ==
  /\ cleanups[i] = 0 /\ cleanups' = [cleanups EXCEPT ![i] = Period]
  /\ LET gone == {k \in Keys : TooOld(k, natOut[k])}
     IN Delete(gone, [k \in Keys |-> Older(k, natOut[k])])
  /\ UNCHANGED <<natLink, unused>>

\* pico_ipv4_nat_enable starts a timer each time; nat_disable ends none.
Enable == /\ Len(cleanups) < MaxEnables /\ natLink' = TRUE
          /\ cleanups' = Append(cleanups, Period)
          /\ UNCHANGED <<natOut, natIn, unused>>
Disable == natLink' = FALSE /\ UNCHANGED <<natOut, natIn, cleanups, unused>>

\* Time passes when no timer is due.
Clock == /\ cleanups # <<>> /\ \A i \in DOMAIN cleanups : cleanups[i] > 0
         /\ cleanups' = [i \in DOMAIN cleanups |-> cleanups[i] - 1]
         /\ unused' = [k \in Keys |-> IF unused[k] < Period THEN unused[k] + 1 ELSE Period]
         /\ UNCHANGED <<natOut, natIn, natLink>>
CleanupDue == \E i \in DOMAIN cleanups : Cleanup(i)

Flags == {"none", "rst", "fin"}
Next == \/ \E k \in Keys, flag \in Flags : Outbound(k, flag)
        \/ \E port \in NatPorts, proto \in Protocols, flag \in Flags : Inbound(port, proto, flag)
        \/ \E k \in Keys, port \in NatPorts : PortForwardAdd(k, port)
        \/ \E k \in Keys : PortForwardDel(k)
        \/ CleanupDue \/ Enable \/ Disable \/ Clock

Spec == Init /\ [][Next]_vars
\* The clock runs, and the stack's tick runs the timers that are due.
FairSpec == Spec /\ WF_vars(Clock) /\ WF_vars(CleanupDue)

-----------------------------------------------------------------------------
(* Properties.                                                             *)

\* The two tables hold the same tuples: no endpoint has two ports, no port two
\* endpoints, and what is gone from one is gone from the other (pico_nat.c:207-228).
TablesAgree == \A k \in Keys, port \in NatPorts :
  (natIn[<<port, k[2]>>] = k) <=> (natOut[k].port = port)

\* A tuple of UDP is not taken away before it was left unused for a whole period
\* (pico_nat.c:357: the age that a frame resets).
UsedTuplesStay == [][\A k \in Keys :
  (k[2] = "udp" /\ natOut[k] # NoTuple /\ ~natOut[k].forward /\ natOut'[k] = NoTuple)
  => unused[k] >= Period]_vars

\* A TCP connection that has ended loses its tuple (pico_nat.c:345-348): its
\* port comes free.
EndedTuplesGo == \A k \in {k \in Keys : k[2] = "tcp"} :
  Finished(natOut[k]) /\ ~natOut[k].forward ~> natOut[k] = NoTuple
=============================================================================
