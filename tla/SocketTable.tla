----------------------------- MODULE SocketTable -----------------------------
(***************************************************************************)
(* The sockets of a picoTCP stack (stack/pico_socket.c and the parts of    *)
(* pico_socket_tcp.c, pico_socket_udp.c and pico_udp.c it calls): the      *)
(* tables by port, bind, connect, listen, accept, shutdown and close, the  *)
(* delivery of what arrives, and the timer that frees a socket.            *)
(*                                                                         *)
(* A table has a tree of sockets for each local port.  A tree here has at  *)
(* most three nodes, <<left, root, right>> with 0 for a leaf, the shapes   *)
(* the red-black tree has at that size.  What TCP does with a connection   *)
(* is module TcpConnection; here it is established and ended some time.    *)
(* Addresses of both families are handled alike; the flags of a shutdown,  *)
(* which only reads and writes look at, are left out.  A socket is used    *)
(* once: what happens to memory that is used again is not modelled.        *)
(***************************************************************************)
EXTENDS Integers, FiniteSets

CONSTANTS Protos,    \* the protocols of the sockets the application opens
          Ports,     \* local ports
          Addrs,     \* local addresses, "any" among them
          Remotes,   \* addresses of remote hosts
          Numbers,   \* ports of remote hosts
          MaxQueue,  \* datagrams in a queue
          Careless   \* the application moves a socket among others on its port

VARIABLES socks, tables

vars == <<socks, tables>>

Socks == 1..3
Home == "ip1"      \* the source address pico_ipv4_source_find gives
Empty == <<0, 0, 0>>
Nothing == [proto |-> "none", life |-> "none", bound |-> FALSE, conn |-> FALSE,
            tcp |-> "none", la |-> "any", lp |-> 0, ra |-> "none", rp |-> 0,
            parent |-> 0, pend |-> 0, backlog |-> 0, queue |-> 0, gc |-> 0]

Init == /\ socks = [s \in Socks |-> Nothing]
        /\ tables = [p \in {"udp", "tcp"} |-> [n \in Ports |-> Empty]]

-----------------------------------------------------------------------------
(* The trees.                                                              *)

Nodes(t) == {t[1], t[2], t[3]} \ {0}

\* socket_cmp: addresses are compared, and the result is not used.  Larger
\* remote ports come first.
Cmp(S, a, b) == S[b].rp - S[a].rp

\* pico_tree_findNode
Find(S, t, s) ==
  LET side == IF t[2] = 0 THEN 0 ELSE IF Cmp(S, t[2], s) < 0 THEN t[3] ELSE t[1] IN
  CASE t[2] # 0 /\ Cmp(S, t[2], s) = 0 -> t[2]
    [] t[2] # 0 /\ Cmp(S, t[2], s) # 0 /\ side # 0 /\ Cmp(S, side, s) = 0 -> side
    [] OTHER -> 0

\* pico_tree_insert, with the rotation that follows a third node on one side
Insert(S, t, s) ==
  LET left == Cmp(S, s, t[2]) < 0 IN
  CASE t[2] = 0 -> <<0, s, 0>>
    [] t[2] # 0 /\ Find(S, t, s) # 0 -> t
    [] OTHER ->
       IF left THEN CASE t[1] = 0 -> <<s, t[2], t[3]>>
                      [] t[1] # 0 /\ Cmp(S, s, t[1]) < 0 -> <<s, t[1], t[2]>>
                      [] OTHER -> <<t[1], s, t[2]>>
       ELSE CASE t[3] = 0 -> <<t[1], t[2], s>>
              [] t[3] # 0 /\ Cmp(S, s, t[3]) < 0 -> <<t[2], s, t[3]>>
              [] OTHER -> <<t[2], t[3], s>>

\* pico_tree_delete: of the node that is found, whoever it is
Delete(S, t, s) ==
  LET d == Find(S, t, s) IN
  CASE d = 0 -> t
    [] d # 0 /\ d = t[1] -> <<0, t[2], t[3]>>
    [] d # 0 /\ d = t[3] -> <<t[1], t[2], 0>>
    [] OTHER -> IF t[3] # 0 THEN <<t[1], t[3], 0>> ELSE <<0, t[1], 0>>

Tree(s) == tables[socks[s].proto][socks[s].lp]
\* pico_get_sockport: a port without sockets has no entry
HasPort(s) == socks[s].lp # 0 /\ Tree(s) # Empty
\* pico_check_socket
InTable(s) == socks[s].lp # 0 /\ s \in Nodes(Tree(s))

\* pico_socket_add, of a socket whose fields are already those of S
Add(S, s) ==
  /\ tables' = [tables EXCEPT ![S[s].proto][S[s].lp] = Insert(S, @, s)]
  /\ socks' = [S EXCEPT ![s].bound = TRUE]

Zombie(S, s) == [Nothing EXCEPT !.proto = S[s].proto, !.lp = S[s].lp, !.rp = S[s].rp,
                   !.parent = S[s].parent, !.life = "zombie", !.gc = S[s].gc + 1]
\* (mutant: the parent is not told, pico_socket_tcp_delete left out)
Del_NoParent(S, s) ==
  /\ tables' = [tables EXCEPT ![S[s].proto][S[s].lp] = Delete(S, @, s)]
  /\ socks' = [S EXCEPT ![s] = Zombie(S, s)]
\* (mutant: the socket stays in the table)
Del_KeepsEntry(S, s) == socks' = [S EXCEPT ![s] = Zombie(S, s)] /\ UNCHANGED tables
\* pico_socket_del; when a listener is gone, what a child does to its counter
\* is a write to freed memory, and is left out.
Del(S, s) ==
  IF tables[S[s].proto][S[s].lp] = Empty THEN socks' = S /\ UNCHANGED tables
  ELSE
  LET dad == S[s].parent
      T == [S EXCEPT ![s] = Zombie(S, s)] IN
  /\ tables' = [tables EXCEPT ![S[s].proto][S[s].lp] = Delete(S, @, s)]
  /\ socks' = IF dad # 0 THEN [T EXCEPT ![dad].pend = @ - 1] ELSE T

-----------------------------------------------------------------------------
(* Calls of the application.                                               *)

Mine(s) == socks[s].life = "open" /\ socks[s].parent = 0

\* The application changes the remote port of a socket that is in the table
\* only where no other is, unless it is careless.
MayMove(s) == Careless \/ (socks[s].bound => Nodes(Tree(s)) \subseteq {s})

\* pico_socket_open; identifiers in order, which only names them.  The tables
\* of the protocols have nothing in common: a behaviour uses one of them.
Open(s, proto) ==
  /\ socks[s].life = "none"
  /\ \A r \in Socks : IF r < s THEN socks[r].life # "none" /\ socks[r].proto = proto
                      ELSE socks[r].life = "none"
  /\ socks' = [socks EXCEPT ![s] = [Nothing EXCEPT !.proto = proto, !.life = "open"]]
  /\ UNCHANGED tables

\* pico_port_in_use_ipv4, pico_port_in_use_ipv6
PortInUse(proto, a, p) ==
  /\ tables[proto][p] # Empty
  /\ a = "any" \/ \E t \in Nodes(tables[proto][p]) : socks[t].la \in {"any", a}

\* pico_socket_bind, which does not look whether the socket has a port
Bind(s, a, p) ==
  /\ Mine(s) /\ (socks[s].bound => Careless)
  /\ ~PortInUse(socks[s].proto, a, p)
  /\ Add([socks EXCEPT ![s].la = a, ![s].lp = p], s)

\* pico_socket_high_port asks whether the port is free for no family: it is
HighPort(s) == IF socks[s].lp = 0 THEN Ports ELSE {socks[s].lp}

\* pico_socket_connect, where a route exists and where it does not
Connect(s, ra, rp) ==
  /\ Mine(s) /\ ~socks[s].conn /\ socks[s].tcp # "listen" /\ MayMove(s)
  /\ \E p \in HighPort(s) :
       LET S == [socks EXCEPT ![s].rp = rp, ![s].ra = ra, ![s].lp = p] IN
       \/ socks' = S /\ UNCHANGED tables
       \/ Add([S EXCEPT ![s].la = Home, ![s].conn = TRUE,
                        ![s].tcp = IF S[s].proto = "tcp" THEN "syn_sent" ELSE "none"], s)

\* pico_socket_listen
Listen(s, b) ==
  /\ Mine(s) /\ InTable(s) /\ socks[s].bound
  /\ socks[s].proto = "tcp" /\ ~socks[s].conn
  /\ socks' = [socks EXCEPT ![s].tcp = "listen", ![s].backlog = b]
  /\ UNCHANGED tables

\* pico_socket_accept, whose loop takes the first of the tree
Acceptable(l) == {c \in Nodes(Tree(l)) : socks[c].parent = l /\ socks[c].tcp = "established"}
Accept(l) ==
  /\ Mine(l) /\ socks[l].bound /\ socks[l].tcp = "listen" /\ Acceptable(l) # {}
  /\ \E c \in Acceptable(l) :
       /\ \A d \in Acceptable(l) : Cmp(socks, c, d) <= 0
       /\ socks' = [socks EXCEPT ![c].parent = 0, ![l].pend = @ - 1]
  /\ UNCHANGED tables

\* pico_socket_sendto of a datagram: whatever the socket was bound to, its
\* address becomes the source address, and unless it is connected the
\* destination's port becomes its remote port, after it has been added.
SendTo(s, rp) ==
  /\ Mine(s) /\ socks[s].proto = "udp" /\ MayMove(s)
  /\ socks[s].conn => rp = socks[s].rp
  /\ LET Sent(S) == IF S[s].conn THEN S ELSE [S EXCEPT ![s].rp = rp]
         S == [socks EXCEPT ![s].la = IF socks[s].conn THEN @ ELSE Home] IN
     IF socks[s].bound THEN socks' = Sent(S) /\ UNCHANGED tables
     ELSE \E p \in Ports :
            LET H == [S EXCEPT ![s].lp = p] IN
            /\ Careless \/ Nodes(tables["udp"][p]) = {}
            /\ tables' = [tables EXCEPT !["udp"][p] = Insert(H, @, s)]
            /\ socks' = Sent([H EXCEPT ![s].bound = TRUE])

\* pico_socket_read of a datagram
Recv(s) == /\ Mine(s) /\ InTable(s) /\ socks[s].bound /\ socks[s].queue > 0
           /\ socks' = [socks EXCEPT ![s].queue = @ - 1]
           /\ UNCHANGED tables

\* (mutant: a socket that is closed is not recognised)
MayShut_Closed(s) == TRUE
MayShut(s) == socks[s].life = "open"

\* pico_socket_shutdown: of a socket without a port it is the end at once.
Shutdown(s, mode) ==
  /\ MayShut(s)
  /\ IF ~socks[s].bound /\ socks[s].life = "open"
     THEN /\ socks' = [socks EXCEPT ![s] = [Nothing EXCEPT !.proto = socks[s].proto,
                                                         !.life = "gone"]]
          /\ UNCHANGED tables
     ELSE IF socks[s].proto = "udp"
     THEN /\ "rd" \in mode
          /\ Del(socks, s)
     ELSE /\ HasPort(s) /\ "wr" \in mode /\ socks[s].tcp = "established"
          /\ socks' = [socks EXCEPT ![s].tcp = "closing"]
          /\ UNCHANGED tables

\* An application closes a socket that has not been freed, once told or not.
UserShutdown(s, mode) == socks[s].life \in {"open", "zombie"}
                         /\ socks[s].parent = 0 /\ socks[s].tcp # "listen"
                         /\ Shutdown(s, mode)
\* pico_socket_close: a listener is deleted at once
Close(s) ==
  /\ socks[s].life \in {"open", "zombie"} /\ socks[s].parent = 0
  /\ IF socks[s].tcp = "listen" THEN Del(socks, s)
     ELSE Shutdown(s, {"rd", "wr"})

-----------------------------------------------------------------------------
(* The stack.                                                              *)

\* socket_tcp_deliver_ipv4 and _ipv6, of a SYN: the first socket of the tree
\* that is connected with the sender, or that listens.
Match(t, a, ra, rp) ==
  \/ socks[t].rp = rp /\ socks[t].ra = ra /\ socks[t].la \in {"any", a}
  \/ socks[t].rp = 0 /\ socks[t].la \in {"any", a}
FirstMatch(p, a, ra, rp) ==
  {t \in Nodes(tables["tcp"][p]) :
     /\ Match(t, a, ra, rp)
     /\ \A u \in Nodes(tables["tcp"][p]) : Match(u, a, ra, rp) => Cmp(socks, t, u) <= 0}

Room(l) == socks[l].pend < socks[l].backlog

\* tcp_syn, with pico_socket_clone and pico_socket_add
Syn(p, a, ra, rp) ==
  \E l \in FirstMatch(p, a, ra, rp), c \in Socks :
    /\ socks[l].tcp = "listen" /\ Room(l)
    /\ socks[c].life = "none" /\ \A r \in Socks : r < c => socks[r].life # "none"
    /\ Add([socks EXCEPT ![l].pend = @ + 1,
              ![c] = [Nothing EXCEPT !.proto = "tcp", !.life = "open", !.conn = TRUE,
                        !.tcp = "syn_recv", !.la = a, !.lp = p, !.ra = ra, !.rp = rp,
                        !.parent = l]], c)

\* The handshake ends: pico_tcp_input of a segment that finds the socket.
Establish(s) == /\ socks[s].tcp \in {"syn_sent", "syn_recv"} /\ InTable(s)
                /\ socks' = [socks EXCEPT ![s].tcp = "established"]
                /\ UNCHANGED tables

\* TCP deletes a socket: a reset, retries used up, the last acknowledgement;
\* or check_socket_sanity finds it too long in SYN_RECV.
TcpEnd(s) == /\ socks[s].life = "open" /\ socks[s].proto = "tcp"
             /\ socks[s].conn /\ socks[s].bound
             /\ Del(socks, s)

\* pico_socket_udp_deliver: the first socket of the tree, and no other
First(t) == IF t[1] # 0 THEN t[1] ELSE t[2]
Datagram(p, a) ==
  LET s == First(tables["udp"][p]) IN
  /\ s # 0 /\ socks[s].la \in {"any", a} /\ socks[s].queue < MaxQueue
  /\ socks' = [socks EXCEPT ![s].queue = @ + 1]
  /\ UNCHANGED tables

\* socket_garbage_collect
Collect(s) == /\ socks[s].gc > 0
              /\ socks' = [socks EXCEPT ![s] = [Nothing EXCEPT !.proto = socks[s].proto,
                                      !.life = "gone", !.gc = socks[s].gc - 1]]
              /\ UNCHANGED tables

Next == \/ \E s \in Socks :
             \/ \E proto \in Protos : Open(s, proto)
             \/ \E a \in Addrs, p \in Ports : Bind(s, a, p)
             \/ \E ra \in Remotes, rp \in Numbers : Connect(s, ra, rp)
             \/ Listen(s, 2) \/ Accept(s) \/ Recv(s) \/ Close(s)
             \/ \E rp \in Numbers : SendTo(s, rp)
             \/ \E mode \in {{"rd"}, {"wr"}} : UserShutdown(s, mode)
             \/ Establish(s) \/ TcpEnd(s) \/ Collect(s)
        \/ \E p \in Ports, a \in Addrs \ {"any"} :
             \/ Datagram(p, a)
             \/ \E ra \in Remotes, rp \in Numbers : Syn(p, a, ra, rp)

Spec == Init /\ [][Next]_vars

-----------------------------------------------------------------------------
(* Properties.                                                             *)

\* A socket is freed by one timer at most, and its counters stay in range.
TypeOK == \A s \in Socks : /\ socks[s].gc \in 0..1
                           /\ socks[s].queue \in 0..MaxQueue
                           /\ socks[s].lp = 0 => ~socks[s].bound

\* The backlog of a listener counts its children that were neither accepted
\* nor deleted, whatever order they are established, accepted and ended in.
PendingAreChildren ==
  \A l \in Socks : socks[l].tcp = "listen" =>
    /\ socks[l].pend = Cardinality({c \in Socks : socks[c].parent = l
                                                  /\ socks[c].life = "open"})
    /\ socks[l].pend <= socks[l].backlog

\* No table has a socket that was deleted: its memory is freed by the timer.
NothingDangles ==
  \A p \in {"udp", "tcp"}, n \in Ports, s \in Socks :
    s \in Nodes(tables[p][n]) => socks[s].life = "open"

SameQuad(s, t) == /\ socks[s].la = socks[t].la /\ socks[s].lp = socks[t].lp
                  /\ socks[s].ra = socks[t].ra /\ socks[s].rp = socks[t].rp

\* The comment of socket_cmp: "The two sockets are coincident if the quad is
\* the same"; one that is not coincident with another is found in the table.
\* (The code breaks it: see the README.)
BoundIsFound ==
  \A s \in Socks : socks[s].life = "open" /\ socks[s].bound =>
    InTable(s) \/ \E t \in Nodes(Tree(s)) : SameQuad(s, t)
=============================================================================
