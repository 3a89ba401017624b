----------------------------- MODULE PicoAccept -----------------------------
(***************************************************************************)
(* A listening TCP socket of the picoTCP adapter: connections that the     *)
(* stack opens in the handler thread, and a server thread that accepts     *)
(* them, registers the new socket and sends its first bytes, as the telnet *)
(* thread does.                                                            *)
(*                                                                         *)
(* For a connection that completes its handshake the stack calls the       *)
(* wakeup of the listener with EV_CONN, and V_accept releases the accept   *)
(* semaphore.  EV_WR of the connection itself stays pending while it has   *)
(* a parent; it is delivered once after the accept, and then cleared.  The *)
(* adapter knows the connection only when socketAccept has run             *)
(* _add_open_socket, in Python, after the C function has returned.         *)
(*                                                                         *)
(* The counters of the accept pipe are written by the handler thread only, *)
(* and accept_count is never read: a V_accept is its release and its       *)
(* write.  V_write and P_write are taken whole (PicoRead opens them up).   *)
(***************************************************************************)
EXTENDS Naturals, FiniteSets, TLC

CONSTANTS Conns,          \* connections peers may open, in any order
          Backlog,        \* the argument of listen()
          PipeCapacity,   \* characters a pipe holds
          MayReset,       \* BOOLEAN: peers may reset connections
          Sends,          \* BOOLEAN: the server sends on what it accepts
          NoConn          \* no connection

ASSUME ConnsAssumption == IsFiniteSet(Conns) /\ NoConn \notin Conns
ASSUME BacklogAssumption == Backlog \in Nat /\ PipeCapacity \in Nat \ {0}
ASSUME FlagsAssumption == MayReset \in BOOLEAN /\ Sends \in BOOLEAN

VARIABLES
  st,           \* st[c]: the stack's state of connection c
  number_of_pending_conn,
  wr,           \* wr[c]: PICO_SOCK_EV_WR is pending
  unacked,      \* unacked[c]: sent bytes wait for their acknowledgement
  accept_semaphore,
  accept_pipe,  \* characters in the accept pipe; nobody reads it
  open_sockets, \* connections the adapter has registered
  write_semaphore, \* write_semaphore[c], of the registered ones
  hpc, hconn,   \* handler thread: control, connection of the event
  upc, uconn    \* server thread: control, connection it serves

stack   == <<st, number_of_pending_conn, wr, unacked>>
adapter == <<accept_semaphore, accept_pipe, open_sockets, write_semaphore>>
handler == <<hpc, hconn>>
server  == <<upc, uconn>>
vars == <<stack, adapter, handler, server>>

Init == /\ st = [c \in Conns |-> "free"]
        /\ number_of_pending_conn = 0
        /\ wr = [c \in Conns |-> FALSE]
        /\ unacked = [c \in Conns |-> FALSE]
        /\ accept_semaphore = 0 /\ accept_pipe = 0
        /\ open_sockets = {}
        /\ write_semaphore = [c \in Conns |-> 0]
        /\ hpc = "tick" /\ hconn = NoConn
        /\ upc = "P_accept" /\ uconn = NoConn

(* The handler thread: stackTick *)

\* tcp_syn: refused when the backlog is full.
\* (mutant: one connection more than the backlog)
Syn_OffByOne(c) ==
  /\ hpc = "tick" /\ st[c] = "free"
  /\ number_of_pending_conn <= Backlog
  /\ st' = [st EXCEPT ![c] = "syn_recv"]
  /\ number_of_pending_conn' = number_of_pending_conn + 1
  /\ UNCHANGED <<wr, unacked, adapter, handler, server>>
Syn(c) == /\ hpc = "tick" /\ st[c] = "free"
          /\ number_of_pending_conn < Backlog
          /\ st' = [st EXCEPT ![c] = "syn_recv"]
          /\ number_of_pending_conn' = number_of_pending_conn + 1
          /\ UNCHANGED <<wr, unacked, adapter, handler, server>>

\* tcp_first_ack: the handshake is complete, EV_CONN to the listener.
FirstAck(c) == /\ hpc = "tick" /\ st[c] = "syn_recv"
               /\ st' = [st EXCEPT ![c] = "established"]
               /\ hpc' = "V_accept" /\ hconn' = c
               /\ UNCHANGED <<number_of_pending_conn, wr, unacked, adapter, server>>

HasParent(c) == st[c] \in {"syn_recv", "established"}

\* A reset, or the handshake timeout of check_socket_sanity: the socket is
\* deleted; EV_ERR wakes nobody.
Reset(c) == /\ hpc = "tick"
            /\ MayReset \/ st[c] = "syn_recv"
            /\ st[c] \in {"syn_recv", "established", "accepted"}
            /\ st' = [st EXCEPT ![c] = "closed"]
            /\ number_of_pending_conn' =
                 IF HasParent(c) THEN number_of_pending_conn - 1
                                 ELSE number_of_pending_conn
            /\ wr' = [wr EXCEPT ![c] = FALSE]
            /\ UNCHANGED <<unacked, adapter, handler, server>>

\* (mutant: V_accept releases as V_read does, unless the semaphore is up)
V_accept_Unlock ==
  /\ hpc = "V_accept"
  /\ accept_semaphore' = IF accept_semaphore > 0 THEN accept_semaphore
                                                 ELSE 1
  /\ hpc' = "V_pipe"
  /\ UNCHANGED <<stack, accept_pipe, open_sockets, write_semaphore, hconn, server>>
V_accept == /\ hpc = "V_accept"
            /\ accept_semaphore' = accept_semaphore + 1
            /\ hpc' = "V_pipe"
            /\ UNCHANGED <<stack, accept_pipe, open_sockets, write_semaphore,
                           hconn, server>>

\* os.write blocks when the pipe is full.  The end of tcp_first_ack then leaves
\* EV_WR of the connection pending.
\* (mutant: two characters for every connection)
V_pipe_Twice ==
  /\ hpc = "V_pipe"
  /\ accept_pipe + 1 < PipeCapacity
  /\ accept_pipe' = accept_pipe + 2
  /\ wr' = [wr EXCEPT ![hconn] = TRUE]
  /\ hpc' = "tick" /\ hconn' = NoConn
  /\ UNCHANGED <<st, number_of_pending_conn, unacked, accept_semaphore,
                 open_sockets, write_semaphore, server>>
V_pipe == /\ hpc = "V_pipe"
          /\ accept_pipe < PipeCapacity
          /\ accept_pipe' = accept_pipe + 1
          /\ wr' = [wr EXCEPT ![hconn] = TRUE]
          /\ hpc' = "tick" /\ hconn' = NoConn
          /\ UNCHANGED <<st, number_of_pending_conn, unacked, accept_semaphore,
                         open_sockets, write_semaphore, server>>

\* pico_sockets_loop_tcp delivers what is pending on an accepted socket.
\* With a parent it is delivered too, but dummy_wakeup_callback finds no
\* name for the socket and the event stays pending: nothing changes.
Deliver(c) == /\ hpc = "tick"
              /\ st[c] = "accepted" /\ wr[c]
              /\ hpc' = "V_write" /\ hconn' = c
              /\ UNCHANGED <<stack, adapter, server>>

\* V_write releases unless the semaphore is up.  On a name that is not in
\* open_sockets the KeyError is swallowed.  Either way the stack then clears
\* the event.
V_write == /\ hpc = "V_write"
           /\ write_semaphore' =
                IF hconn \in open_sockets /\ write_semaphore[hconn] = 0
                  THEN [write_semaphore EXCEPT ![hconn] = 1]
                  ELSE write_semaphore
           /\ wr' = [wr EXCEPT ![hconn] = FALSE]
           /\ hpc' = "tick" /\ hconn' = NoConn
           /\ UNCHANGED <<st, number_of_pending_conn, unacked, accept_semaphore,
                          accept_pipe, open_sockets, server>>

\* tcp_ack: acknowledged bytes make the socket writable again.
Ack(c) == /\ hpc = "tick" /\ st[c] = "accepted" /\ unacked[c]
          /\ unacked' = [unacked EXCEPT ![c] = FALSE]
          /\ hpc' = "V_write" /\ hconn' = c
          /\ UNCHANGED <<st, number_of_pending_conn, wr, adapter, server>>

Callback == V_accept \/ V_pipe \/ V_write
Tick(c) == Syn(c) \/ FirstAck(c) \/ Reset(c) \/ Deliver(c) \/ Ack(c)

(* The server thread *)

\* socketAccept: P_accept, then pycoclib.socketAccept
\* (mutant: the accept does not wait for its token)
P_accept_NoWait ==
  /\ upc = "P_accept"
  /\ accept_semaphore' = IF accept_semaphore > 0 THEN accept_semaphore - 1 ELSE 0
  /\ upc' = "accept"
  /\ UNCHANGED <<stack, accept_pipe, open_sockets, write_semaphore, handler, uconn>>
P_accept == /\ upc = "P_accept" /\ accept_semaphore > 0
            /\ accept_semaphore' = accept_semaphore - 1
            /\ upc' = "accept"
            /\ UNCHANGED <<stack, accept_pipe, open_sockets, write_semaphore,
                           handler, uconn>>

\* Any established child of the listener.  When there is none the C function
\* returns an error number, and indexing it in Python raises.
Accept ==
  /\ upc = "accept"
  /\ \/ \E c \in Conns :
          /\ st[c] = "established"
          /\ st' = [st EXCEPT ![c] = "accepted"]
          /\ number_of_pending_conn' = number_of_pending_conn - 1
          /\ upc' = "register" /\ uconn' = c
     \/ /\ \A c \in Conns : st[c] # "established"
        /\ upc' = "raised"
        /\ UNCHANGED <<st, number_of_pending_conn, uconn>>
  /\ UNCHANGED <<wr, unacked, adapter, handler>>

\* _add_open_socket: a fresh entry with its semaphores down
Register == /\ upc = "register"
            /\ open_sockets' = open_sockets \cup {uconn}
            /\ write_semaphore' = [write_semaphore EXCEPT ![uconn] = 0]
            /\ upc' = IF Sends THEN "P_write" ELSE "P_accept"
            /\ UNCHANGED <<stack, accept_semaphore, accept_pipe, handler, uconn>>

\* socketSend: P_write, then pycoclib.socketSend; next connection
P_write == /\ upc = "P_write" /\ write_semaphore[uconn] > 0
           /\ write_semaphore' = [write_semaphore EXCEPT ![uconn] = @ - 1]
           /\ upc' = "send"
           /\ UNCHANGED <<stack, accept_semaphore, accept_pipe, open_sockets,
                          handler, uconn>>
Send == /\ upc = "send"
        /\ unacked' = [unacked EXCEPT ![uconn] = (st[uconn] = "accepted")]
        /\ upc' = "P_accept"
        /\ UNCHANGED <<st, number_of_pending_conn, wr, adapter, handler, uconn>>

Server == P_accept \/ Accept \/ Register \/ P_write \/ Send

Next == Callback \/ Server \/ \E c \in Conns : Tick(c)

\* Both threads are scheduled.  Peers need not do anything.
Fairness == WF_vars(Callback) /\ WF_vars(Server)
Spec == Init /\ [][Next]_vars
FairSpec == Spec /\ Fairness

\* A server that only accepts (Sends is FALSE) takes no step of a send, and
\* nothing is acknowledged: what is left of Next and its fairness.
OnlyAccepts == P_accept \/ Accept \/ Register
AcceptNext == \/ Callback
              \/ OnlyAccepts
              \/ \E c \in Conns : Syn(c) \/ FirstAck(c) \/ Reset(c) \/ Deliver(c)
AcceptSpec == Init /\ [][AcceptNext]_vars /\ WF_vars(Callback) /\ WF_vars(OnlyAccepts)

\* No action tells two connections apart.
ConnSymmetry == Permutations(Conns)

-----------------------------------------------------------------------------
\* The states the stack, the adapter and the two threads can be in; the write
\* semaphore, released through unlock_sem, never goes above one.
TypeOK ==
  /\ st \in [Conns -> {"free", "syn_recv", "established", "accepted", "closed"}]
  /\ number_of_pending_conn \in Nat
  /\ wr \in [Conns -> BOOLEAN] /\ unacked \in [Conns -> BOOLEAN]
  /\ accept_semaphore \in Nat /\ accept_pipe \in 0..PipeCapacity
  /\ open_sockets \subseteq Conns
  /\ write_semaphore \in [Conns -> {0, 1}]
  /\ hpc \in {"tick", "V_accept", "V_pipe", "V_write"}
  /\ hconn \in Conns \cup {NoConn}
  /\ hpc \in {"V_accept", "V_pipe", "V_write"} => hconn \in Conns
  /\ upc \in {"P_accept", "accept", "register", "P_write", "send", "raised"}
  /\ uconn \in Conns \cup {NoConn}
  /\ upc \in {"register", "P_write", "send"} => uconn \in Conns

\* The listener's count is the number of its children that nobody has
\* accepted, and never exceeds the backlog.
PendingCounted ==
  /\ number_of_pending_conn = Cardinality({c \in Conns : HasParent(c)})
  /\ number_of_pending_conn <= Backlog

\* The tokens of the accept semaphore, with the one the server has taken and
\* the one the handler is about to release, are the established connections
\* that wait to be accepted.
Tokens == accept_semaphore + (IF upc = "accept" THEN 1 ELSE 0)
                           + (IF hpc = "V_accept" THEN 1 ELSE 0)
TokenPerConnection ==
  Tokens = Cardinality({c \in Conns : st[c] = "established"})

\* accept returns a connection, whatever the order of events.
AcceptNeverRaises == upc # "raised"

\* Every established connection is accepted.
EveryConnectionAccepted ==
  \A c \in Conns : st[c] = "established" ~> st[c] = "accepted"

\* The handler thread is never caught in a callback for good, although nobody
\* empties the accept pipe: in a run without it the whole stack stands still.
HandlerReturns == hpc # "tick" ~> hpc = "tick"

\* A server that waits to send on a writable socket will be told so.
WritableIsReported ==
  upc = "P_write" /\ st[uconn] = "accepted" /\ ~unacked[uconn] =>
     write_semaphore[uconn] > 0 \/ wr[uconn] \/ hconn = uconn
==============================================================================
