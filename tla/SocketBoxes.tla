---------------------------- MODULE SocketBoxes -----------------------------
(***************************************************************************)
(* TCP sockets from the picoTCP adapter down to the stack: the table       *)
(* open_sockets and its pipes (picotcpadapter.py), the boxes that give a   *)
(* name to a socket of the stack (pycoclib.c, pycoutils.c), and the memory *)
(* of these sockets, which the stack frees by itself after a reset.        *)
(*                                                                         *)
(* A name is used by one thread.  C code is atomic; a callback loses the   *)
(* interpreter lock at os.write.  One pipe of an entry stands for both.    *)
(* What the semaphores guarantee is in PicoRead and PicoAccept; that a     *)
(* connection is delivered before it has an entry is there as well.        *)
(***************************************************************************)
EXTENDS Integers, Sequences, FiniteSets, FiniteSetsExt

CONSTANTS Names,
          Ptrs,         \* the chunks that malloc returns for sockets
          MaxTokens     \* bound on the releases of a semaphore not yet taken

VARIABLES stack,        \* the sockets of the stack
          boxes,        \* the list of socket boxes, from the head
          open_sockets, \* the table of the adapter
          fds,          \* the open descriptors: the name whose pipe it is
          thread,       \* where the thread of each name is
          handler,      \* the callback that runs
          wasReset,     \* a connection has been reset
          stray         \* a character went into the wrong pipe, or none

vars == <<stack, boxes, open_sockets, fds, thread, handler, wasReset, stray>>
python == <<open_sockets, fds, thread>>

Nobody == "nobody"
Unused == [st |-> "free", owner |-> Nobody, parent |-> Nobody]
NoEntry == [open |-> FALSE, fd |-> 0, tokens |-> 0]
NoCallback == [name |-> Nobody, ptr |-> Nobody, fd |-> 0]

Init == /\ stack = [p \in Ptrs |-> Unused]
        /\ boxes = <<>>
        /\ open_sockets = [n \in Names |-> NoEntry]
        /\ fds = [i \in 1..Cardinality(Names) |-> Nobody]
        /\ thread = [n \in Names |-> "none"]
        /\ handler = NoCallback
        /\ wasReset = FALSE /\ stray = FALSE

-----------------------------------------------------------------------------
(* Boxes                                                                   *)

\* socketBoxFind, and the pointer in the box; Nobody if there is none
BoxOf(n) == LET at == {i \in 1..Len(boxes) : boxes[i].name = n}
            IN IF at = {} THEN Nobody ELSE boxes[Min(at)].ptr
\* socketFindAddress: the first box with that pointer
NameOf(p) == LET at == {i \in 1..Len(boxes) : boxes[i].ptr = p}
             IN IF at = {} THEN Nobody ELSE boxes[Min(at)].name
BoxAdd(n, p) == boxes' = Append(boxes, [name |-> n, ptr |-> p])
\* socketBoxDelete: the first box with that name, of those there is one of
BoxDelete(n) == LET i == Min({j \in 1..Len(boxes) : boxes[j].name = n})
                IN boxes' = SubSeq(boxes, 1, i - 1) \o SubSeq(boxes, i + 1, Len(boxes))

\* _add_open_socket; a new descriptor is the least that is free.
AddOpenSocket(n) ==
  LET fd == Min({i \in DOMAIN fds : fds[i] = Nobody})
  IN /\ open_sockets' = [open_sockets EXCEPT ![n] = [open |-> TRUE, fd |-> fd, tokens |-> 0]]
     /\ fds' = [fds EXCEPT ![fd] = n]

-----------------------------------------------------------------------------
(* The calls                                                               *)

\* socketOpen
Open(n) == /\ thread[n] = "none" /\ ~open_sockets[n].open
           /\ \E p \in Ptrs :
                /\ stack[p].st = "free"
                /\ stack' = [stack EXCEPT ![p] = [Unused EXCEPT !.st = "idle", !.owner = n]]
                /\ BoxAdd(n, p)
           /\ AddOpenSocket(n)
           /\ thread' = [thread EXCEPT ![n] = "open"]
           /\ UNCHANGED <<handler, wasReset, stray>>

\* The stack has no memory: the entry is made before the error is raised.
OpenFails(n) == /\ thread[n] = "none" /\ ~open_sockets[n].open
                /\ \A p \in Ptrs : stack[p].st # "free"
                /\ AddOpenSocket(n)
                /\ UNCHANGED <<stack, boxes, thread, handler, wasReset, stray>>

\* A name that has an entry is open already.
OpenAgain(n) == /\ thread[n] = "none" /\ open_sockets[n].open
                /\ thread' = [thread EXCEPT ![n] = "open"]
                /\ UNCHANGED <<stack, boxes, open_sockets, fds, handler, wasReset, stray>>

\* socketConnect, up to P_accept, and socketListen.  Every error is caught or
\* raised and leaves the socket as it is.
Start(n, st, at) ==
  LET p == BoxOf(n) IN
  /\ thread[n] = "open"
  /\ p # Nobody /\ stack[p].st = "idle"
  /\ stack' = [stack EXCEPT ![p].st = st]
  /\ thread' = [thread EXCEPT ![n] = at]
  /\ UNCHANGED <<boxes, open_sockets, fds, handler, wasReset, stray>>
Connect(n) == Start(n, "syn", "connecting")
Listen(n) == Start(n, "listen", "listening")

\* P_accept, of connect() or of accept()
Token(n) == /\ open_sockets[n].tokens > 0
            /\ open_sockets' = [open_sockets EXCEPT ![n].tokens = @ - 1]
\* (mutant: connect does not wait)
Connected_NoWait(n) ==
  /\ thread[n] = "connecting"
  /\ thread' = [thread EXCEPT ![n] = "connected"]
  /\ UNCHANGED <<stack, boxes, open_sockets, fds, handler, wasReset, stray>>
Connected(n) == /\ thread[n] = "connecting"
                /\ Token(n)
                /\ thread' = [thread EXCEPT ![n] = "connected"]
                /\ UNCHANGED <<stack, boxes, fds, handler, wasReset, stray>>

\* P_accept of socketAccept
Waited(n) == /\ thread[n] = "listening"
             /\ Token(n)
             /\ thread' = [thread EXCEPT ![n] = "accepting"]
             /\ UNCHANGED <<stack, boxes, fds, handler, wasReset, stray>>
\* The rest of it: a child of the listener gets a new name, m.
Accept(n, m) ==
  /\ thread[n] = "accepting"
  /\ thread[m] = "none" /\ ~open_sockets[m].open
  /\ \E p \in Ptrs :
       /\ stack[p].st = "est" /\ stack[p].owner = Nobody /\ stack[p].parent = BoxOf(n)
       /\ stack' = [stack EXCEPT ![p].owner = m]
       /\ BoxAdd(m, p)
  /\ AddOpenSocket(m)
  /\ thread' = [thread EXCEPT ![n] = "listening", ![m] = "connected"]
  /\ UNCHANGED <<handler, wasReset, stray>>
\* There is no child any more: result[0] raises.
AcceptRaises(n) ==
  /\ thread[n] = "accepting"
  /\ ~\E p \in Ptrs : stack[p].st = "est" /\ stack[p].owner = Nobody /\ stack[p].parent = BoxOf(n)
  /\ thread' = [thread EXCEPT ![n] = "listening"]
  /\ UNCHANGED <<stack, boxes, open_sockets, fds, handler, wasReset, stray>>

\* pycoclib.socketClose: an unbound socket is freed, another one first closes
\* its connection.  A pointer to freed memory is taken for a closed socket.
Closed(s) == IF s.st \in {"idle", "free"} THEN Unused ELSE [s EXCEPT !.st = "dead"]
\* (mutant: the box stays)
CloseBox_Stays(n) ==
  /\ thread[n] \in {"open", "connected", "listening"}
  /\ BoxOf(n) # Nobody
  /\ stack' = [stack EXCEPT ![BoxOf(n)] = Closed(@)]
  /\ thread' = [thread EXCEPT ![n] = "closing"]
  /\ UNCHANGED <<boxes, open_sockets, fds, handler, wasReset, stray>>
CloseBox(n) ==
  /\ thread[n] \in {"open", "connected", "listening"}
  /\ BoxOf(n) # Nobody
  /\ stack' = [stack EXCEPT ![BoxOf(n)] = Closed(@)]
  /\ BoxDelete(n)
  /\ thread' = [thread EXCEPT ![n] = "closing"]
  /\ UNCHANGED <<open_sockets, fds, handler, wasReset, stray>>
\* No box has the name: the adapter goes on all the same.
CloseNothing(n) ==
  /\ thread[n] = "open" /\ BoxOf(n) = Nobody
  /\ thread' = [thread EXCEPT ![n] = "closing"]
  /\ UNCHANGED <<stack, boxes, open_sockets, fds, handler, wasReset, stray>>
\* _close_pipes, and the entry goes
\* (mutant: the pipe stays open)
CloseEntry_KeepsPipe(n) ==
  /\ thread[n] = "closing"
  /\ open_sockets' = [open_sockets EXCEPT ![n] = NoEntry]
  /\ thread' = [thread EXCEPT ![n] = "none"]
  /\ UNCHANGED <<stack, boxes, fds, handler, wasReset, stray>>
CloseEntry(n) ==
  /\ thread[n] = "closing"
  /\ fds' = [fds EXCEPT ![open_sockets[n].fd] = Nobody]
  /\ open_sockets' = [open_sockets EXCEPT ![n] = NoEntry]
  /\ thread' = [thread EXCEPT ![n] = "none"]
  /\ UNCHANGED <<stack, boxes, handler, wasReset, stray>>

-----------------------------------------------------------------------------
(* The handler thread                                                      *)

Idle == handler = NoCallback

\* dummy_wakeup_callback, up to the pipe: nothing happens without a box, and
\* a name without an entry is a KeyError.  conn says that it is EV_CONN, for
\* which V_accept releases the semaphore first.
Wakeup(p, conn) ==
  LET n == NameOf(p) IN
  IF n = Nobody \/ ~open_sockets[n].open THEN UNCHANGED <<open_sockets, handler>>
  ELSE /\ handler' = [name |-> n, ptr |-> p, fd |-> open_sockets[n].fd]
       /\ open_sockets' =
            IF conn THEN [open_sockets EXCEPT ![n].tokens = @ + 1] ELSE open_sockets

\* os.write in V_accept or V_read, when the lock is back
Write == /\ ~Idle
         /\ stray' = (stray \/ fds[handler.fd] # handler.name)
         /\ handler' = NoCallback
         /\ UNCHANGED <<stack, boxes, python, wasReset>>

\* tcp_synack
Handshake(p) == /\ Idle /\ stack[p].st = "syn"
                /\ stack' = [stack EXCEPT ![p].st = "est"]
                /\ Wakeup(p, TRUE)
                /\ UNCHANGED <<boxes, fds, thread, wasReset, stray>>
\* tcp_rst, tcp_force_closed: EV_ERR, which _socket_callback passes over
Reset(p) == /\ Idle /\ stack[p].st \in {"syn", "est"}
            /\ stack' = [stack EXCEPT ![p].st = "dead"]
            /\ wasReset' = TRUE
            /\ UNCHANGED <<boxes, python, handler, stray>>
\* tcp_syn and tcp_first_ack: a child of the listener l
Incoming(l, p) ==
  /\ Idle /\ stack[l].st = "listen" /\ stack[p].st = "free"
  /\ \A n \in Names : open_sockets[n].tokens < MaxTokens
  /\ stack' = [stack EXCEPT ![p] = [st |-> "est", owner |-> Nobody, parent |-> l]]
  /\ Wakeup(l, TRUE)
  /\ UNCHANGED <<boxes, fds, thread, wasReset, stray>>
\* Data arrives: EV_RD
Data(p) == /\ Idle /\ stack[p].st = "est"
           /\ Wakeup(p, FALSE)
           /\ UNCHANGED <<stack, boxes, fds, thread, wasReset, stray>>
\* socket_garbage_collect
Free(p) == /\ Idle /\ stack[p].st = "dead"
           /\ stack' = [stack EXCEPT ![p] = Unused]
           /\ UNCHANGED <<boxes, python, handler, wasReset, stray>>

Next == \/ Write
        \/ \E p \in Ptrs : \/ Handshake(p) \/ Reset(p) \/ Data(p) \/ Free(p)
                           \/ \E l \in Ptrs : Incoming(l, p)
        \/ \E n \in Names :
             \/ Open(n) \/ OpenFails(n) \/ OpenAgain(n) \/ Connect(n) \/ Listen(n)
             \/ Connected(n) \/ Waited(n) \/ AcceptRaises(n)
             \/ \E m \in Names : Accept(n, m)
             \/ CloseBox(n) \/ CloseNothing(n) \/ CloseEntry(n)

Spec == Init /\ [][Next]_vars

-----------------------------------------------------------------------------
\* Every entry of the adapter has a pipe of its own, and no pipe outlives its
\* entry (_add_open_socket, _close_pipes).
PipePerEntry ==
  \A i \in DOMAIN fds : \A n \in Names :
    fds[i] = n <=> open_sockets[n].open /\ open_sockets[n].fd = i

\* As long as nothing was reset, the callback of a wakeup is given the name
\* that the socket of the stack was opened or accepted under.
WakeupFindsOwner == ~Idle /\ ~wasReset => stack[handler.ptr].owner = handler.name
                                           \/ stack[handler.ptr].st \in {"dead", "free"}

\* A socket on which connect() returned, or that accept() returned, stands for
\* a connection: nothing else takes it away unless it is reset.
ConnectedIsEstablished ==
  ~wasReset => \A n \in Names : thread[n] = "connected" =>
    /\ BoxOf(n) # Nobody
    /\ stack[BoxOf(n)].st = "est" /\ stack[BoxOf(n)].owner = n

\* The same with resets: the box of a socket that was reset is still there when
\* the stack gives its memory to another.
\* (The code breaks it: see the README.)
CallbackIsOwners ==
  ~Idle => stack[handler.ptr].owner = handler.name
           \/ stack[handler.ptr].st \in {"dead", "free"}

\* A character of a callback goes into the pipe of its socket.
\* (The code breaks it: see the README.)
NoStrayCharacter == ~stray

\* After socketOpen returns without an error there is a socket.
\* (The code breaks it: see the README.)
OpenHasBox == \A n \in Names : thread[n] = "open" => BoxOf(n) # Nobody
=============================================================================
