----------------------------- MODULE LwipSockets -----------------------------
(***************************************************************************)
(* The sockets of the program over LWIPv6: class Socket of socket.py, with *)
(* its names and its dictionary existing_sockets, and the dictionary       *)
(* open_sockets of lwipv6adapter.py, from a name to a descriptor of the    *)
(* stack and the pipes of the socket.  Threads open, accept and close      *)
(* sockets; nothing is locked, and each step on shared state is an action. *)
(*                                                                         *)
(* A default name is <<"default", n>>; an accepted connection has the name *)
(* <<"fd", n>> of its descriptor.  The stack gives the lowest descriptor   *)
(* that is free.                                                           *)
(***************************************************************************)
EXTENDS Integers, FiniteSets, FiniteSetsExt

CONSTANTS Threads,
          MaxSockets     \* Socket objects in a behaviour

VARIABLES DEFAULT_NAME_COUNTER, existing_sockets, open_sockets,
          fds,       \* descriptors open in the stack
          pipes,     \* objects whose pipes are open
          obj,       \* the Socket objects
          thr        \* where each thread is, and its local variables

vars == <<DEFAULT_NAME_COUNTER, existing_sockets, open_sockets, fds, pipes, obj, thr>>

Objects == 1..MaxSockets
Idle == [pc |-> "idle", o |-> 0, n |-> 0, fd |-> 0]

Init == /\ DEFAULT_NAME_COUNTER = 0
        /\ existing_sockets = {} /\ open_sockets = {}
        /\ fds = {} /\ pipes = {}
        /\ obj = [o \in Objects |-> [name |-> <<"none", 0>>, st |-> "new"]]
        /\ thr = [t \in Threads |-> Idle]

\* A dictionary is a set of records with a name; a name has one at most.
Get(dict, name) == {e \in dict : e.name = name}
Put(dict, e) == (dict \ Get(dict, e.name)) \cup {e}

At(t, pc) == thr[t].pc = pc
Goto(t, pc) == thr' = [thr EXCEPT ![t].pc = pc]
Name(t) == obj[thr[t].o].name
FreeFd == Min((1..MaxSockets) \ fds)
Raise(t, st) == /\ thr' = [thr EXCEPT ![t] = Idle]
                /\ obj' = [obj EXCEPT ![thr[t].o].st = st]

-----------------------------------------------------------------------------
(* Socket(): the name, the descriptor, the registration.                   *)

Make(t, o, name, pc, fd) ==
  /\ At(t, "idle") /\ obj[o].st = "new"
  /\ \A p \in Objects : p < o => obj[p].st # "new"
  /\ obj' = [obj EXCEPT ![o] = [name |-> name, st |-> "made"]]
  /\ thr' = [thr EXCEPT ![t] = [Idle EXCEPT !.pc = pc, !.o = o, !.fd = fd]]

\* self.name + str(Socket.DEFAULT_NAME_COUNTER)
New(t) == \E o \in Objects :
  /\ Make(t, o, <<"default", DEFAULT_NAME_COUNTER>>, "load", 0)
  /\ UNCHANGED <<DEFAULT_NAME_COUNTER, existing_sockets, open_sockets, fds, pipes>>

\* DEFAULT_NAME_COUNTER = DEFAULT_NAME_COUNTER + 1
Load(t) == /\ At(t, "load")
           /\ thr' = [thr EXCEPT ![t].pc = "store", ![t].n = DEFAULT_NAME_COUNTER]
           /\ UNCHANGED <<DEFAULT_NAME_COUNTER, existing_sockets, open_sockets, fds, pipes, obj>>
\* (mutant: the counter does not change)
Store_Same(t) == /\ At(t, "store") /\ DEFAULT_NAME_COUNTER' = thr[t].n
                 /\ Goto(t, "open")
                 /\ UNCHANGED <<existing_sockets, open_sockets, fds, pipes, obj>>
Store(t) == /\ At(t, "store") /\ DEFAULT_NAME_COUNTER' = thr[t].n + 1
            /\ Goto(t, "open")
            /\ UNCHANGED <<existing_sockets, open_sockets, fds, pipes, obj>>

\* socketOpen: a name that is there "was already initialized eg. from accept"
socketOpen(t) ==
  /\ At(t, "open")
  /\ IF Get(open_sockets, Name(t)) # {}
     THEN Goto(t, "register") /\ UNCHANGED fds
     ELSE /\ thr' = [thr EXCEPT ![t].pc = "add", ![t].fd = FreeFd]
          /\ fds' = fds \cup {FreeFd}
  /\ UNCHANGED <<DEFAULT_NAME_COUNTER, existing_sockets, open_sockets, pipes, obj>>

\* _add_open_socket, with the descriptor
AddOpenSocket(t) ==
  /\ At(t, "add")
  /\ open_sockets' = Put(open_sockets, [name |-> Name(t), fd |-> thr[t].fd, of |-> thr[t].o])
  /\ pipes' = pipes \cup {thr[t].o}
  /\ Goto(t, "register")
  /\ UNCHANGED <<DEFAULT_NAME_COUNTER, existing_sockets, fds, obj>>
Register(t) ==
  /\ At(t, "register")
  /\ existing_sockets' = Put(existing_sockets, [name |-> Name(t), of |-> thr[t].o])
  /\ Raise(t, "open")
  /\ UNCHANGED <<DEFAULT_NAME_COUNTER, open_sockets, fds, pipes>>

\* socketAccept, of a listener that is open: the stack has made a descriptor
Accept(t) == \E o \in Objects :
  /\ \E l \in Objects : obj[l].st = "open" /\ obj[l].name[1] = "default"
  /\ Make(t, o, <<"fd", FreeFd>>, "add", FreeFd)
  /\ fds' = fds \cup {FreeFd}
  /\ UNCHANGED <<DEFAULT_NAME_COUNTER, existing_sockets, open_sockets, pipes>>

-----------------------------------------------------------------------------
(* close(): a key that is not there raises.                                *)

Close(t) == \E o \in Objects :
  /\ At(t, "idle") /\ obj[o].st = "open"
  /\ existing_sockets' = existing_sockets \ Get(existing_sockets, obj[o].name)
  /\ IF Get(existing_sockets, obj[o].name) = {}
     THEN obj' = [obj EXCEPT ![o].st = "raised"] /\ UNCHANGED thr
     ELSE /\ obj' = [obj EXCEPT ![o].st = "closing"]
          /\ thr' = [thr EXCEPT ![t] = [Idle EXCEPT !.pc = "lwip_close", !.o = o]]
  /\ UNCHANGED <<DEFAULT_NAME_COUNTER, open_sockets, fds, pipes>>

Found(t, next) == IF Get(open_sockets, Name(t)) = {} THEN Raise(t, "raised")
                  ELSE Goto(t, next) /\ UNCHANGED obj
LwipClose(t) ==
  /\ At(t, "lwip_close") /\ Found(t, "close_pipes")
  /\ fds' = fds \ {e.fd : e \in Get(open_sockets, Name(t))}
  /\ UNCHANGED <<DEFAULT_NAME_COUNTER, existing_sockets, open_sockets, pipes>>
\* (mutant: the pipes are forgotten)
ClosePipes_Forgotten(t) ==
  /\ At(t, "close_pipes") /\ Found(t, "delete")
  /\ UNCHANGED <<DEFAULT_NAME_COUNTER, existing_sockets, open_sockets, fds, pipes>>
ClosePipes(t) ==
  /\ At(t, "close_pipes") /\ Found(t, "delete")
  /\ pipes' = pipes \ {e.of : e \in Get(open_sockets, Name(t))}
  /\ UNCHANGED <<DEFAULT_NAME_COUNTER, existing_sockets, open_sockets, fds>>
\* (mutant: the entry stays)
DelEntry_Kept(t) ==
  /\ At(t, "delete") /\ Raise(t, "closed")
  /\ UNCHANGED <<DEFAULT_NAME_COUNTER, existing_sockets, open_sockets, fds, pipes>>
DelEntry(t) ==
  /\ At(t, "delete") /\ Raise(t, "closed")
  /\ open_sockets' = open_sockets \ Get(open_sockets, Name(t))
  /\ UNCHANGED <<DEFAULT_NAME_COUNTER, existing_sockets, fds, pipes>>

Next == \E t \in Threads :
  \/ New(t) \/ Load(t) \/ Store(t) \/ socketOpen(t) \/ AddOpenSocket(t) \/ Register(t)
  \/ Accept(t) \/ Close(t) \/ LwipClose(t) \/ ClosePipes(t) \/ DelEntry(t)

Spec == Init /\ [][Next]_vars

-----------------------------------------------------------------------------
(* Properties.                                                             *)

\* An open Socket has an entry that was made for it, with a descriptor that
\* is open and that no other has, and its pipes.
OwnSocket == \A o \in Objects : obj[o].st = "open" =>
  \E e \in Get(open_sockets, obj[o].name) :
    /\ e.of = o /\ e.fd \in fds /\ o \in pipes
    /\ \A d \in open_sockets : d.fd = e.fd => d = e

\* The descriptors of the stack and the pipes are those of sockets that are
\* open, being opened or being closed: nothing leaks.
NothingLeaks ==
  /\ pipes \subseteq {e.of : e \in open_sockets}
  /\ fds \subseteq {e.fd : e \in open_sockets} \cup {thr[t].fd : t \in Threads}

\* The comment of socketOpen, "This means the socket was already initialized
\* eg. from accept": of the sockets a name is generated for, none is there.
NamesAreNew == \A t \in Threads : At(t, "open") => Get(open_sockets, Name(t)) = {}
=============================================================================
