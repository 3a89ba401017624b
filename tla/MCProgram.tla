----------------------------- MODULE MCProgram ------------------------------
(***************************************************************************)
(* The modules about the program and its adapters: each behaviour is one   *)
(* of the component that part names. PicoAccept is the module extended     *)
(* here, with resets and a server that sends; in MgmtChannel the telnet    *)
(* and the web thread share the socket. Connections are interchangeable,   *)
(* and so are the two threads.                                             *)
(***************************************************************************)
EXTENDS PicoAccept, Integers, Sequences

CONSTANTS Parts,                                  \* the components of this run
          Clients,                                \* the threads that share the socket to the switch
          Chunks, NoChunk, ListNames, ListForms,  \* of PycoList
          FrontClients, Options, Stacks,          \* of FrontEnds
          LwipThreads, MaxSockets,                \* of LwipSockets
          Length, Newlines, Sizes, RBufSize, WBufSize, Slice, Written,  \* of FileObject
          SocketNames, Ptrs, MaxTokens            \* of SocketBoxes

VARIABLES part,   \* the component that runs
  toSwitch, fromSwitch, closed, calls, pc, req, buffer, resp, result,
  HISTORY, HISTORY_HTML, HELP_COMMANDS,
  list, head, tail, next, name, live, held, failed, faulted,
  front_stack, main, resources, front, conn, login, commands,
  DEFAULT_NAME_COUNTER, existing_sockets, lwip_sockets, fds, pipes, obj, thr,
  unread, rbuf, call, given, last, lost, wbuf, flushing, sent, put,
  memory, boxes, entries, descriptors, threads, callback, wasReset, stray

\* What read() and readline() are asked for: everything, or some characters.
SomeSizes == {-1, 2, 3}

Mgmt == INSTANCE MgmtChannel_proofs WITH UserCommands <- {"print", "blank"},
  DataCommands <- {"print"}, Blank <- "blank", MaxGlued <- 2, MaxCalls <- 2
Lists == INSTANCE PycoList WITH Nodes <- Chunks, Names <- ListNames,
  NULL <- NoChunk, Lists <- ListForms
Fronts == INSTANCE FrontEnds WITH Clients <- FrontClients,
  stack <- front_stack, held <- resources
Lwip == INSTANCE LwipSockets WITH Threads <- LwipThreads,
  open_sockets <- lwip_sockets
File == INSTANCE FileObject
Boxes == INSTANCE SocketBoxes WITH Names <- SocketNames, stack <- memory,
  handler <- callback, fds <- descriptors, thread <- threads,
  open_sockets <- entries

mgmtVars == <<toSwitch, fromSwitch, closed, calls, pc, req, buffer, resp,
              result, HISTORY, HISTORY_HTML, HELP_COMMANDS>>
listVars == <<list, head, tail, next, name, live, held, failed, faulted>>
frontVars == <<front_stack, main, resources, front, conn, login, commands>>
lwipVars == <<DEFAULT_NAME_COUNTER, existing_sockets, lwip_sockets, fds,
              pipes, obj, thr>>
fileVars == <<unread, rbuf, call, given, last, lost, wbuf, flushing, sent,
              put>>
boxVars == <<memory, boxes, entries, descriptors, threads, callback,
             wasReset, stray>>
programVars == <<part, vars, mgmtVars, listVars, frontVars, lwipVars,
                       fileVars, boxVars>>

Symmetry == ConnSymmetry \cup Permutations(Clients)

\* Components that are not chosen start in one state only.
ProgramInit == /\ part \in Parts
               /\ Init
               /\ Mgmt!Init
               /\ Lists!Init
               /\ Fronts!Init
               /\ Lwip!Init
               /\ File!Init
               /\ Boxes!Init
               /\ part # "lists" => list = "socket"
               /\ part # "fronts" => front_stack = "picotcp"

ProgramNext == /\ UNCHANGED part
               /\ IF part = "accept" THEN Next ELSE UNCHANGED vars
               /\ IF part = "mgmt" THEN Mgmt!Next ELSE UNCHANGED mgmtVars
               /\ IF part = "lists" THEN Lists!Next ELSE UNCHANGED listVars
               /\ IF part = "fronts" THEN Fronts!Next ELSE UNCHANGED frontVars
               /\ IF part = "lwip" THEN Lwip!Next ELSE UNCHANGED lwipVars
               /\ IF part = "file" THEN File!Next ELSE UNCHANGED fileVars
               /\ IF part = "boxes" THEN Boxes!Next ELSE UNCHANGED boxVars

ProgramSpec == ProgramInit /\ [][ProgramNext]_programVars

-----------------------------------------------------------------------------
\* When no thread is inside get_response nothing is left on the socket to
\* the switch, which two threads share.
QuietChannel == part = "mgmt" => Mgmt!QuietChannel

\* Each call has at most one command and one response in each history, in
\* this order, also when two threads call.
HistoryInOrder == part = "mgmt" => Mgmt!HistoryInOrder

\* No search reads a freed chunk, and every search ends; in the list of
\* sockets no chunk becomes unreachable and NULL is not dereferenced until
\* malloc fails (pycoutils.c).
ListsAreSafe ==
  part = "lists" => Lists!TypeOK /\ Lists!SearchIsSafe /\ Lists!NothingLeaks

\* A socket that was added and not deleted is found.
SocketsAreFound == part = "lists" => Lists!SocketsAreFound

\* Until malloc fails the list of sockets is the plain list of ListService.
ImplementsList == Lists!ImplementsList

\* No command of a connection reaches the switch before it has given the
\* password (telnet.py, web.py).
OnlyAuthenticated == part = "fronts" => Fronts!OnlyAuthenticated

\* A listener that is open has a thread that will accept its connections
\* (telnet.py), and the device and the socket to the switch are given back
\* when no front end uses them any more (bin/pyvdetelweb).
ThreadsKeepTheirs ==
  part = "fronts" => Fronts!ListenerHasThread /\ Fronts!ResourcesOutliveThreads

\* An open Socket has an entry that was made for it, with a descriptor of
\* its own, and under a name that was not registered when one thread opens
\* sockets; no descriptor or pipe outlives its socket (lwipv6adapter.py,
\* socket.py). Until a connection is reset, a name stands for one socket of
\* the stack, to which its callbacks belong, and for an established one once
\* connect() or accept() has returned (picotcpadapter.py, pycoclib.c).
OwnSocket ==
  /\ part = "lwip" => Lwip!OwnSocket /\ Lwip!NothingLeaks /\ Lwip!NamesAreNew
  /\ part = "boxes" => /\ Boxes!PipePerEntry
                       /\ Boxes!WakeupFindsOwner
                       /\ Boxes!ConnectedIsEstablished

\* However recv() cuts the stream, read and readline return it in order,
\* without gaps or repetitions, readline at most the size and one line; what
\* is written is sent once and in order (socket.py).
StreamKept ==
  part = "file" => File!StreamKept /\ File!LinesAreLines /\ File!WrittenIsSent
=============================================================================
