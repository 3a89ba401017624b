----------------------------- MODULE MCProgress -----------------------------
(***************************************************************************)
(* The components that must get on, and the containers that the stack      *)
(* keeps its timers, frames and entries in: each behaviour is one of the   *)
(* component that part names, fair to the timers, the clock or the threads *)
(* that its module is fair to.                                             *)
(***************************************************************************)
EXTENDS Integers, FiniteSets, Sequences, TLC

CONSTANTS Parts,                                 \* the components of this run
          Loops, Samples, MinScore, MaxScore, MaxTotal,  \* of LoopScore
          Keys, NatPorts, Period, TcpLimit, MaxEnables,  \* of Nat
          Pings, PingCount, Interval, Timeout,   \* of Ping
          MaxStarts,                             \* of PycoHandler
          Initial, MaxChars,                     \* of LwipWait
          TimerDelays, TimersAdded, ClockEnd,    \* of StackTimers
          FrameLengths, QueueLimit, QueueWidth,  \* of FrameQueue
          TreeKeys                               \* of RbTree

VARIABLES part,   \* the component that runs
  ppp,
  loop,
  load,
  natOut, natIn, natLink, cleanups, unused,
  ncache, waiting, lastEnq, said,
  address6, segment, linkUp,
  dnsTable, dnsTimers, asked, answered, pending, nsTable,
  cookies, pingTimers, echoes, lastEcho, pingsStarted, aborted, reported,
  expired,
  running, handler_thread, thread, caller, device, careful,
  pipe, written, ready, subscribed, reader, callback,
  nodes, leaked, forwarded, repeated,
  heap, clock, pico_tick, tmr_id, fired, cancelled,
  frameQueue,
  tree, members

\* The endpoints of the run: one host that uses both protocols, one only UDP.
SomeKeys == {<<"h1", "tcp">>, <<"h1", "udp">>, <<"h2", "udp">>}

Ppp == INSTANCE PppLink WITH Peers <- {{"none", "pap"}}, MaxTerminate <- 1,
  MaxConfigure <- 1
Loop == INSTANCE RoundRobin WITH Members <- 3, Floor <- 1, Scores <- {2, 3},
  Modes <- {"pays", "free"}, MaxFrames <- 2, MaxResets <- 1
Load == INSTANCE LoopScore
Translation == INSTANCE Nat
Neighbour6 == INSTANCE Ipv6Nd WITH Neighbours <- {"a", "b"}, Macs <- {1},
  MaxSolicit <- 1, Slots <- 1
Dad == INSTANCE Ipv6Dad WITH Hosts <- {"h1", "h2"},
  LinkLocal <- {"ll1", "ll2"}, Global <- {},
  Suffix <- "ll1" :> 1 @@ "ll2" :> 2, Retrans <- 1
Dns == INSTANCE DnsClient WITH Requests <- {"r1"}, Ids <- {1, 2, 3},
  Servers <- {1}, MaxRetrans <- 2, MaxAlias <- 1, CanFail <- FALSE
Echo == INSTANCE Ping WITH Count <- PingCount
Handler == INSTANCE PycoHandler
Wait == INSTANCE LwipWait
Aodv == INSTANCE Aodv WITH Peers <- {"n", "f"}, Near <- {"n"}, Me <- "me",
  MaxSeq <- "n" :> 0 @@ "f" :> 1 @@ "me" :> 0, MaxHops <- 1, Threshold <- 1,
  Diameter <- 4, Retries <- 0
Heap == INSTANCE StackTimers WITH Delays <- TimerDelays,
  MaxTimers <- TimersAdded, MaxTime <- ClockEnd
Queue == INSTANCE FrameQueue WITH Lengths <- FrameLengths, Overhead <- 0,
  MaxSize <- QueueLimit, Width <- QueueWidth, queue <- frameQueue
Tree == INSTANCE RbTree WITH Keys <- TreeKeys

pppVars == <<ppp>>
loopVars == <<loop>>
loadVars == <<load>>
natVars == <<natOut, natIn, natLink, cleanups, unused>>
ndVars == <<ncache, waiting, lastEnq, said>>
dadVars == <<address6, segment, linkUp>>
dnsVars == <<dnsTable, dnsTimers, asked, answered, pending, nsTable>>
pingVars == <<cookies, pingTimers, echoes, lastEcho, pingsStarted, aborted,
              reported, expired>>
handlerVars == <<running, handler_thread, thread, caller, device, careful>>
waitVars == <<pipe, written, ready, subscribed, reader, callback>>
aodvVars == <<nodes, leaked, forwarded, repeated>>
heapVars == <<heap, clock, pico_tick, tmr_id, fired, cancelled>>
queueVars == <<frameQueue>>
treeVars == <<tree, members>>
vars == <<part, pppVars, loopVars, loadVars, natVars, ndVars, dadVars,
                dnsVars, pingVars, handlerVars, waitVars, aodvVars, heapVars,
                queueVars, treeVars>>

\* Components that are not chosen start in one state only.
Init == /\ part \in Parts
        /\ Ppp!Init
        /\ Loop!Init
        /\ Load!Init
        /\ Translation!Init
        /\ Neighbour6!Init
        /\ Dad!Init
        /\ Dns!Init
        /\ Echo!Init
        /\ Handler!Init
        /\ Wait!Init
        /\ Aodv!Init
        /\ Heap!Init
        /\ Queue!Init
        /\ Tree!Init
        /\ part # "handler" => careful
        /\ part # "dad" => \A h \in {"h1", "h2"} : linkUp[h] /\ address6[h]["ll1"] = Dad!Tentative

Next == /\ UNCHANGED part
        /\ IF part = "ppp" THEN Ppp!Next ELSE UNCHANGED pppVars
        /\ IF part = "loop" THEN Loop!Next ELSE UNCHANGED loopVars
        /\ IF part = "load" THEN Load!Next ELSE UNCHANGED loadVars
        /\ IF part = "nat" THEN Translation!Next ELSE UNCHANGED natVars
        /\ IF part = "nd" THEN Neighbour6!Next ELSE UNCHANGED ndVars
        /\ IF part = "dad" THEN Dad!Next ELSE UNCHANGED dadVars
        /\ IF part = "dns" THEN Dns!Next ELSE UNCHANGED dnsVars
        /\ IF part = "ping" THEN Echo!Next ELSE UNCHANGED pingVars
        /\ IF part = "handler" THEN Handler!Next ELSE UNCHANGED handlerVars
        /\ IF part = "wait" THEN Wait!Next ELSE UNCHANGED waitVars
        /\ IF part = "aodv" THEN Aodv!Next ELSE UNCHANGED aodvVars
        /\ IF part = "heap" THEN Heap!Next ELSE UNCHANGED heapVars
        /\ IF part = "queue" THEN Queue!Next ELSE UNCHANGED queueVars
        /\ IF part = "tree" THEN Tree!Next ELSE UNCHANGED treeVars

\* Fairness is that of the modules, to the component that runs.
Spec == /\ Init /\ [][Next]_vars
        /\ WF_pppVars(part = "ppp" /\ Ppp!ZeroTick)
        /\ WF_loopVars(part = "loop" /\ Loop!Tick)
        /\ WF_loadVars(part = "load" /\ Load!Tick)
        /\ WF_natVars(part = "nat" /\ Translation!Clock)
        /\ WF_natVars(part = "nat" /\ Translation!CleanupDue)
        /\ \A h \in {"a", "b"} : WF_ndVars(part = "nd" /\ Neighbour6!Elapsed(h))
        /\ \A h \in {"h1", "h2"} :
             /\ WF_dadVars(part = "dad" /\ Dad!LinkComesUp(h))
             /\ WF_dadVars(part = "dad" /\ Dad!Missed(h))
             /\ \A a \in {"ll1", "ll2"} : /\ WF_dadVars(part = "dad" /\ Dad!Dad(h, a))
                                     /\ WF_dadVars(part = "dad" /\ Dad!Arrives(h, a))
        /\ \A i \in {1, 2, 3} : WF_dnsVars(part = "dns" /\ Dns!Expire(i))
        /\ WF_pingVars(part = "ping" /\ Echo!Fires)
        /\ WF_pingVars(part = "ping" /\ Echo!ClockTicks)
        /\ \A t \in Handler!Threads : WF_handlerVars(part = "handler" /\ Handler!handler(t))
        /\ WF_handlerVars(part = "handler" /\ Handler!Joined)
        /\ \A p \in {"n", "f"} : WF_aodvVars(part = "aodv" /\ Aodv!Retrans(p))
        /\ WF_waitVars(part = "wait" /\ Wait!Reader)
        /\ WF_waitVars(part = "wait" /\ Wait!Callback)
        /\ WF_waitVars(part = "wait" /\ Wait!Event)

-----------------------------------------------------------------------------
\* What two hosts negotiate comes to an end, whatever is answered: a link of
\* PPP comes to rest once the user has disconnected (pico_dev_ppp.c), a
\* neighbour that is asked for answers or is given up, every detection of a
\* duplicate ends (pico_ipv6_nd.c), a search for a route ends (pico_aodv.c),
\* and every DNS request that was accepted is answered (pico_dns_client.c).
NegotiationsEnd ==
  /\ part = "ppp" => Ppp!DisconnectEnds
  /\ part = "nd" => Neighbour6!AskingEnds
  /\ part = "dad" => Dad!DetectionEnds
  /\ part = "dns" => Dns!EveryoneIsAnswered
  /\ part = "aodv" => Aodv!SearchEnds

\* A frame that waits is not left behind for ever by frames for the others
\* (pico_protocol.c), and a loop that has nothing to do any more comes back
\* to the least score, which none goes below (pico_stack.c).
EveryTurnComes ==
  /\ part = "loop" => Loop!EveryTurnComes
  /\ part = "load" => Load!IdleShrinks /\ []Load!ScoresInRange

\* A thread that waits for the handler to end returns (pycotcp.py), a reader
\* is not left at the pipe with data that has arrived (lwipv6adapter.py),
\* and a ping sends every request it was asked for unless it is aborted, and
\* then reports nothing more (pico_icmp4.c).
NobodyWaitsForEver ==
  /\ part = "handler" => Handler!StopReturns
  /\ part = "wait" => Wait!DataIsRead
  /\ part = "ping" => Echo!AllAreSent
  /\ Echo!AbortIsFinal

\* A tuple of UDP is not taken away before it was unused for a whole period,
\* and a TCP connection that has ended loses its tuple (pico_nat.c).
TuplesLiveAsUsed ==
  /\ Translation!UsedTuplesStay
  /\ part = "nat" => Translation!EndedTuplesGo

\* The two tables of the translation hold the same tuples (pico_nat.c); a
\* request that was answered is not reported as lost, nor the other way
\* round (pico_icmp4.c).
TablesAgree ==
  /\ part = "nat" => Translation!TablesAgree
  /\ part = "ping" => Echo!OneAnswer

\* Where the application waits, the callbacks of two handlers do not
\* overlap, and no address is left on a device that was deleted
\* (pycotcp.py); a reader that waits at an empty pipe will be woken
\* (lwipv6adapter.py).
OneHandler ==
  /\ part = "handler" => Handler!OneHandler /\ Handler!AddressHasDevice
  /\ part = "wait" => Wait!WaiterIsSubscribed

\* A timer that was added is in the heap, ran or was cancelled
\* (pico_stack.c, heap.h). What was inserted into a tree and not deleted is
\* found, and the loops over the tree come to it once, in order
\* (pico_tree.c). A queue stays within its limit, and an empty one takes any
\* frame that is not itself too long (pico_queue.h).
ContainersKeepAll ==
  /\ part = "heap" => Heap!NoTimerLost
  /\ part = "tree" => Tree!MembersAreFound /\ Tree!WalkIsSorted
  /\ part = "queue" => Queue!EmptyTakesFrame /\ Queue!SizeIsLimited

\* A timer runs after its time, and none that was due before it still waits
\* (heap.h).
FiresInOrder == Heap!FiresInOrder
=============================================================================
