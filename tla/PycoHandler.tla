----------------------------- MODULE PycoHandler -----------------------------
(***************************************************************************)
(* Classes Pyco and DeviceInfo of pycotcp.py: the handler thread that      *)
(* ticks the stack, started and stopped by the application through a       *)
(* shared flag, and the device with its address.  The callbacks are noted  *)
(* in the thread's state; a tick is one step that is under way or not.     *)
(***************************************************************************)
EXTENDS Naturals, FiniteSets

CONSTANT MaxStarts   \* threads that are started in a behaviour

VARIABLES running, handler_thread, thread, caller, device,
          careful   \* the application stops a handler, and waits for its end,
                    \* before it starts another

vars == <<running, handler_thread, thread, caller, device, careful>>

Threads == 1..MaxStarts
None == 0

Init == /\ careful \in BOOLEAN /\ running = FALSE /\ handler_thread = None
        /\ thread = [t \in Threads |-> "new"]
        /\ caller = "idle"
        /\ device = [created |-> FALSE, device |-> FALSE, link |-> FALSE]

Alive(t) == thread[t] \notin {"new", "ended"}
-----------------------------------------------------------------------------
(* The application.                                                        *)

\* stop_handler: the flag is cleared and the thread is forgotten, at once or
\* when it has ended.
Stop(wait, after) ==
  /\ caller = "idle" /\ handler_thread # None
  /\ running' = FALSE
  /\ IF wait THEN caller' = after /\ UNCHANGED handler_thread
     ELSE /\ caller' = IF after = "join" THEN "idle" ELSE "start"
          /\ handler_thread' = None
  /\ UNCHANGED <<thread, device, careful>>
\* (mutant: the join is left out)
Join_NoWait(goal, next) ==
  /\ caller = goal
  /\ handler_thread' = None /\ caller' = next
  /\ UNCHANGED <<running, thread, device, careful>>
Join(goal, next) ==
  /\ caller = goal /\ ~Alive(handler_thread)
  /\ handler_thread' = None /\ caller' = next
  /\ UNCHANGED <<running, thread, device, careful>>
stop_handler(wait) == Stop(wait, "join")
Joined == Join("join", "idle")

\* start_handler: of a handler that exists it stops the thread, and does not
\* wait for it
start_handler ==
  \/ /\ caller = "idle" /\ handler_thread = None /\ caller' = "start"
     /\ UNCHANGED <<running, handler_thread, thread, device, careful>>
  \/ ~careful /\ Stop(FALSE, "start")
Started == \E t \in Threads :
  /\ caller = "start" /\ thread[t] = "new" /\ \A u \in Threads : u < t => thread[u] # "new"
  /\ running' = TRUE /\ handler_thread' = t
  /\ thread' = [thread EXCEPT ![t] = "create"]
  /\ caller' = "idle" /\ UNCHANGED <<device, careful>>

\* DeviceInfo.create: the second call may raise, and then created stays False
create == /\ caller = "idle" /\ ~device.created
          /\ device' \in {[created |-> TRUE, device |-> TRUE, link |-> TRUE],
                          [device EXCEPT !.device = TRUE]}
          /\ UNCHANGED <<running, handler_thread, thread, caller, careful>>
\* (mutant: the device goes before its address)
destroy_DeviceFirst ==
  /\ caller = "idle" /\ device.created
  /\ device' \in {[created |-> FALSE, device |-> FALSE, link |-> FALSE],
                  [device EXCEPT !.device = FALSE]}
  /\ UNCHANGED <<running, handler_thread, thread, caller, careful>>
\* DeviceInfo.destroy; update() calls a method that does not exist
destroy ==
  /\ caller = "idle" /\ device.created
  /\ device' \in {[created |-> FALSE, device |-> FALSE, link |-> FALSE],
                  [device EXCEPT !.link = FALSE]}
  /\ UNCHANGED <<running, handler_thread, thread, caller, careful>>

-----------------------------------------------------------------------------
(* handler(), in thread t.                                                 *)

Go(t, from, to) == /\ thread[t] = from /\ thread' = [thread EXCEPT ![t] = to]
                   /\ UNCHANGED <<running, handler_thread, caller, device, careful>>
on_create(t) == Go(t, "create", "while")
\* (mutant: the flag is not looked at)
While_Forever(t) == Go(t, "while", "stackTick")
While(t) == Go(t, "while", IF running THEN "stackTick" ELSE "destroy")
stackTick(t) == Go(t, "stackTick", "on_tick")
on_tick(t) == Go(t, "on_tick", "while")
on_destroy(t) == Go(t, "destroy", "ended")
handler(t) == on_create(t) \/ While(t) \/ stackTick(t) \/ on_tick(t) \/ on_destroy(t)

Next == \/ \E wait \in IF careful THEN {TRUE} ELSE BOOLEAN : stop_handler(wait)
        \/ Joined \/ start_handler \/ Started \/ create \/ destroy
        \/ \E t \in Threads : handler(t)

\* A thread is scheduled some time.
FairSpec == Init /\ [][Next]_vars /\ \A t \in Threads : WF_vars(handler(t))
                 /\ WF_vars(Joined)

-----------------------------------------------------------------------------
(* Properties.                                                             *)

\* No address is left on a device that was deleted.
AddressHasDevice == device.link => device.device

\* A thread that waits for the handler to end does not wait for ever, since
\* nobody else sets the flag again.
StopReturns == caller = "join" ~> caller = "idle"

\* The comment of start_handler, "Stops the handler_thread if it still
\* exists": two threads never tick the stack, which has no lock.
\* (The code breaks it: see the README.)
OneTicks == \A t, u \in Threads :
  thread[t] = "stackTick" /\ thread[u] = "stackTick" => t = u

\* Where the application waits, the callbacks of two handlers do not overlap:
\* on_destroy of one has returned before on_create of the next is called.
OneHandler == careful => Cardinality({t \in Threads : Alive(t)}) <= 1
=============================================================================
