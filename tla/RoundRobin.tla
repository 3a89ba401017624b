----------------------------- MODULE RoundRobin -----------------------------
(***************************************************************************)
(* The loop that lets the protocols of a layer (pico_protocol.c), or the   *)
(* devices (pico_device.c), handle the frames of their queues in a tick of *)
(* the stack.  A loop has a score: every frame costs one, and with the     *)
(* score used up the next tick goes on where this one stopped.             *)
(*                                                                         *)
(* One direction is modelled; the members are numbered in the order of     *)
(* their tree.                                                             *)
(***************************************************************************)
EXTENDS Integers

CONSTANTS Members,    \* how many protocols or devices
          Floor,      \* the loop ends at this score (DEV_LOOP_MIN, or 1)
          Scores,     \* the scores a tick may give the loop
          Modes,      \* what a member may do in a tick, see Handled
          MaxFrames,  \* length of a queue (bound)
          MaxResets   \* how often a member is added to or taken from the tree (bound)

VARIABLE loop

vars == <<loop>>

Init == loop = [q |-> [p \in 1..Members |-> 0],
                node |-> 1,        \* node_in or node_out
                score |-> 0,       \* what is left of the score, 0 between two loops
                start |-> 1,       \* where the loop began
                served |-> 0,      \* the member called last, 0 when none was
                resets |-> 0]

After(p) == IF p = Members THEN 1 ELSE p + 1
LeastOf(a, b) == IF a < b THEN a ELSE b

\* proto_loop and devloop: a frame whose handler returns nothing positive is
\* free; a device that does not send keeps its frames.
Handled(p, mode) ==
  CASE mode = "busy" -> 0
    [] mode = "free" -> loop.q[p]
    [] mode = "pays" -> LeastOf(loop.q[p], loop.score)

\* (mutant: a loop begins with the first member again)
First_Always == 1
\* roundrobin_init: where the last loop stopped
First == loop.node

\* A tick of the stack gives the loop its score.
Begin(score) ==
  /\ loop.score = 0
  /\ loop' = [loop EXCEPT !.score = score, !.node = First, !.start = First, !.served = 0]

\* pico_protocol_generic_loop, pico_devices_loop, roundrobin_end
Serve(mode) ==
  /\ loop.score > 0
  /\ LET n == Handled(loop.node, mode)
         left == IF mode = "pays" THEN loop.score - n ELSE loop.score
     IN loop' = [loop EXCEPT !.q[loop.node] = @ - n,
                             !.served = loop.node,
                             !.node = After(loop.node),
                             !.score = IF left <= Floor \/ After(loop.node) = loop.start
                                       THEN 0 ELSE left]

Tick == (\E score \in Scores : Begin(score)) \/ (\E mode \in Modes : Serve(mode))

\* pico_enqueue, from another layer
Enqueue(p) == loop.q[p] < MaxFrames /\ loop' = [loop EXCEPT !.q[p] = @ + 1]

\* pico_protocol_init, pico_device_init, pico_device_destroy
Reset == /\ loop.score = 0 /\ loop.resets < MaxResets
         /\ loop' = [loop EXCEPT !.node = 1, !.resets = @ + 1]

Next == Tick \/ (\E p \in 1..Members : Enqueue(p)) \/ Reset

\* The stack is ticked for ever by its thread.
FairSpec == Init /\ [][Next]_vars /\ WF_vars(Tick)

-----------------------------------------------------------------------------
(* Properties.                                                             *)

\* A frame that waits is not left behind for ever by frames for the others,
\* however small the score: its member gets its turn (pico_protocol.c:133).
EveryTurnComes == \A p \in 1..Members : loop.q[p] > 0 ~> loop.served = p
=============================================================================
