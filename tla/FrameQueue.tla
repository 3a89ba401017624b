----------------------------- MODULE FrameQueue -----------------------------
(***************************************************************************)
(* A queue of frames, include/pico_queue.h.  A frame is its length.  A     *)
(* queue of a UDP socket counts an overhead for every frame                *)
(* (pico_socket_udp.c), the others do not.                                 *)
(***************************************************************************)
EXTENDS Integers, Sequences

CONSTANTS Lengths, Overhead, MaxSize,
          Width  \* the size is kept modulo this

VARIABLE queue

vars == <<queue>>

Init == queue = [frames |-> <<>>, size |-> 0]

\* (mutant: the limit is tested without the new frame)
Enqueue_Over(q, len) ==
  IF MaxSize < q.size THEN q
  ELSE [frames |-> Append(q.frames, len),
        size |-> ((IF q.frames = <<>> THEN 0 ELSE q.size) + len + Overhead) % Width]
\* pico_enqueue: an empty queue counts from nothing, if the frame gets so far.
Enqueue(q, len) ==
  IF MaxSize < len + q.size THEN q
  ELSE [frames |-> Append(q.frames, len),
        size |-> ((IF q.frames = <<>> THEN 0 ELSE q.size) + len + Overhead) % Width]
\* (mutant: the length is that of the last frame)
Dequeue_Last(q) == [frames |-> Tail(q.frames),
                    size |-> (q.size - (q.frames[Len(q.frames)] - Overhead)) % Width]
\* pico_dequeue
Dequeue(q) == [frames |-> Tail(q.frames),
               size |-> (q.size - (Head(q.frames) - Overhead)) % Width]

\* pico_queue_empty
Emptied(q) == LET e[i \in 0..Len(q.frames)] == IF i = 0 THEN q ELSE Dequeue(e[i - 1])
              IN e[Len(q.frames)]

Put(len) == queue' = Enqueue(queue, len)
Take == queue.frames # <<>> /\ queue' = Dequeue(queue)
Empty == queue' = Emptied(queue)

Next == (\E len \in Lengths : Put(len)) \/ Take \/ Empty

Spec == Init /\ [][Next]_vars

-----------------------------------------------------------------------------
(* Properties.                                                             *)

\* An empty queue takes any frame that is not itself too long: whatever went
\* through it before leaves nothing in its size (pico_queue.h:81).
EmptyTakesFrame == queue.frames = <<>> =>
  \A len \in Lengths : len <= MaxSize => Enqueue(queue, len).frames = <<len>>

\* The limit is a limit of what is in the queue.
SizeIsLimited ==
  LET sum[i \in 0..Len(queue.frames)] == IF i = 0 THEN 0 ELSE sum[i - 1] + queue.frames[i]
  IN sum[Len(queue.frames)] <= MaxSize
=============================================================================
