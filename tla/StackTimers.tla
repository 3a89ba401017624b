---------------------------- MODULE StackTimers ----------------------------
(***************************************************************************)
(* The timers of the stack: the heap of include/heap.h and the functions   *)
(* of pico_stack.c that add, cancel and run them.  pico_check_timers is a  *)
(* step for each timer it runs, so that the function of a timer may add    *)
(* timers and cancel others before the timer leaves the heap.              *)
(*                                                                         *)
(* A timer does not cancel itself here.  Identifiers do not wrap.          *)
(***************************************************************************)
EXTENDS Integers, Sequences

CONSTANTS Delays,
          MaxTimers,  \* how many timers are ever added (bound)
          MaxTime     \* where the clock stops (bound)

VARIABLES heap,       \* Timers: the references, the one to expire first on top
          clock,      \* PICO_TIME_MS()
          pico_tick,  \* the time of the check under way, -1 between checks
          tmr_id,     \* the last identifier given
          fired,      \* identifiers of the timers that ran
          cancelled   \* identifiers of those cancelled before they did

vars == <<heap, clock, pico_tick, tmr_id, fired, cancelled>>

Init == /\ heap = <<>> /\ clock = 0 /\ pico_tick = -1 /\ tmr_id = 0
        /\ fired = {} /\ cancelled = {}

\* heap_insert: up[i] is the heap when el has come to place i on its way from the
\* last place to the top.
Rising(h, el) ==
  LET up[i \in 1..Len(h) + 1] ==
        IF i > 1 /\ Append(h, el)[i \div 2].expire > el.expire
        THEN [up[i \div 2] EXCEPT ![i] = h[i \div 2]]
        ELSE [Append(h, el) EXCEPT ![i] = el]
  IN up
Insert(h, el) == Rising(h, el)[Len(h) + 1]

\* heap_peek: the top goes, and the last reference sinks from its place
\* (mutant: only the left child is looked at)
Sinking_Left(h) ==
  LET n == Len(h) - 1
      down[i \in 1..n] ==
        IF 2 * i <= n /\ h[n + 1].expire > h[2 * i].expire
        THEN [down[2 * i] EXCEPT ![i] = h[2 * i]]
        ELSE [SubSeq(h, 1, n) EXCEPT ![i] = h[n + 1]]
  IN down
Child(h, i) == IF 2 * i # Len(h) - 1 /\ h[2 * i + 1].expire < h[2 * i].expire
               THEN 2 * i + 1 ELSE 2 * i
Sinking(h) ==
  LET n == Len(h) - 1
      down[i \in 1..n] ==
        IF 2 * i <= n /\ h[n + 1].expire > h[Child(h, i)].expire
        THEN [down[Child(h, i)] EXCEPT ![i] = h[Child(h, i)]]
        ELSE [SubSeq(h, 1, n) EXCEPT ![i] = h[n + 1]]
  IN down
Peek(h) == IF Len(h) = 1 THEN <<>> ELSE Sinking(h)[1]

\* pico_timer_add and pico_timer_cancel, as functions of the heap
Add(h, delay) == Insert(h, [expire |-> clock + delay, id |-> tmr_id + 1, tmr |-> TRUE])
\* (mutant: the search ends before the last reference)
Cancel_NotLast(h, id) ==
  [i \in DOMAIN h |-> IF h[i].id = id /\ i < Len(h) THEN [h[i] EXCEPT !.tmr = FALSE] ELSE h[i]]
\* The reference stays where it is, without a timer.
Cancel(h, id) == [i \in DOMAIN h |-> IF h[i].id = id THEN [h[i] EXCEPT !.tmr = FALSE] ELSE h[i]]

Armed == {r \in {heap[i] : i \in DOMAIN heap} : r.tmr}

AddTimer(delay) == /\ tmr_id < MaxTimers
                   /\ heap' = Add(heap, delay) /\ tmr_id' = tmr_id + 1
                   /\ UNCHANGED <<clock, pico_tick, fired, cancelled>>
CancelTimer(r) == /\ heap' = Cancel(heap, r.id)
                  /\ cancelled' = cancelled \cup {r.id}
                  /\ UNCHANGED <<clock, pico_tick, tmr_id, fired>>

CheckTimers == /\ pico_tick = -1 /\ pico_tick' = clock
               /\ UNCHANGED <<heap, clock, tmr_id, fired, cancelled>>

Due == pico_tick # -1 /\ heap # <<>> /\ heap[1].expire < pico_tick
Ran == fired' = IF heap[1].tmr THEN fired \cup {heap[1].id} ELSE fired
\* The loop of pico_check_timers.  What the function of a timer does comes
\* before the top is taken off.
Fire == /\ Due /\ Ran /\ heap' = Peek(heap)
        /\ UNCHANGED <<clock, pico_tick, tmr_id, cancelled>>
FireAndAdd(delay) == /\ Due /\ heap[1].tmr /\ Ran /\ tmr_id < MaxTimers
                     /\ heap' = Peek(Add(heap, delay)) /\ tmr_id' = tmr_id + 1
                     /\ UNCHANGED <<clock, pico_tick, cancelled>>
FireAndCancel(r) == /\ Due /\ heap[1].tmr /\ Ran /\ r.id # heap[1].id
                    /\ heap' = Peek(Cancel(heap, r.id))
                    /\ cancelled' = cancelled \cup {r.id}
                    /\ UNCHANGED <<clock, pico_tick, tmr_id>>
CheckEnds == /\ pico_tick # -1 /\ ~Due /\ pico_tick' = -1
             /\ UNCHANGED <<heap, clock, tmr_id, fired, cancelled>>

\* Time passes, also while timers run.
Time == /\ clock < MaxTime /\ clock' = clock + 1
        /\ UNCHANGED <<heap, pico_tick, tmr_id, fired, cancelled>>

Check == CheckTimers \/ Fire \/ CheckEnds
Next == \/ Check \/ Time
        \/ \E delay \in Delays :
             (pico_tick = -1 /\ AddTimer(delay)) \/ FireAndAdd(delay)
        \/ \E r \in Armed : (pico_tick = -1 /\ CancelTimer(r)) \/ FireAndCancel(r)

Spec == Init /\ [][Next]_vars

-----------------------------------------------------------------------------
(* Properties.                                                             *)

\* Every timer that was added is in the heap once, or it left it; a timer ran
\* or was cancelled, and nothing ran that was cancelled before (heap.h:41).
NoTimerLost ==
  /\ \A i, j \in DOMAIN heap : heap[i].id = heap[j].id => i = j
  /\ {r.id : r \in Armed} \cup fired \cup cancelled = 1..tmr_id
  /\ fired \cap cancelled = {}

\* A timer runs after its time, and no timer that was due before it is still
\* waiting, whatever was added and cancelled meanwhile (pico_stack.c:879).
FiresInOrder ==
  [][\A r \in Armed : r.id \in fired' \ fired =>
       r.expire < clock /\ \A s \in Armed : r.expire <= s.expire]_vars
=============================================================================
