------------------------------ MODULE PicoRead ------------------------------
(***************************************************************************)
(* Receiving on one connected TCP socket of the picoTCP adapter.  The      *)
(* handler thread runs pycoclib.stackTick; for an arriving segment the     *)
(* stack calls _socket_callback, whose V_read releases a semaphore.  A     *)
(* user thread in socketRecv acquires it in P_read, empties the fake pipe  *)
(* and drains the stack's queue.                                           *)
(*                                                                         *)
(* C code runs under the interpreter lock and is atomic; Python code may   *)
(* lose the lock between two bytecodes, so x += 1 on a shared dictionary   *)
(* is a load and a store.  Preemptive = FALSE restricts the behaviours to  *)
(* those in which the lock changes hands only where a thread blocks or a   *)
(* callback has returned; it separates what the protocol of V_read and     *)
(* P_read guarantees from what interleaving them breaks.                   *)
(***************************************************************************)
EXTENDS Integers, TLAPS

CONSTANTS Preemptive,    \* BOOLEAN: the interpreter lock may change hands anywhere
          MaxSegments    \* bound: segments the peer sends

ASSUME PreemptiveAssumption == Preemptive \in BOOLEAN
ASSUME SegmentsAssumption == MaxSegments \in Nat

VARIABLES
  queue,        \* tcpq_in: segments received and not yet read
  arrived,      \* segments received so far
  ev_pending,   \* PICO_SOCK_EV_RD is set in ev_pending of the socket
  fin,          \* the peer has closed its side
  read_semaphore, read_count,   \* the semaphore, and the adapter's copy of its value
  pipe,         \* characters in the read pipe
  read_written_characters,
  hpc, hreg, second,   \* handler thread: control, loaded value, second wakeup
  upc, ureg,           \* user thread: control, loaded value
  received      \* segments handed to the user thread

sem     == <<read_semaphore, read_count>>
fakefd  == <<pipe, read_written_characters>>
stack   == <<queue, arrived, ev_pending, fin>>
handler == <<hpc, hreg, second>>
user    == <<upc, ureg, received>>
vars == <<stack, sem, fakefd, handler, user>>

\* print, release() and acquire() of a semaphore, os.write and os.read give
\* up the interpreter lock on their own; between two of them a thread keeps
\* it unless preempted.
HandlerInside == hpc \in {"V_load", "V_store", "W_store"}
UserInside == upc \in {"P_load", "P_store", "length", "recv"}
MayRunHandler == Preemptive \/ ~UserInside
MayRunUser == Preemptive \/ ~HandlerInside

-----------------------------------------------------------------------------
Init == /\ queue = 0 /\ arrived = 0 /\ ev_pending = FALSE /\ fin = FALSE
        /\ read_semaphore = 0 /\ read_count = 0
        /\ pipe = 0 /\ read_written_characters = 0
        /\ hpc = "tick" /\ hreg = 0 /\ second = FALSE
        /\ upc = "idle" /\ ureg = 0 /\ received = 0

(* The handler thread *)

\* tcp_data_in enqueues the segment and sets EV_RD, pico_tcp_input then
\* calls the wakeup with what is pending.
Segment == /\ hpc = "tick" /\ MayRunHandler
           /\ arrived < MaxSegments /\ ~fin
           /\ queue' = queue + 1
           /\ arrived' = arrived + 1
           /\ ev_pending' = TRUE
           /\ hpc' = "test" /\ second' = FALSE
           /\ UNCHANGED <<fin, sem, fakefd, hreg, user>>

\* The FIN of the peer: the wakeup has EV_CLOSE and EV_FIN, which
\* _socket_callback passes over.
PeerCloses == /\ hpc = "tick" /\ MayRunHandler
              /\ ~fin /\ fin' = TRUE
              /\ UNCHANGED <<queue, arrived, ev_pending, sem, fakefd, handler, user>>

\* unlock_sem: the semaphore is released only if its copy is not positive.
\* (mutant: a semaphore whose copy is zero counts as up)
V_test_OffByOne ==
  /\ hpc = "test" /\ MayRunHandler
  /\ hpc' = IF read_count >= 0 THEN "write" ELSE "release"
  /\ UNCHANGED <<stack, sem, fakefd, hreg, second, user>>
V_test == /\ hpc = "test" /\ MayRunHandler
          /\ hpc' = IF read_count > 0 THEN "write" ELSE "release"
          /\ UNCHANGED <<stack, sem, fakefd, hreg, second, user>>

V_release == /\ hpc = "release" /\ MayRunHandler
             /\ read_semaphore' = read_semaphore + 1
             /\ hpc' = "V_load"
             /\ UNCHANGED <<stack, read_count, fakefd, hreg, second, user>>

\* read_count += 1
V_load == /\ hpc = "V_load" /\ MayRunHandler
          /\ hreg' = read_count
          /\ hpc' = "V_store"
          /\ UNCHANGED <<stack, sem, fakefd, second, user>>
V_store == /\ hpc = "V_store" /\ MayRunHandler
           /\ read_count' = hreg + 1
           /\ hpc' = "write"
           /\ UNCHANGED <<stack, read_semaphore, fakefd, hreg, second, user>>

\* os.write of one character, then read_written_characters += 1
V_write == /\ hpc = "write" /\ MayRunHandler
           /\ pipe' = pipe + 1
           /\ hpc' = "W_load"
           /\ UNCHANGED <<stack, sem, read_written_characters, hreg, second, user>>
W_load == /\ hpc = "W_load" /\ MayRunHandler
          /\ hreg' = read_written_characters
          /\ hpc' = "W_store"
          /\ UNCHANGED <<stack, sem, fakefd, second, user>>
W_store == /\ hpc = "W_store" /\ MayRunHandler
           /\ read_written_characters' = hreg + 1
           /\ hpc' = "return"
           /\ UNCHANGED <<stack, sem, pipe, hreg, second, user>>

\* Back in C: socket_tcp_do_deliver calls the wakeup once more if the event
\* is still pending, and only then clears it.
CallbackReturns ==
  /\ hpc = "return" /\ MayRunHandler
  /\ IF ~second /\ ev_pending
       THEN hpc' = "test" /\ second' = TRUE /\ UNCHANGED ev_pending
       ELSE hpc' = "tick" /\ second' = FALSE /\ ev_pending' = FALSE
  /\ UNCHANGED <<queue, arrived, fin, sem, fakefd, hreg, user>>

V_read == \/ V_test \/ V_release \/ V_load \/ V_store
          \/ V_write \/ W_load \/ W_store
Handler == V_read \/ CallbackReturns

(* The user thread: socketRecv *)

Call == /\ upc = "idle" /\ MayRunUser
        /\ upc' = "acquire"
        /\ UNCHANGED <<stack, sem, fakefd, handler, ureg, received>>

\* (mutant: acquire() does not wait)
P_acquire_NoWait ==
  /\ upc = "acquire" /\ MayRunUser
  /\ read_semaphore' = read_semaphore - 1
  /\ upc' = "P_load"
  /\ UNCHANGED <<stack, read_count, fakefd, handler, ureg, received>>
P_acquire == /\ upc = "acquire" /\ MayRunUser
             /\ read_semaphore > 0
             /\ read_semaphore' = read_semaphore - 1
             /\ upc' = "P_load"
             /\ UNCHANGED <<stack, read_count, fakefd, handler, ureg, received>>

\* read_count -= 1
P_load == /\ upc = "P_load" /\ MayRunUser
          /\ ureg' = read_count
          /\ upc' = "P_store"
          /\ UNCHANGED <<stack, sem, fakefd, handler, received>>
\* (mutant: the copy is not taken down)
P_store_Dropped ==
  /\ upc = "P_store" /\ MayRunUser
  /\ upc' = "length"
  /\ UNCHANGED <<stack, sem, fakefd, handler, ureg, received>>
P_store == /\ upc = "P_store" /\ MayRunUser
           /\ read_count' = ureg - 1
           /\ upc' = "length"
           /\ UNCHANGED <<stack, read_semaphore, fakefd, handler, ureg, received>>

\* read_check: os.read of as many characters as have been counted.  Of no
\* character it returns at once, of some it waits until there is one.
ReadLength == /\ upc = "length" /\ MayRunUser
              /\ ureg' = read_written_characters
              /\ upc' = "drain"
              /\ UNCHANGED <<stack, sem, fakefd, handler, received>>
Drain == /\ upc = "drain" /\ MayRunUser
         /\ ureg > 0 => pipe > 0
         /\ pipe' = IF pipe > ureg THEN pipe - ureg ELSE 0
         /\ upc' = "clear"
         /\ UNCHANGED <<stack, sem, read_written_characters, handler, ureg, received>>
\* (mutant: the count of written characters is never reset)
Clear_Dropped ==
  /\ upc = "clear" /\ MayRunUser
  /\ upc' = "recv"
  /\ UNCHANGED <<stack, sem, fakefd, handler, ureg, received>>
Clear == /\ upc = "clear" /\ MayRunUser
         /\ read_written_characters' = 0
         /\ upc' = "recv"
         /\ UNCHANGED <<stack, sem, pipe, handler, ureg, received>>

\* pycoclib.socketRecv reads until nothing is left; tcp_read_finish then
\* clears EV_RD.
\* (mutant: one segment at a time, as if the caller asked again for the rest)
Recv_One ==
  /\ upc = "recv" /\ MayRunUser
  /\ queue' = IF queue > 0 THEN queue - 1 ELSE 0
  /\ received' = received + (queue - queue')
  /\ ev_pending' = FALSE
  /\ upc' = "idle"
  /\ UNCHANGED <<arrived, fin, sem, fakefd, handler, ureg>>
Recv == /\ upc = "recv" /\ MayRunUser
        /\ received' = received + queue
        /\ queue' = 0
        /\ ev_pending' = FALSE
        /\ upc' = "idle"
        /\ UNCHANGED <<arrived, fin, sem, fakefd, handler, ureg>>

P_read == P_acquire \/ P_load \/ P_store
socketRecv == P_read \/ ReadLength \/ Drain \/ Clear \/ Recv

Next == Segment \/ PeerCloses \/ Handler \/ Call \/ socketRecv

\* Both threads are scheduled; the user thread calls recv again and again,
\* as the telnet session does.  The peer need not send.
Fairness == WF_vars(Handler) /\ WF_vars(Call \/ socketRecv)
Spec == Init /\ [][Next]_vars
FairSpec == Spec /\ Fairness

-----------------------------------------------------------------------------
(* Properties *)

\* The counters stay within what MaxSegments segments can make of them, each
\* waking the reader at most twice; nothing read is lost or read twice.
HPCs == {"tick", "test", "release", "V_load", "V_store", "write", "W_load",
         "W_store", "return"}
UPCs == {"idle", "acquire", "P_load", "P_store", "length", "drain", "clear", "recv"}
TypeOK == /\ arrived \in 0..MaxSegments
          /\ queue \in 0..arrived /\ received = arrived - queue
          /\ ev_pending \in BOOLEAN /\ fin \in BOOLEAN /\ second \in BOOLEAN
          /\ read_semaphore \in Nat /\ read_count \in Int
          /\ pipe \in Nat /\ read_written_characters \in Nat
          /\ hpc \in HPCs /\ hreg \in Int
          /\ upc \in UPCs /\ ureg \in Int

\* A reader that waits in acquire() while the handler is not delivering
\* anything waits for data that has not arrived: no wakeup is lost.
NoLostWakeup ==
  hpc = "tick" /\ upc = "acquire" /\ read_semaphore = 0 => queue = 0

\* read_count, which decides whether V_read releases, is the value of the
\* semaphore whenever neither thread is between the two updates; so the
\* semaphore never goes above one, however many segments arrive.
CountMatches ==
  /\ read_semaphore <= 1
  /\ hpc \notin {"V_load", "V_store"} /\ upc \notin {"P_load", "P_store"} =>
       read_count = read_semaphore

\* A reader that holds the token it has acquired does not block in os.read: the
\* read pipe holds at least the characters that were counted, whatever is
\* written between counting, reading and resetting.
DrainHasCharacters == upc = "drain" => pipe >= ureg

\* recv() returns an empty string, which its callers take for the end of the
\* stream, only when the peer has closed.
NoEmptyRead == upc = "recv" => queue > 0 \/ fin

\* Every segment is read by the thread that keeps calling recv().
EverySegmentRead == queue > 0 ~> queue = 0

-----------------------------------------------------------------------------
(* Proofs, for any number of segments.  The types are kept whatever the    *)
(* interpreter lock does.  The protocol of V_read and P_read is proved for *)
(* the behaviours in which the lock changes hands only where a thread      *)
(* gives it up: preemption breaks it (run PicoReadPreempted).              *)

\* Types.

\* The Boolean variables, and the others: what W_store adds one to is a
\* number of characters.
Flags == ev_pending \in BOOLEAN /\ fin \in BOOLEAN /\ second \in BOOLEAN
Numbers == /\ arrived \in 0..MaxSegments
           /\ queue \in 0..arrived /\ received = arrived - queue
           /\ read_semaphore \in Nat /\ read_count \in Int
           /\ pipe \in Nat /\ read_written_characters \in Nat
           /\ hpc \in HPCs /\ hreg \in Int
           /\ upc \in UPCs /\ ureg \in Int
           /\ hpc = "W_store" => hreg \in Nat

LEMMA FlagsStep ==
  ASSUME Flags, [Next]_vars
  PROVE  Flags'
<1> USE DEF Flags, stack, handler
<1>1. CASE Segment \/ PeerCloses
  BY <1>1, Zenon DEF Segment, PeerCloses
<1>2. CASE V_read
  BY <1>2, Zenon DEF V_read, V_test, V_release, V_load, V_store, V_write,
                     W_load, W_store
<1>3. CASE CallbackReturns
  BY <1>3, Zenon DEF CallbackReturns
<1>4. CASE Call \/ P_read
  BY <1>4, Zenon DEF Call, P_read, P_acquire, P_load, P_store
<1>5. CASE ReadLength \/ Drain \/ Clear \/ Recv
  BY <1>5, Zenon DEF ReadLength, Drain, Clear, Recv
<1>6. CASE UNCHANGED vars
  BY <1>6, Zenon DEF vars
<1> QED
  BY <1>1, <1>2, <1>3, <1>4, <1>5, <1>6, Zenon DEF Next, Handler, socketRecv

LEMMA NumbersStep ==
  ASSUME Numbers, [Next]_vars
  PROVE  Numbers'
<1> USE SegmentsAssumption
    DEF Numbers, HPCs, UPCs, stack, sem, fakefd, handler, user
<1>1. CASE Segment
  BY <1>1 DEF Segment
<1>2. CASE PeerCloses
  BY <1>2 DEF PeerCloses
<1>3. CASE V_test \/ V_release
  BY <1>3 DEF V_test, V_release
<1>4. CASE V_load \/ V_store
  BY <1>4 DEF V_load, V_store
<1>5. CASE V_write \/ W_load \/ W_store
  BY <1>5 DEF V_write, W_load, W_store
<1>6. CASE CallbackReturns
  BY <1>6 DEF CallbackReturns
<1>7. CASE Call
  BY <1>7 DEF Call
<1>8. CASE P_acquire
  BY <1>8 DEF P_acquire
<1>9. CASE P_load \/ P_store
  BY <1>9 DEF P_load, P_store
<1>10. CASE ReadLength \/ Clear
  BY <1>10 DEF ReadLength, Clear
<1>11. CASE Drain
  BY <1>11 DEF Drain
<1>12. CASE Recv
  BY <1>12 DEF Recv
<1>13. CASE UNCHANGED vars
  BY <1>13 DEF vars
<1> QED
  BY <1>1, <1>2, <1>3, <1>4, <1>5, <1>6, <1>7, <1>8, <1>9, <1>10, <1>11,
     <1>12, <1>13
  DEF Next, Handler, V_read, socketRecv, P_read

\* Preempted or not, nothing that arrived is dropped or read twice, and the
\* semaphore and the pipe never go below zero.
THEOREM TypeCorrect == Spec => []TypeOK
<1>1. Init => Flags
  BY Zenon DEF Init, Flags
<1>2. Init => Numbers
  BY SegmentsAssumption DEF Init, Numbers, HPCs, UPCs
<1>3. Flags /\ Numbers => TypeOK
  BY DEF Flags, Numbers, TypeOK
<1> QED
  BY <1>1, <1>2, <1>3, FlagsStep, NumbersStep, PTL DEF Spec

-----------------------------------------------------------------------------
(* The protocol, not preempted *)

\* The two threads are never both between a load and its store.
Exclusive == ~(HandlerInside /\ UserInside)

\* Where read_count differs from the semaphore, and by how much.
Copy ==
  /\ read_semaphore \in {0, 1}
  /\ hpc \in {"V_load", "V_store"} => read_semaphore = 1 /\ read_count = 0
  /\ hpc = "V_store" => hreg = 0
  /\ hpc = "release" => read_semaphore = 0 /\ upc \notin {"P_load", "P_store"}
  /\ upc \in {"P_load", "P_store"} => read_semaphore = 0 /\ read_count = 1
  /\ upc = "P_store" => ureg = 1
  /\ hpc \notin {"V_load", "V_store"} /\ upc \notin {"P_load", "P_store"} =>
       read_count = read_semaphore

\* With something to read, a reader that does not read yet has its token, or
\* V_read is about to give it one.
Awake == queue > 0 /\ upc \in {"idle", "acquire"} =>
           read_semaphore = 1 \/ hpc \in {"test", "release"}

\* Every counted character is in the pipe, and one that V_read has written
\* but not yet counted as well.
Characters ==
  LET uncounted == IF hpc \in {"W_load", "W_store"} THEN 1 ELSE 0
  IN /\ pipe >= uncounted
     /\ upc # "clear" => pipe >= read_written_characters + uncounted
     /\ upc = "drain" => ureg <= read_written_characters
     /\ hpc = "W_store" => hreg = read_written_characters

ProtocolInv == Exclusive /\ Copy /\ Awake /\ Characters

LEMMA ProtocolStarts == Init => ProtocolInv
BY DEF Init, ProtocolInv, Exclusive, HandlerInside, UserInside, Copy, Awake,
       Characters

\* One step of the handler thread.
LEMMA HandlerStep ==
  ASSUME Preemptive = FALSE, TypeOK, ProtocolInv,
         Segment \/ PeerCloses \/ Handler
  PROVE  ProtocolInv'
<1> USE DEF TypeOK, HPCs, UPCs, ProtocolInv, Exclusive, HandlerInside,
            UserInside, MayRunHandler, stack, sem, fakefd, handler, user
<1>1. CASE Segment
  BY <1>1 DEF Segment, Copy, Awake, Characters
<1>2. CASE PeerCloses
  BY <1>2 DEF PeerCloses, Copy, Awake, Characters
<1>3. CASE V_test
  BY <1>3 DEF V_test, Copy, Awake, Characters
<1>4. CASE V_release
  BY <1>4 DEF V_release, Copy, Awake, Characters
<1>5. CASE V_load
  BY <1>5 DEF V_load, Copy, Awake, Characters
<1>6. CASE V_store
  BY <1>6 DEF V_store, Copy, Awake, Characters
<1>7. CASE V_write
  BY <1>7 DEF V_write, Copy, Awake, Characters
<1>8. CASE W_load
  BY <1>8 DEF W_load, Copy, Awake, Characters
<1>9. CASE W_store
  BY <1>9 DEF W_store, Copy, Awake, Characters
<1>10. CASE CallbackReturns
  BY <1>10 DEF CallbackReturns, Copy, Awake, Characters
<1> QED
  BY <1>1, <1>2, <1>3, <1>4, <1>5, <1>6, <1>7, <1>8, <1>9, <1>10
  DEF Handler, V_read

\* One step of the user thread.
LEMMA UserStep ==
  ASSUME Preemptive = FALSE, TypeOK, ProtocolInv, Call \/ socketRecv
  PROVE  ProtocolInv'
<1> USE DEF TypeOK, HPCs, UPCs, ProtocolInv, Exclusive, HandlerInside,
            UserInside, MayRunUser, stack, sem, fakefd, handler, user
<1>1. CASE Call
  BY <1>1 DEF Call, Copy, Awake, Characters
<1>2. CASE P_acquire
  BY <1>2 DEF P_acquire, Copy, Awake, Characters
<1>3. CASE P_load
  BY <1>3 DEF P_load, Copy, Awake, Characters
<1>4. CASE P_store
  BY <1>4 DEF P_store, Copy, Awake, Characters
<1>5. CASE ReadLength
  BY <1>5 DEF ReadLength, Copy, Awake, Characters
<1>6. CASE Drain
  BY <1>6 DEF Drain, Copy, Awake, Characters
<1>7. CASE Clear
  BY <1>7 DEF Clear, Copy, Awake, Characters
<1>8. CASE Recv
  BY <1>8 DEF Recv, Copy, Awake, Characters
<1> QED
  BY <1>1, <1>2, <1>3, <1>4, <1>5, <1>6, <1>7, <1>8 DEF socketRecv, P_read

LEMMA ProtocolStep ==
  ASSUME Preemptive = FALSE, TypeOK, ProtocolInv, [Next]_vars
  PROVE  ProtocolInv'
<1>1. CASE UNCHANGED vars
  BY <1>1 DEF vars, stack, sem, fakefd, handler, user, ProtocolInv, Exclusive,
              HandlerInside, UserInside, Copy, Awake, Characters
<1> QED
  BY <1>1, HandlerStep, UserStep DEF Next

\* What the three properties need of the invariant.
LEMMA ProtocolMeans ==
  ASSUME TypeOK, ProtocolInv
  PROVE  NoLostWakeup /\ CountMatches /\ DrainHasCharacters
<1>1. NoLostWakeup
  BY DEF NoLostWakeup, ProtocolInv, Awake, TypeOK
<1>2. CountMatches
  BY DEF CountMatches, ProtocolInv, Copy
<1>3. DrainHasCharacters
  BY DEF DrainHasCharacters, ProtocolInv, Characters, TypeOK
<1> QED
  BY <1>1, <1>2, <1>3

LEMMA ProtocolHolds ==
  ASSUME Preemptive = FALSE
  PROVE  Spec => [](TypeOK /\ ProtocolInv)
<1>1. TypeOK /\ ProtocolInv /\ [Next]_vars => ProtocolInv'
  BY ProtocolStep
<1> QED
  BY <1>1, ProtocolStarts, TypeCorrect, PTL DEF Spec

\* With the lock given up only at the calls that give it up, for any number
\* of segments: a reader that waits while no callback runs waits for data
\* that has not arrived, so no wakeup of V_read is lost.
THEOREM WakeupNotLost == Preemptive = FALSE => (Spec => []NoLostWakeup)
<1> SUFFICES ASSUME Preemptive = FALSE PROVE Spec => []NoLostWakeup
  OBVIOUS
<1>1. TypeOK /\ ProtocolInv => NoLostWakeup
  BY ProtocolMeans
<1> QED
  BY <1>1, ProtocolHolds, PTL

\* Under the same condition, read_count is the value of the semaphore, which
\* is never above one.
THEOREM CountersAgree == Preemptive = FALSE => (Spec => []CountMatches)
<1> SUFFICES ASSUME Preemptive = FALSE PROVE Spec => []CountMatches
  OBVIOUS
<1>1. TypeOK /\ ProtocolInv => CountMatches
  BY ProtocolMeans
<1> QED
  BY <1>1, ProtocolHolds, PTL

\* Under the same condition, the read pipe holds every character that
\* P_read's caller has counted, so that it does not block in os.read.
THEOREM DrainDoesNotBlock == Preemptive = FALSE => (Spec => []DrainHasCharacters)
<1> SUFFICES ASSUME Preemptive = FALSE PROVE Spec => []DrainHasCharacters
  OBVIOUS
<1>1. TypeOK /\ ProtocolInv => DrainHasCharacters
  BY ProtocolMeans
<1> QED
  BY <1>1, ProtocolHolds, PTL
=============================================================================
