------------------------------ MODULE LwipWait ------------------------------
(***************************************************************************)
(* Waiting for a socket of LWIPv6 (lwipv6adapter.py): wait_for_read asks   *)
(* the stack for an event and reads the socket's pipe, event_callback, in  *)
(* a thread of the stack, writes a character to it and counts it.  The     *)
(* count says how many characters to read.  Waiting to write is the same   *)
(* with the other pipe, which is empty at first.                           *)
(*                                                                         *)
(* The stack is external: a subscription is refused when the socket is     *)
(* ready, and is used up by one call of the callback.  Data is consumed by *)
(* the call that follows, which waits in the stack while there is none.    *)
(***************************************************************************)
EXTENDS Naturals

CONSTANTS Initial,    \* characters _add_open_socket writes to the pipe
          MaxChars    \* bound on the characters, and on the count

VARIABLES pipe, written,   \* read_written_characters
          ready, subscribed, reader, callback

vars == <<pipe, written, ready, subscribed, reader, callback>>

Init == /\ pipe = Initial /\ written = Initial
        /\ ready = FALSE /\ subscribed = FALSE
        /\ reader = [pc |-> "idle", n |-> 0]
        /\ callback = [pc |-> "idle", n |-> 0]

At(p, pc) == p.pc = pc
-----------------------------------------------------------------------------
(* wait_for_read and socketRecv.                                           *)

Subscribe == /\ At(reader, "idle")
             /\ subscribed' = ~ready
             /\ reader' = [reader EXCEPT !.pc = IF ready THEN "recv" ELSE "count"]
             /\ UNCHANGED <<pipe, written, ready, callback>>
Count == /\ At(reader, "count") /\ reader' = [pc |-> "read", n |-> written]
         /\ UNCHANGED <<pipe, written, ready, subscribed, callback>>
\* os.read() returns what there is, at most n; of none it does not wait.
ReadPipe == /\ At(reader, "read") /\ (reader.n = 0 \/ pipe > 0)
            /\ pipe' = pipe - (IF reader.n < pipe THEN reader.n ELSE pipe)
            /\ reader' = [reader EXCEPT !.pc = "reset"]
            /\ UNCHANGED <<written, ready, subscribed, callback>>
Reset == /\ At(reader, "reset") /\ written' = 0
         /\ reader' = [pc |-> "recv", n |-> 0]
         /\ UNCHANGED <<pipe, ready, subscribed, callback>>
lwip_recv == /\ At(reader, "recv") /\ ready
             /\ ready' = FALSE /\ reader' = [pc |-> "idle", n |-> 0]
             /\ UNCHANGED <<pipe, written, subscribed, callback>>

-----------------------------------------------------------------------------
(* The stack, and event_callback.                                          *)

Arrive == /\ ~ready /\ ready' = TRUE
          /\ UNCHANGED <<pipe, written, subscribed, reader, callback>>
Event == /\ At(callback, "idle") /\ ready /\ subscribed
         /\ subscribed' = FALSE /\ callback' = [pc |-> "write", n |-> 0]
         /\ UNCHANGED <<pipe, written, ready, reader>>
\* (mutant: no character is written)
Write_CountOnly == /\ At(callback, "write")
                   /\ callback' = [pc |-> "load", n |-> 0]
                   /\ UNCHANGED <<pipe, written, ready, subscribed, reader>>
Write == /\ At(callback, "write") /\ pipe < MaxChars
         /\ pipe' = pipe + 1 /\ callback' = [pc |-> "load", n |-> 0]
         /\ UNCHANGED <<written, ready, subscribed, reader>>
Load == /\ At(callback, "load") /\ callback' = [pc |-> "store", n |-> written]
        /\ UNCHANGED <<pipe, written, ready, subscribed, reader>>
Store == /\ At(callback, "store") /\ callback.n < MaxChars /\ written' = callback.n + 1
         /\ callback' = [pc |-> "idle", n |-> 0]
         /\ UNCHANGED <<pipe, ready, subscribed, reader>>

Reader == Subscribe \/ Count \/ ReadPipe \/ Reset \/ lwip_recv
Callback == Write \/ Load \/ Store
Next == Reader \/ Callback \/ Arrive \/ Event
\* The threads are scheduled and the stack reports what arrives.
FairSpec == Init /\ [][Next]_vars /\ WF_vars(Reader) /\ WF_vars(Callback) /\ WF_vars(Event)

-----------------------------------------------------------------------------
(* Properties.                                                             *)

\* A reader that waits at an empty pipe will be woken: the stack still has
\* its subscription, or the callback has not written yet.  However the count
\* was read, reset and stored, it is never too high for that.
WaiterIsSubscribed ==
  At(reader, "read") /\ reader.n > 0 /\ pipe = 0 => subscribed \/ At(callback, "write")

\* A reader is not left at the pipe with data that has arrived.
DataIsRead == ready /\ At(reader, "read") ~> At(reader, "recv")

\* The comment "wait on the pipe for the read events": a reader goes on when
\* there is data.
\* (The code breaks it: see the README.)
WaitsForEvent == At(reader, "recv") => ready
=============================================================================
