---------------------------- MODULE MgmtService ----------------------------
(***************************************************************************)
(* What the front ends of pyvdetelweb expect of class Vde2Mgmt: a call     *)
(* sends one command to the management socket of the switch and returns    *)
(* the response to that command, and a command given to send() enters the  *)
(* history together with its response before the next call is answered.    *)
(* A call may also return without a response (Fail): the switch is gone.   *)
(* MgmtChannel is the code; it implements this module when a single thread *)
(* uses the socket.                                                        *)
(***************************************************************************)
EXTENDS Naturals, Sequences

CONSTANTS Clients,      \* the threads that call Vde2Mgmt
          Requests      \* what they may ask: records with an "id" and an "op"

VARIABLES asked,        \* asked[c]: the request thread c waits for, or None
          answered,     \* answered[c]: the id its last call was answered with
          log           \* ids of the requests in the history, oldest first

vars == <<asked, answered, log>>

None == [id |-> 0, op |-> "none", cmd |-> "none"]

Init == /\ asked    = [c \in Clients |-> None]
        /\ answered = [c \in Clients |-> 0]
        /\ log      = <<>>

Ask(c, r) == /\ asked[c] = None
             /\ asked' = [asked EXCEPT ![c] = r]
             /\ UNCHANGED <<answered, log>>

\* The response to the request of c, and of no other, is handed to c; the
\* request enters the history exactly when it was made through send().
Answer(c) == /\ asked[c] # None
             /\ answered' = [answered EXCEPT ![c] = asked[c].id]
             /\ log' = IF asked[c].op = "send" THEN Append(log, asked[c].id)
                                               ELSE log
             /\ asked' = [asked EXCEPT ![c] = None]

\* The switch has closed the connection: the call returns with what arrived.
Fail(c) == /\ asked[c] # None
           /\ answered' = [answered EXCEPT ![c] = 0]
           /\ log' \in {log, Append(log, asked[c].id)}
           /\ asked' = [asked EXCEPT ![c] = None]

Next == \E c \in Clients : \/ \E r \in Requests : Ask(c, r)
                           \/ Answer(c)
                           \/ Fail(c)

Spec == Init /\ [][Next]_vars
=============================================================================
