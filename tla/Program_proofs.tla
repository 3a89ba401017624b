--------------------------- MODULE Program_proofs ---------------------------
(***************************************************************************)
(* Proofs about MCProgram: the invariants of its components hold for every *)
(* value of the constants, and so in the composed program. MgmtChannel has *)
(* its proofs in a module of its own; those about PicoAccept, FileObject,  *)
(* LwipSockets, SocketBoxes, FrontEnds and PycoList are here.              *)
(***************************************************************************)
EXTENDS MCProgram, SequenceTheorems, FiniteSetTheorems, WellFoundedInduction, TLAPS

\* A set of natural numbers that is not empty has a least one.
LEMMA SmallestExists ==
  ASSUME NEW T \in SUBSET Nat, T # {}
  PROVE  \E m \in T : \A k \in T : m <= k
<1>1. IsWellFoundedOn(OpToRel(<, Nat), Nat)
  BY NatLessThanWellFounded
<1>2. \E m \in T : \A k \in T : ~(<<k, m>> \in OpToRel(<, Nat))
  BY <1>1, WFMin
<1>3. \A k, m \in Nat : ~(<<k, m>> \in OpToRel(<, Nat)) => m <= k
  BY DEF OpToRel
<1> QED
  BY <1>2, <1>3

-----------------------------------------------------------------------------
(* PicoAccept: accepting and sending                                       *)

\* PicoAccept, for any set of connections, backlog and pipe: what the listener
\* counts (PendingCounted) and what it promises through the accept semaphore
\* (TokenPerConnection) are cardinalities of sets of connections, and each step
\* moves at most one connection in or out of them.

Pending == {c \in Conns : HasParent(c)}
Established == {c \in Conns : st[c] = "established"}

\* Counting.

\* A set of connections is finite, and counts as a natural number.
LEMMA ConnsFinite ==
  ASSUME NEW S \in SUBSET Conns
  PROVE  IsFiniteSet(S) /\ Cardinality(S) \in Nat
BY ConnsAssumption, FS_Subset, FS_CardinalityType

\* One connection more counts one more.
LEMMA OneMore ==
  ASSUME NEW S \in SUBSET Conns, NEW c \in Conns, c \notin S
  PROVE  Cardinality(S \cup {c}) = Cardinality(S) + 1
BY ConnsFinite, FS_AddElement

\* One connection less counts one less, and there was one to count.
LEMMA OneLess ==
  ASSUME NEW S \in SUBSET Conns, NEW c \in S
  PROVE  /\ Cardinality(S \ {c}) = Cardinality(S) - 1
         /\ Cardinality(S) > 0
<1>1. Cardinality(S \ {c}) = Cardinality(S) - 1
  BY ConnsFinite, FS_RemoveElement
<1>2. Cardinality(S \ {c}) \in Nat /\ Cardinality(S) \in Nat
  BY ConnsFinite
<1> QED
  BY <1>1, <1>2

\* A connection whose state is the only one that changes.
LEMMA Moves ==
  ASSUME NEW c \in Conns, NEW x, TypeOK,
         st' = [st EXCEPT ![c] = x]
  PROVE  /\ Pending' = IF x \in {"syn_recv", "established"}
                         THEN Pending \cup {c} ELSE Pending \ {c}
         /\ Established' = IF x = "established"
                             THEN Established \cup {c} ELSE Established \ {c}
BY DEF Pending, Established, HasParent, TypeOK

\* Types, and the count of the pending connections.

\* The actions of TypeOK need the count to be above zero where it goes down,
\* so the two invariants are proved together.
TypeAndCount == TypeOK /\ PendingCounted

LEMMA StartCounted == Init => TypeAndCount
<1> SUFFICES ASSUME Init PROVE TypeAndCount
  OBVIOUS
<1>1. TypeOK
  BY BacklogAssumption DEF Init, TypeOK
<1>2. {c \in Conns : HasParent(c)} = {}
  BY DEF Init, HasParent
<1> QED
  BY <1>1, <1>2, FS_EmptySet, BacklogAssumption
  DEF TypeAndCount, PendingCounted, Init

\* The steps that open, establish, accept and delete a connection.
LEMMA CountedStep ==
  ASSUME TypeAndCount, [Next]_vars
  PROVE  PendingCounted'
<1> USE BacklogAssumption, ConnsAssumption DEF TypeAndCount
<1>0. /\ number_of_pending_conn = Cardinality(Pending)
      /\ number_of_pending_conn <= Backlog
      /\ number_of_pending_conn \in Nat
      /\ Pending \in SUBSET Conns
  BY DEF PendingCounted, Pending, TypeOK
<1> SUFFICES /\ number_of_pending_conn' = Cardinality(Pending')
             /\ number_of_pending_conn' <= Backlog
  BY DEF PendingCounted, Pending
<1>1. ASSUME NEW c \in Conns, Syn(c)
      PROVE  /\ number_of_pending_conn' = Cardinality(Pending')
             /\ number_of_pending_conn' <= Backlog
  <2>1. c \notin Pending
    BY <1>1 DEF Syn, Pending, HasParent
  <2>2. Pending' = Pending \cup {c}
    BY <1>1, Moves DEF Syn
  <2>3. Cardinality(Pending') = Cardinality(Pending) + 1
    BY <2>1, <2>2, <1>0, OneMore
  <2> QED
    BY <2>3, <1>0, <1>1 DEF Syn
<1>2. ASSUME NEW c \in Conns, FirstAck(c)
      PROVE  /\ number_of_pending_conn' = Cardinality(Pending')
             /\ number_of_pending_conn' <= Backlog
  <2>1. c \in Pending
    BY <1>2 DEF FirstAck, Pending, HasParent
  <2>2. Pending' = Pending \cup {c}
    BY <1>2, Moves DEF FirstAck
  <2>3. Pending' = Pending
    BY <2>1, <2>2
  <2> QED
    BY <2>3, <1>0, <1>2 DEF FirstAck
<1>3. ASSUME NEW c \in Conns, Reset(c)
      PROVE  /\ number_of_pending_conn' = Cardinality(Pending')
             /\ number_of_pending_conn' <= Backlog
  <2>1. Pending' = Pending \ {c}
    BY <1>3, Moves DEF Reset
  <2>2. CASE HasParent(c)
    <3>1. c \in Pending
      BY <2>2 DEF Pending
    <3> QED
      BY <3>1, <2>1, <2>2, <1>0, <1>3, OneLess DEF Reset
  <2>3. CASE ~HasParent(c)
    <3>1. Pending \ {c} = Pending
      BY <2>3 DEF Pending
    <3> QED
      BY <3>1, <2>1, <2>3, <1>0, <1>3 DEF Reset
  <2> QED
    BY <2>2, <2>3
<1>4. CASE Accept
  <2>1. ASSUME NEW c \in Conns, st[c] = "established",
               st' = [st EXCEPT ![c] = "accepted"],
               number_of_pending_conn' = number_of_pending_conn - 1
        PROVE  /\ number_of_pending_conn' = Cardinality(Pending')
               /\ number_of_pending_conn' <= Backlog
    <3>1. c \in Pending
      BY <2>1 DEF Pending, HasParent
    <3>2. Pending' = Pending \ {c}
      BY <2>1, Moves
    <3> QED
      BY <3>1, <3>2, <2>1, <1>0, OneLess
  <2>2. CASE UNCHANGED <<st, number_of_pending_conn>>
    BY <2>2, <1>0 DEF Pending, HasParent
  <2> QED
    BY <1>4, <2>1, <2>2 DEF Accept
<1>5. CASE UNCHANGED <<st, number_of_pending_conn>>
  BY <1>5, <1>0 DEF Pending, HasParent
<1>6. ASSUME Callback \/ P_accept \/ Register \/ P_write \/ Send \/ UNCHANGED vars
      PROVE  UNCHANGED <<st, number_of_pending_conn>>
  BY <1>6 DEF Callback, V_accept, V_pipe, V_write, P_accept, Register, P_write,
              Send, vars, stack
<1>7. ASSUME NEW c \in Conns, Deliver(c) \/ Ack(c)
      PROVE  UNCHANGED <<st, number_of_pending_conn>>
  BY <1>7 DEF Deliver, Ack, stack
<1> QED
  BY <1>1, <1>2, <1>3, <1>4, <1>5, <1>6, <1>7 DEF Next, Server, Tick

LEMMA TypeStep ==
  ASSUME TypeAndCount, [Next]_vars
  PROVE  TypeOK'
<1> USE ConnsAssumption, BacklogAssumption, FlagsAssumption DEF TypeOK
<1>0. TypeOK /\ PendingCounted
  BY DEF TypeAndCount
<1>1. ASSUME NEW c \in Conns, Syn(c) PROVE TypeOK'
  BY <1>0, <1>1 DEF Syn, handler, server, adapter
<1>2. ASSUME NEW c \in Conns, FirstAck(c) PROVE TypeOK'
  BY <1>0, <1>2 DEF FirstAck, server, adapter
<1>3. ASSUME NEW c \in Conns, Deliver(c) PROVE TypeOK'
  BY <1>0, <1>3 DEF Deliver, stack, server, adapter
<1>4. ASSUME NEW c \in Conns, Ack(c) PROVE TypeOK'
  BY <1>0, <1>4 DEF Ack, server, adapter
<1>5. CASE V_accept
  BY <1>0, <1>5 DEF V_accept, stack, server
<1>6. CASE V_pipe
  BY <1>0, <1>6 DEF V_pipe, server
<1>7. CASE V_write
  BY <1>0, <1>7 DEF V_write, server
<1>8. CASE P_accept
  BY <1>0, <1>8 DEF P_accept, stack, handler
<1>9. CASE Register
  BY <1>0, <1>9 DEF Register, stack, handler
<1>10. CASE P_write
  BY <1>0, <1>10 DEF P_write, stack, handler
<1>11. CASE Send
  BY <1>0, <1>11 DEF Send, adapter, handler
<1>12. CASE UNCHANGED vars
  BY <1>0, <1>12 DEF vars, stack, adapter, handler, server
<1>13. number_of_pending_conn' \in Nat
  <2>1. Pending' \in SUBSET Conns /\ number_of_pending_conn' = Cardinality(Pending')
    BY CountedStep DEF PendingCounted, Pending
  <2> QED
    BY <2>1, ConnsFinite
<1>14. ASSUME NEW c \in Conns, Reset(c) PROVE TypeOK'
  BY <1>0, <1>13, <1>14 DEF Reset, adapter, handler, server
<1>15. CASE Accept
  BY <1>0, <1>13, <1>15 DEF Accept, adapter, handler
<1> QED
  BY <1>1, <1>2, <1>3, <1>4, <1>5, <1>6, <1>7, <1>8, <1>9, <1>10, <1>11,
     <1>12, <1>14, <1>15 DEF Next, Callback, Server, Tick

LEMMA Counted == Spec => []TypeAndCount
<1>1. TypeAndCount /\ [Next]_vars => TypeAndCount'
  BY CountedStep, TypeStep DEF TypeAndCount
<1> QED
  BY <1>1, StartCounted, PTL DEF Spec

\* Whatever peers, handler and server do, every variable stays within the
\* states TypeOK lists: the write semaphore, released only when it is down,
\* never goes above one.
THEOREM TypeCorrect == Spec => []TypeOK
<1>1. TypeAndCount => TypeOK
  BY DEF TypeAndCount
<1> QED
  BY <1>1, Counted, PTL

\* number_of_pending_conn, kept by tcp_syn, pico_socket_accept and
\* pico_socket_tcp_delete, is the number of connections nobody has accepted,
\* and they are never more than the backlog, resets included.
THEOREM BacklogRespected == Spec => []PendingCounted
<1>1. TypeAndCount => PendingCounted
  BY DEF TypeAndCount
<1> QED
  BY <1>1, Counted, PTL

\* One token for each connection that waits.

\* An established connection leaves that state only by being accepted, so
\* while peers do not reset connections there is a token for each.
TokenInv == TypeOK /\ TokenPerConnection /\ AcceptNeverRaises

LEMMA StartTokens == Init => TokenPerConnection /\ AcceptNeverRaises
<1> SUFFICES ASSUME Init PROVE TokenPerConnection /\ AcceptNeverRaises
  OBVIOUS
<1>1. {c \in Conns : st[c] = "established"} = {}
  BY DEF Init
<1> QED
  BY <1>1, FS_EmptySet DEF Init, TokenPerConnection, AcceptNeverRaises, Tokens

\* A server that has taken its token finds a connection to accept.
LEMMA SomethingToAccept ==
  ASSUME TypeOK, TokenPerConnection, upc = "accept"
  PROVE  \E c \in Conns : st[c] = "established"
<1>1. Tokens > 0
  BY DEF Tokens, TypeOK
<1>2. Established # {}
  BY <1>1, FS_EmptySet DEF TokenPerConnection, Established
<1> QED
  BY <1>2 DEF Established

LEMMA TokenStep ==
  ASSUME MayReset = FALSE, TypeOK, TokenPerConnection, AcceptNeverRaises,
         [Next]_vars
  PROVE  TokenPerConnection' /\ AcceptNeverRaises'
<1>0. /\ Tokens = Cardinality(Established)
      /\ Established \in SUBSET Conns
      /\ accept_semaphore \in Nat
  BY DEF TokenPerConnection, Established, TypeOK
<1> SUFFICES /\ Tokens' = Cardinality(Established')
             /\ AcceptNeverRaises'
  BY DEF TokenPerConnection, Established
<1> USE DEF AcceptNeverRaises, Tokens
<1>1. ASSUME NEW c \in Conns, FirstAck(c)
      PROVE  Tokens' = Cardinality(Established') /\ AcceptNeverRaises'
  <2>1. c \notin Established
    BY <1>1 DEF FirstAck, Established
  <2>2. Established' = Established \cup {c}
    BY <1>1, Moves DEF FirstAck
  <2>3. Cardinality(Established') = Cardinality(Established) + 1
    BY <2>1, <2>2, <1>0, OneMore
  <2>4. /\ hpc = "tick" /\ hpc' = "V_accept"
        /\ UNCHANGED <<upc, accept_semaphore>>
    BY <1>1 DEF FirstAck, adapter, server
  <2> QED
    BY <2>3, <2>4, <1>0
<1>2. ASSUME NEW c \in Conns, Syn(c) \/ Reset(c)
      PROVE  Tokens' = Cardinality(Established') /\ AcceptNeverRaises'
  <2>1. c \notin Established
    BY <1>2 DEF Syn, Reset, Established
  <2>2. Established' = Established \ {c}
    BY <1>2, Moves DEF Syn, Reset
  <2>3. Established' = Established
    BY <2>1, <2>2
  <2>4. UNCHANGED <<hpc, upc, accept_semaphore>>
    BY <1>2 DEF Syn, Reset, adapter, handler, server
  <2> QED
    BY <2>3, <2>4, <1>0
<1>3. CASE Accept
  <2>1. PICK c \in Conns : /\ st[c] = "established"
                           /\ st' = [st EXCEPT ![c] = "accepted"]
                           /\ upc' = "register"
    BY <1>3, SomethingToAccept DEF Accept
  <2>2. c \in Established
    BY <2>1 DEF Established
  <2>3. Established' = Established \ {c}
    BY <2>1, Moves
  <2>4. Cardinality(Established') = Cardinality(Established) - 1
    BY <2>2, <2>3, <1>0, OneLess
  <2>5. upc = "accept" /\ UNCHANGED <<hpc, accept_semaphore>>
    BY <1>3 DEF Accept, adapter, handler
  <2> QED
    BY <2>1, <2>4, <2>5, <1>0
<1>4. CASE V_accept
  BY <1>4, <1>0 DEF V_accept, stack, server, Established
<1>5. CASE P_accept
  BY <1>5, <1>0 DEF P_accept, stack, handler, Established
<1>6. CASE V_pipe \/ V_write
  BY <1>6, <1>0 DEF V_pipe, V_write, server, Established
<1>7. CASE Register \/ P_write \/ Send
  BY <1>7, <1>0, FlagsAssumption
  DEF Register, P_write, Send, stack, adapter, handler, Established
<1>8. ASSUME NEW c \in Conns, Deliver(c) \/ Ack(c)
      PROVE  Tokens' = Cardinality(Established') /\ AcceptNeverRaises'
  BY <1>8, <1>0 DEF Deliver, Ack, stack, adapter, server, Established
<1>9. CASE UNCHANGED vars
  BY <1>9, <1>0 DEF vars, stack, adapter, handler, server, Established
<1> QED
  BY <1>1, <1>2, <1>3, <1>4, <1>5, <1>6, <1>7, <1>8, <1>9
  DEF Next, Callback, Server, Tick

\* The accept semaphore, with the token the server holds and the one the
\* handler is about to release, counts exactly the established connections,
\* so a server woken by P_accept never raises: for any number of connections
\* and any backlog, as long as no peer resets a connection.
THEOREM TokensMatch ==
  MayReset = FALSE => (Spec => [](TokenPerConnection /\ AcceptNeverRaises))
<1> SUFFICES ASSUME MayReset = FALSE
             PROVE  Spec => [](TokenPerConnection /\ AcceptNeverRaises)
  OBVIOUS
<1>1. Init => TokenInv
  BY StartTokens, StartCounted DEF TokenInv, TypeAndCount
<1>2. TypeOK /\ TokenInv /\ [Next]_vars /\ TypeOK' => TokenInv'
  BY TokenStep DEF TokenInv
<1>3. TokenInv => TokenPerConnection /\ AcceptNeverRaises
  BY DEF TokenInv
<1> QED
  BY <1>1, <1>2, <1>3, TypeCorrect, PTL DEF Spec

-----------------------------------------------------------------------------
(* FileObject: the stream that read and readline return                      *)

\* A call for 0 characters, which returns at once, is not modelled: 0 is how
\* Enough says that a call has to go on.
Parameters == /\ Length \in Nat /\ Slice \in Nat /\ RBufSize \in Int
              /\ Sizes \subseteq Int \ {0}

NoNewline(s) == \A k \in 1..Len(s) : s[k] \notin Newlines

\* First and Rest cut a sequence in two.
LEMMA FirstAndRest ==
  ASSUME NEW s \in Seq(Nat), NEW n \in Nat
  PROVE  /\ File!First(s, n) \in Seq(Nat) /\ File!Rest(s, n) \in Seq(Nat)
         /\ File!First(s, n) \o File!Rest(s, n) = s
         /\ Len(File!First(s, n)) = IF n < Len(s) THEN n ELSE Len(s)
         /\ \A k \in 1..Len(File!First(s, n)) : File!First(s, n)[k] = s[k]
<1>1. CASE n < Len(s)
  <2>1. File!First(s, n) = SubSeq(s, 1, n) /\ File!Rest(s, n) = SubSeq(s, n + 1, Len(s))
    BY <1>1 DEF File!First, File!Rest
  <2>2. \A i \in 1..n : s[i] \in Nat
    BY <1>1, ElementOfSeq
  <2>3. SubSeq(s, 1, n) \in Seq(Nat) /\ Len(SubSeq(s, 1, n)) = n
        /\ \A k \in 1..n : SubSeq(s, 1, n)[k] = s[k]
    BY <2>2, SubSeqProperties
  <2>4. \A i \in n + 1..Len(s) : s[i] \in Nat
    BY <1>1, ElementOfSeq
  <2>5. SubSeq(s, n + 1, Len(s)) \in Seq(Nat)
    BY <2>4, SubSeqProperties
  <2>6. SubSeq(s, 1, n) \o SubSeq(s, n + 1, Len(s)) = SubSeq(s, 1, Len(s))
    <3>1. 1 \in 1..Len(s) + 1 /\ n \in 1 - 1..Len(s) /\ Len(s) \in n..Len(s)
      BY <1>1
    <3> QED
      BY <3>1, ConcatAdjacentSubSeq, Zenon
  <2>7. SubSeq(s, 1, Len(s)) = s
    BY SubSeqFull
  <2> QED
    BY <1>1, <2>1, <2>3, <2>5, <2>6, <2>7
<1>2. CASE ~(n < Len(s))
  <2>1. File!First(s, n) = s
    BY <1>2, SubSeqFull DEF File!First
  <2>2. File!Rest(s, n) = <<>>
    BY <1>2, SubSeqEmpty DEF File!Rest
  <2> QED
    BY <1>2, <2>1, <2>2, ConcatEmptySeq
<1> QED
  BY <1>1, <1>2

\* LineLength ends at the first newline, or there is none.
LEMMA LineIsFirst ==
  ASSUME NEW s \in Seq(Nat)
  PROVE  /\ File!LineLength(s) \in 0..Len(s)
         /\ File!LineLength(s) = 0 => NoNewline(s)
         /\ File!LineLength(s) > 0 => /\ s[File!LineLength(s)] \in Newlines
                                 /\ \A k \in 1..File!LineLength(s) : s[k] \in Newlines => k = File!LineLength(s)
<1> DEFINE at == {i \in 1..Len(s) : s[i] \in Newlines}
<1>1. CASE at = {}
  BY <1>1 DEF File!LineLength, NoNewline
<1>2. CASE at # {}
  <2>1. at \in SUBSET Nat
    OBVIOUS
  <2>2. \E m \in at : \A k \in at : m <= k
    BY <1>2, <2>1, SmallestExists
  <2>3. File!Min(at) \in at /\ \A k \in at : File!Min(at) <= k
    BY <2>2 DEF File!Min
  <2>4. File!LineLength(s) = File!Min(at)
    BY <1>2 DEF File!LineLength
  <2>5. File!Min(at) \in 1..Len(s) /\ s[File!Min(at)] \in Newlines
    BY <2>3
  <2>6. \A k \in 1..File!Min(at) : s[k] \in Newlines => k = File!Min(at)
    <3> SUFFICES ASSUME NEW k \in 1..File!Min(at), s[k] \in Newlines
                 PROVE  k = File!Min(at)
      OBVIOUS
    <3>1. k \in at
      BY <2>5
    <3> QED
      BY <2>3, <2>5, <3>1
  <2> QED
    BY <2>4, <2>5, <2>6
<1> QED
  BY <1>1, <1>2

\* What Enough returns of a readline is a line, or as much as was asked for.
LEMMA EnoughIsALine ==
  ASSUME NEW s \in Seq(Nat), NEW op, NEW size \in Int \ {0}, NEW n, n = File!Enough(op, size, s)
  PROVE  /\ n \in 0..Len(s)
         /\ n = 0 => /\ size >= 0 => Len(s) < size
                     /\ op = "readline" => NoNewline(s)
         /\ n > 0 => /\ size >= 0 => n <= size
                     /\ op = "readline" => \A k \in 1..n : s[k] \in Newlines => k = n
                     /\ n = size \/ (op = "readline" /\ s[n] \in Newlines)
<1> DEFINE want == IF size < 0 THEN s ELSE File!First(s, size)
           line == IF op = "readline" THEN File!LineLength(want) ELSE 0
<1>1. /\ want \in Seq(Nat) /\ Len(want) <= Len(s)
      /\ \A k \in 1..Len(want) : want[k] = s[k]
      /\ size >= 0 => Len(want) = IF size < Len(s) THEN size ELSE Len(s)
      /\ size < 0 => want = s
  <2>1. CASE size < 0
    BY <2>1
  <2>2. CASE ~(size < 0)
    BY <2>2, FirstAndRest
  <2> QED
    BY <2>1, <2>2
<1>2. File!LineLength(want) \in 0..Len(want)
  BY <1>1, LineIsFirst
<1>3. line \in 0..Len(want)
  BY <1>1, <1>2
<1>4. n = CASE line > 0 -> line
            [] line = 0 /\ size >= 0 /\ Len(s) >= size -> size
            [] OTHER -> 0
  BY DEF File!Enough
<1>5. line > 0 => n = line
  BY <1>3, <1>4
<1>6. line = 0 => n = IF size >= 0 /\ Len(s) >= size THEN size ELSE 0
  BY <1>3, <1>4
<1>7. CASE line > 0
  <2>1. op = "readline" /\ n = File!LineLength(want) /\ n > 0
    BY <1>5, <1>7
  <2>2. want[n] \in Newlines /\ \A k \in 1..n : want[k] \in Newlines => k = n
    BY <1>1, <2>1, LineIsFirst
  <2>3. n \in 1..Len(want)
    BY <1>2, <2>1
  <2> HIDE DEF want
  <2>4. n \in 0..Len(s) /\ (size >= 0 => n <= size)
    BY <1>1, <2>3
  <2>5. \A k \in 1..n : want[k] = s[k]
    BY <1>1, <2>3
  <2>6. s[n] \in Newlines /\ \A k \in 1..n : s[k] \in Newlines => k = n
    BY <2>1, <2>2, <2>3, <2>5
  <2> QED
    BY <2>1, <2>4, <2>6
<1>8. CASE line = 0
  <2>1. op = "readline" => NoNewline(want)
    BY <1>1, <1>8, LineIsFirst
  <2> HIDE DEF want, line
  <2>2. CASE size >= 0 /\ Len(s) >= size
    <3>1. n = size /\ Len(want) = size
      BY <1>1, <1>6, <1>8, <2>2
    <3>2. op = "readline" => \A k \in 1..n : s[k] \notin Newlines
      BY <1>1, <2>1, <3>1 DEF NoNewline
    <3>3. n \in 0..Len(s) /\ n > 0 /\ n # 0 /\ n <= size
      BY <2>2, <3>1
    <3>4. op = "readline" => \A k \in 1..n : s[k] \in Newlines => k = n
      BY <3>2
    <3>5. ~(n = 0) /\ (n = size \/ (op = "readline" /\ s[n] \in Newlines))
      BY <3>1, <3>3
    <3>6. size >= 0 => n <= size
      BY <3>3
    <3> QED
      BY <3>3, <3>4, <3>5, <3>6, Zenon
  <2>3. CASE ~(size >= 0 /\ Len(s) >= size)
    <3>1. n = 0 /\ Len(want) = Len(s)
      BY <1>1, <1>6, <1>8, <2>3
    <3>2. op = "readline" => NoNewline(s)
      BY <1>1, <2>1, <3>1 DEF NoNewline
    <3> QED
      BY <2>3, <3>1, <3>2
  <2> QED
    BY <2>2, <2>3
<1> QED
  BY <1>3, <1>7, <1>8

FileTypes ==
  /\ unread \in Seq(Nat) /\ rbuf \in Seq(Nat) /\ given \in Seq(Nat)
  /\ call \in [op : {"none", "read", "readline"}, size : Int, buf : Seq(Nat)]
  /\ last.data \in Seq(Nat) /\ last.size \in Int

\* A call that waits for recv() has moved _rbuf to buf, which is not enough.
CallWaits ==
  /\ call.op = "none" => call.buf = <<>>
  /\ call.op # "none" => /\ rbuf = <<>> /\ call.size # 0
                         /\ call.size >= 0 => Len(call.buf) < call.size
                         /\ call.op = "readline" => NoNewline(call.buf)

ReadInv == FileTypes /\ CallWaits /\ File!StreamKept /\ File!LinesAreLines

\* The stream numbers its characters.
LEMMA StreamOne ==
  ASSUME NEW n \in Nat
  PROVE  File!Stream(n) \in Seq(Nat) /\ Len(File!Stream(n)) = n /\ \A i \in 1..n : File!Stream(n)[i] = i
BY DEF File!Stream

\* Concatenation may be grouped in any way: what was given, what is in the
\* buffers and what is to come.
LEMMA FourParts ==
  ASSUME NEW a \in Seq(Nat), NEW b \in Seq(Nat), NEW c \in Seq(Nat), NEW d \in Seq(Nat)
  PROVE  /\ a \o b \in Seq(Nat)
         /\ (a \o b) \o c = a \o (b \o c)
         /\ ((a \o b) \o c) \o d = (a \o b) \o (c \o d)
         /\ ((a \o b) \o c) \o d = (a \o (b \o c)) \o d
         /\ a \o <<>> = a /\ <<>> \o a = a
<1>1. a \o b \in Seq(Nat) /\ b \o c \in Seq(Nat) /\ c \o d \in Seq(Nat)
  OBVIOUS
<1>2. (a \o b) \o c = a \o (b \o c)
  OBVIOUS
<1>3. ((a \o b) \o c) \o d = (a \o b) \o (c \o d)
  BY <1>1
<1> QED
  BY <1>1, <1>2, <1>3, ConcatEmptySeq

LEMMA Regroup ==
  ASSUME NEW a \in Seq(Nat), NEW b \in Seq(Nat), NEW c \in Seq(Nat)
  PROVE  (a \o b) \o c = a \o (b \o c)
OBVIOUS

\* What Return takes from s = buf \o d and leaves.
LEMMA ReturnKeeps ==
  ASSUME FileTypes, CallWaits, Parameters, NEW op \in {"read", "readline"}, NEW size \in Int \ {0},
         NEW s \in Seq(Nat), NEW buf, NEW n \in 1..Len(s), n = File!Enough(op, size, s),
         File!Return([op |-> op, size |-> size, buf |-> buf], File!First(s, n), File!Rest(s, n)),
         unread' \in Seq(Nat),
         ~lost => given \o s \o unread' = File!Stream(Length)
  PROVE  ReadInv'
<1>0. n \in Nat /\ n <= Len(s)
  OBVIOUS
<1>1. /\ File!First(s, n) \in Seq(Nat) /\ File!Rest(s, n) \in Seq(Nat)
      /\ File!First(s, n) \o File!Rest(s, n) = s
      /\ Len(File!First(s, n)) = n
      /\ \A k \in 1..n : File!First(s, n)[k] = s[k]
  <2>1. Len(File!First(s, n)) = IF n < Len(s) THEN n ELSE Len(s)
    BY <1>0, FirstAndRest, Zenon
  <2>2. Len(File!First(s, n)) = n
    BY <1>0, <2>1
  <2> QED
    BY <1>0, <2>2, FirstAndRest, Zenon
<1>2. /\ given' = given \o File!First(s, n) /\ rbuf' = File!Rest(s, n) /\ call' = File!Idle /\ lost' = lost
      /\ last' = [op |-> op, size |-> size, data |-> File!First(s, n),
                  eof |-> File!Rest(s, n) = <<>> /\ unread' = <<>>]
  BY DEF File!Return
<1>3. given' \in Seq(Nat)
  BY <1>1, <1>2, ConcatProperties DEF FileTypes
<1>4. FileTypes' /\ CallWaits'
  BY <1>1, <1>2, <1>3 DEF FileTypes, CallWaits, File!Idle
<1>5. File!StreamKept'
  <2> SUFFICES ASSUME ~lost PROVE given' \o rbuf' \o call'.buf \o unread' = File!Stream(Length)
    BY <1>2 DEF File!StreamKept
  <2>1. call'.buf = <<>>
    BY <1>2 DEF File!Idle
  <2>2. given \in Seq(Nat)
    BY DEF FileTypes
  <2>4. given' \o rbuf' = given \o File!First(s, n) \o File!Rest(s, n)
    BY <1>2
  <2>5. given' \o rbuf' = given \o (File!First(s, n) \o File!Rest(s, n))
    <3>1. given \o File!First(s, n) \o File!Rest(s, n) = given \o (File!First(s, n) \o File!Rest(s, n))
      BY <1>1, <2>2, Regroup
    <3> QED
      BY <2>4, <3>1
  <2>6. given' \o rbuf' = given \o s
    BY <1>1, <2>5
  <2>3. given \o s \in Seq(Nat)
    BY FourParts DEF FileTypes
  <2> QED
    BY <2>1, <2>3, <2>6, ConcatEmptySeq
<1>6. File!LinesAreLines'
  <2>1. /\ last'.data = File!First(s, n) /\ last'.size = size /\ last'.op = op
        /\ Len(last'.data) = n
    BY <1>1, <1>2
  <2>2. /\ size >= 0 => n <= size
        /\ op = "readline" => \A k \in 1..n : s[k] \in Newlines => k = n
        /\ n = size \/ (op = "readline" /\ s[n] \in Newlines)
    BY EnoughIsALine
  <2>3. op = "readline" => \A k \in 1..n : last'.data[k] \in Newlines => k = n
    BY <1>1, <2>1, <2>2
  <2>4. n = size \/ (op = "readline" /\ n > 0 /\ last'.data[n] \in Newlines)
    BY <1>1, <2>1, <2>2
  <2> QED
    BY <2>1, <2>2, <2>3, <2>4 DEF File!LinesAreLines
<1> QED
  BY <1>4, <1>5, <1>6 DEF ReadInv

\* read and readline find enough in _rbuf, or move it to buf and wait.
LEMMA BeginStep ==
  ASSUME ReadInv, Parameters, NEW op \in {"read", "readline"}, NEW size \in Sizes, File!Begin(op, size)
  PROVE  ReadInv'
<1>1. size \in Int \ {0}
  BY DEF Parameters
<1>2. PICK n : n = File!Enough(op, size, rbuf)
  OBVIOUS
<1>3. rbuf \in Seq(Nat) /\ n \in 0..Len(rbuf)
  BY <1>1, <1>2, EnoughIsALine DEF ReadInv, FileTypes
<1>4. call = File!Idle /\ call.buf = <<>>
  BY DEF File!Begin, File!Idle
<1>5. ~lost => given \o rbuf \o unread = File!Stream(Length)
  <2>1. given \o rbuf \in Seq(Nat)
    BY FourParts DEF ReadInv, FileTypes
  <2>2. given \o rbuf \o <<>> = given \o rbuf
    BY <2>1, ConcatEmptySeq
  <2> QED
    BY <1>4, <2>2 DEF ReadInv, File!StreamKept
<1>6. CASE n > 0
  <2>1. File!Return([op |-> op, size |-> size, buf |-> rbuf], File!First(rbuf, n), File!Rest(rbuf, n))
        /\ unread' = unread
    BY <1>2, <1>6 DEF File!Begin
  <2>2. n \in 1..Len(rbuf)
    BY <1>3, <1>6
  <2> QED
    BY <1>1, <1>2, <1>3, <1>5, <2>1, <2>2, ReturnKeeps DEF ReadInv, FileTypes
<1>7. CASE ~(n > 0)
  <2>1. /\ call' = [op |-> op, size |-> size, buf |-> rbuf] /\ rbuf' = <<>>
        /\ UNCHANGED <<unread, given, last, lost>>
    BY <1>2, <1>7 DEF File!Begin
  <2>2. /\ size >= 0 => Len(rbuf) < size
        /\ op = "readline" => NoNewline(rbuf)
    BY <1>1, <1>2, <1>3, <1>7, EnoughIsALine
  <2>3. FileTypes' /\ CallWaits'
    BY <1>1, <1>3, <2>1, <2>2 DEF ReadInv, FileTypes, CallWaits, NoNewline
  <2>4. File!StreamKept'
    BY <1>5, <2>1, FourParts DEF ReadInv, File!StreamKept, FileTypes
  <2> QED
    BY <2>1, <2>3, <2>4 DEF ReadInv, File!LinesAreLines
<1> QED
  BY <1>3, <1>6, <1>7

\* recv cuts off the next chunk: it is enough, the stream has ended, or the
\* call waits on.
LEMMA RecvStep ==
  ASSUME ReadInv, Parameters, File!Recv
  PROVE  ReadInv'
<1>0. /\ call.op \in {"read", "readline"} /\ call.size \in Int \ {0} /\ call.buf \in Seq(Nat)
      /\ rbuf = <<>> /\ unread \in Seq(Nat) /\ given \in Seq(Nat)
      /\ call = [op |-> call.op, size |-> call.size, buf |-> call.buf]
  BY DEF ReadInv, FileTypes, CallWaits, File!Recv
<1>1. ~lost => given \o call.buf \o unread = File!Stream(Length)
  BY <1>0, FourParts DEF ReadInv, File!StreamKept
<1>2. CASE unread = <<>>
  <2>1. unread' = <<>> /\ File!Return(call, call.buf, <<>>)
    BY <1>2 DEF File!Recv
  <2>2. /\ given' = given \o call.buf /\ rbuf' = <<>> /\ call' = File!Idle /\ lost' = lost
        /\ last' = [op |-> call.op, size |-> call.size, data |-> call.buf, eof |-> TRUE]
    BY <2>1 DEF File!Return
  <2>3. given' \in Seq(Nat)
    BY <1>0, <2>2, ConcatProperties
  <2>4. FileTypes' /\ CallWaits'
    BY <1>0, <2>1, <2>2, <2>3 DEF FileTypes, CallWaits, File!Idle
  <2>5. File!StreamKept'
    <3>1. call'.buf = <<>>
      BY <2>2 DEF File!Idle
    <3>2. given' \o rbuf' = given' /\ given' \o <<>> = given'
      BY <2>2, <2>3, ConcatEmptySeq
    <3> QED
      BY <1>1, <1>2, <2>1, <2>2, <3>1, <3>2 DEF File!StreamKept
  <2>6. File!LinesAreLines'
    <3>1. Len(call.buf) \in Nat /\ (call.size >= 0 => Len(call.buf) < call.size)
          /\ (call.op = "readline" => NoNewline(call.buf))
      BY <1>0 DEF ReadInv, CallWaits
    <3> QED
      BY <1>0, <2>2, <3>1 DEF File!LinesAreLines, NoNewline
  <2> QED
    BY <2>4, <2>5, <2>6 DEF ReadInv
<1>3. CASE unread # <<>>
  <2>1. PICK m \in 1..Len(unread) : unread' = File!Rest(unread, m) /\ File!Chunk(call, File!First(unread, m))
    BY <1>3 DEF File!Recv
  <2>2. /\ File!First(unread, m) \in Seq(Nat) /\ File!Rest(unread, m) \in Seq(Nat)
        /\ File!First(unread, m) \o File!Rest(unread, m) = unread
    <3>1. m \in Nat
      BY <1>0
    <3> QED
      BY <1>0, <3>1, FirstAndRest, Zenon
  <2>3. PICK s : s = call.buf \o File!First(unread, m)
    OBVIOUS
  <2>4. s \in Seq(Nat)
    BY <1>0, <2>2, <2>3, FourParts
  <2>5. ~lost => given \o s \o unread' = File!Stream(Length)
    <3>1. given \o call.buf \in Seq(Nat) /\ call.buf \o File!First(unread, m) \in Seq(Nat)
      BY <1>0, <2>2, FourParts
    <3>2. given \o (call.buf \o File!First(unread, m)) = (given \o call.buf) \o File!First(unread, m)
      BY <1>0, <2>2, Regroup
    <3>3. ((given \o call.buf) \o File!First(unread, m)) \o File!Rest(unread, m)
          = (given \o call.buf) \o (File!First(unread, m) \o File!Rest(unread, m))
      BY <2>2, <3>1, Regroup
    <3> QED
      BY <1>1, <2>1, <2>2, <2>3, <3>2, <3>3
  <2>6. PICK n : n = File!Enough(call.op, call.size, s)
    OBVIOUS
  <2>7. n \in 0..Len(s)
    BY <1>0, <2>4, <2>6, EnoughIsALine
  <2>8. CASE n > 0
    <3>1. File!Return(call, File!First(s, n), File!Rest(s, n))
      BY <2>1, <2>3, <2>6, <2>8 DEF File!Chunk
    <3>2. n \in 1..Len(s)
      BY <2>7, <2>8
    <3> QED
      BY <1>0, <2>1, <2>2, <2>4, <2>5, <2>6, <3>1, <3>2, ReturnKeeps DEF ReadInv
  <2>9. CASE ~(n > 0)
    <3>1. call' = [call EXCEPT !.buf = @ \o File!First(unread, m)] /\ UNCHANGED <<rbuf, given, last, lost>>
      BY <2>1, <2>3, <2>6, <2>9 DEF File!Chunk
    <3>2. call' = [op |-> call.op, size |-> call.size, buf |-> s]
      BY <1>0, <2>3, <3>1
    <3>3. /\ call.size >= 0 => Len(s) < call.size
          /\ call.op = "readline" => NoNewline(s)
      BY <1>0, <2>4, <2>6, <2>7, <2>9, EnoughIsALine
    <3>4. FileTypes' /\ CallWaits'
      <4>1. FileTypes'
        <5>1. unread' \in Seq(Nat)
          BY <2>1, <2>2
        <5>2. call' \in [op : {"none", "read", "readline"}, size : Int, buf : Seq(Nat)]
          BY <1>0, <2>4, <3>2
        <5> QED
          BY <3>1, <5>1, <5>2 DEF ReadInv, FileTypes
      <4>2. call'.op = call.op /\ call'.size = call.size /\ call'.buf = s /\ rbuf' = <<>>
        BY <1>0, <3>1, <3>2
      <4> QED
        BY <1>0, <3>3, <4>1, <4>2 DEF CallWaits, NoNewline
    <3>5. File!StreamKept'
      <4>1. given' \o rbuf' = given
        BY <1>0, <3>1, ConcatEmptySeq
      <4>2. call'.buf = s /\ lost' = lost
        BY <3>1, <3>2
      <4> QED
        BY <2>5, <4>1, <4>2 DEF File!StreamKept
    <3> QED
      BY <3>1, <3>4, <3>5 DEF ReadInv, File!LinesAreLines
  <2> QED
    BY <2>7, <2>8, <2>9
<1> QED
  BY <1>2, <1>3

\* recv raises: what buf held is lost, and that is noted.
LEMMA RaiseStep ==
  ASSUME ReadInv, File!RecvRaises
  PROVE  ReadInv'
<1>1. call' = File!Idle /\ UNCHANGED <<unread, rbuf, given, last>> /\ lost' = (lost \/ call.buf # <<>>)
  BY DEF File!RecvRaises
<1>2. FileTypes' /\ CallWaits'
  BY <1>1 DEF ReadInv, FileTypes, CallWaits, File!Idle
<1>3. File!StreamKept'
  BY <1>1 DEF ReadInv, File!StreamKept, File!Idle
<1> QED
  BY <1>1, <1>2, <1>3 DEF ReadInv, File!LinesAreLines

WriteInv ==
  /\ wbuf \in Seq(Nat) /\ flushing \in Seq(Nat) /\ sent \in Seq(Nat) /\ put \in Nat
  /\ File!WrittenIsSent

\* One more character extends the stream.
LEMMA StreamGrows ==
  ASSUME NEW p \in Nat, NEW n \in Nat, NEW d \in Seq(Nat), Len(d) = n,
         \A i \in 1..n : d[i] = p + i
  PROVE  File!Stream(p) \o d = File!Stream(p + n)
<1>1. PICK s, t : s = File!Stream(p) /\ t = File!Stream(p + n)
  OBVIOUS
<1>2. s \in Seq(Nat) /\ Len(s) = p /\ \A i \in 1..p : s[i] = i
  BY <1>1, StreamOne
<1>3. t \in Seq(Nat) /\ Len(t) = p + n /\ \A i \in 1..p + n : t[i] = i
  BY <1>1, StreamOne
<1>4. PICK c : c = s \o d
  OBVIOUS
<1>5. /\ c \in Seq(Nat) /\ Len(c) = p + n
      /\ \A i \in 1..p + n : c[i] = IF i <= p THEN s[i] ELSE d[i - p]
  BY <1>2, <1>4, ConcatProperties
<1>6. ASSUME NEW i \in 1..p + n PROVE c[i] = t[i]
  <2>1. CASE i <= p
    BY <1>2, <1>3, <1>5, <2>1
  <2>2. CASE i > p
    <3>1. i - p \in 1..n /\ c[i] = d[i - p]
      BY <1>5, <2>2
    <3> QED
      BY <1>3, <3>1
  <2> QED
    BY <2>1, <2>2
<1>7. c = t
  BY <1>3, <1>5, <1>6, SeqEqual
<1> QED
  BY <1>1, <1>4, <1>7

\* write appends to _wbuf and may start a flush.
LEMMA WriteKeepsFile ==
  ASSUME WriteInv, NEW n \in Nat, File!Write(n)
  PROVE  WriteInv'
<1>1. /\ wbuf \in Seq(Nat) /\ sent \in Seq(Nat) /\ put \in Nat
      /\ put' = put + n /\ flushing = <<>> /\ sent' = sent
  BY DEF WriteInv, File!Write
<1>2. PICK d : d = [i \in 1..n |-> put + i]
  OBVIOUS
<1>3. d \in Seq(Nat) /\ Len(d) = n /\ \A i \in 1..n : d[i] = put + i
  BY <1>1, <1>2
<1>4. PICK all : all = wbuf \o d
  OBVIOUS
<1>5. \/ flushing' = all /\ wbuf' = <<>>
      \/ flushing' = <<>> /\ wbuf' = all
  BY <1>1, <1>2, <1>4 DEF File!Write
<1>6. all \in Seq(Nat)
  BY <1>1, <1>3, <1>4, ConcatProperties
<1>7. sent \o wbuf = File!Stream(put)
  BY <1>1, ConcatEmptySeq DEF WriteInv, File!WrittenIsSent
<1>8. sent \o all = (sent \o wbuf) \o d
  BY <1>1, <1>3, <1>4, Regroup
<1>9. sent \o all = File!Stream(put + n)
  BY <1>1, <1>3, <1>7, <1>8, StreamGrows
<1>10. sent \o flushing' \o wbuf' = sent \o all
  <2>1. sent \o all \in Seq(Nat) /\ sent \o <<>> = sent
    BY <1>1, <1>6, ConcatProperties, ConcatEmptySeq
  <2>2. (sent \o all) \o <<>> = sent \o all
    BY <2>1, ConcatEmptySeq
  <2> QED
    BY <1>5, <2>1, <2>2
<1>11. File!WrittenIsSent'
  BY <1>1, <1>9, <1>10 DEF File!WrittenIsSent
<1>12. flushing' \in Seq(Nat) /\ wbuf' \in Seq(Nat) /\ put' \in Nat
  <2>1. <<>> \in Seq(Nat)
    BY EmptySeq
  <2>2. put' \in Nat
    BY <1>1
  <2>3. flushing' \in Seq(Nat)
    BY <1>5, <1>6, <2>1, Zenon
  <2>4. wbuf' \in Seq(Nat)
    BY <1>5, <1>6, <2>1, Zenon
  <2> QED
    BY <2>2, <2>3, <2>4
<1> QED
  BY <1>1, <1>11, <1>12 DEF WriteInv

LEMMA FlushStep ==
  ASSUME WriteInv, File!flush
  PROVE  WriteInv'
<1>1. flushing = <<>> /\ flushing' = wbuf /\ wbuf' = <<>> /\ UNCHANGED <<sent, put>>
  BY DEF File!flush
<1>2. sent \o <<>> = sent /\ sent \o wbuf \o <<>> = sent \o wbuf
  BY FourParts DEF WriteInv
<1>3. File!WrittenIsSent'
  BY <1>1, <1>2 DEF WriteInv, File!WrittenIsSent
<1> QED
  BY <1>1, <1>3 DEF WriteInv

LEMMA SendKeepsFile ==
  ASSUME WriteInv, Parameters, File!SendSlice
  PROVE  WriteInv'
<1>1. PICK a, b : a = File!First(flushing, Slice) /\ b = File!Rest(flushing, Slice)
  OBVIOUS
<1>2. a \in Seq(Nat) /\ b \in Seq(Nat) /\ a \o b = flushing
  BY <1>1, FirstAndRest DEF WriteInv, Parameters
<1>3. sent' = sent \o a /\ flushing' = b /\ UNCHANGED <<wbuf, put>>
  BY <1>1 DEF File!SendSlice
<1>4. (sent \o a) \o b = sent \o flushing
  BY <1>2, Regroup DEF WriteInv
<1>5. sent' \in Seq(Nat)
  BY <1>2, <1>3 DEF WriteInv
<1>6. File!WrittenIsSent'
  BY <1>3, <1>4 DEF WriteInv, File!WrittenIsSent
<1> QED
  BY <1>2, <1>3, <1>5, <1>6 DEF WriteInv

\* sendall() can fail only while flush() runs, when _wbuf is empty.
FlushEmpties == flushing # <<>> => wbuf = <<>>

LEMMA SendRaisesStep ==
  ASSUME WriteInv, FlushEmpties, File!SendRaises
  PROVE  WriteInv'
<1>1. wbuf = <<>> /\ wbuf' = wbuf \o flushing /\ flushing' = <<>> /\ UNCHANGED <<sent, put>>
  BY DEF File!SendRaises, FlushEmpties
<1>2. wbuf' = flushing /\ sent \o <<>> = sent /\ sent \o flushing \o <<>> = sent \o flushing
  BY <1>1, FourParts DEF WriteInv
<1>3. File!WrittenIsSent'
  BY <1>1, <1>2 DEF WriteInv, File!WrittenIsSent
<1> QED
  BY <1>1, <1>2, <1>3 DEF WriteInv

LEMMA FlushEmptiesStep ==
  ASSUME WriteInv, FlushEmpties, \/ \E n \in 1..2 : File!Write(n)
                                 \/ File!flush \/ File!SendSlice \/ File!SendRaises
  PROVE  FlushEmpties'
<1>1. CASE \E n \in 1..2 : File!Write(n)
  BY <1>1 DEF File!Write, FlushEmpties
<1>2. CASE File!flush \/ File!SendSlice \/ File!SendRaises
  BY <1>2 DEF File!flush, File!SendSlice, File!SendRaises, FlushEmpties
<1> QED
  BY <1>1, <1>2

FileInv == ReadInv /\ WriteInv /\ FlushEmpties

LEMMA FileInit ==
  ASSUME Parameters, File!Init
  PROVE  FileInv
<1>1. File!Stream(Length) \in Seq(Nat) /\ File!Stream(0) = <<>>
  BY StreamOne DEF Parameters
<1>2. FileTypes /\ CallWaits
  BY <1>1 DEF File!Init, FileTypes, CallWaits, File!Idle
<1>3. File!StreamKept
  <2>1. call.buf = <<>>
    BY DEF File!Init, File!Idle
  <2> QED
    BY <1>1, <2>1, FourParts DEF File!Init, File!StreamKept
<1>4. File!LinesAreLines
  BY DEF File!Init, File!LinesAreLines
<1>5. WriteInv /\ FlushEmpties
  BY <1>1, FourParts DEF File!Init, WriteInv, File!WrittenIsSent, FlushEmpties
<1> QED
  BY <1>2, <1>3, <1>4, <1>5 DEF FileInv, ReadInv

\* Every step of FileObject keeps the invariant.
LEMMA FileStep ==
  ASSUME Parameters, FileInv, (File!Next \/ UNCHANGED File!vars)
  PROVE  FileInv'
<1> USE DEF FileInv
<1>1. ASSUME UNCHANGED File!writing PROVE WriteInv' /\ FlushEmpties'
  BY <1>1 DEF File!writing, WriteInv, File!WrittenIsSent, FlushEmpties
<1>2. ASSUME UNCHANGED File!reading PROVE ReadInv'
  BY <1>2 DEF File!reading, ReadInv, FileTypes, CallWaits, File!StreamKept, File!LinesAreLines
<1>3. CASE \E op \in {"read", "readline"}, size \in Sizes : File!Begin(op, size)
  BY <1>1, <1>3, BeginStep DEF File!Begin
<1>4. CASE File!Recv
  BY <1>1, <1>4, RecvStep DEF File!Recv
<1>5. CASE File!RecvRaises
  BY <1>1, <1>5, RaiseStep DEF File!RecvRaises, File!writing
<1>6. CASE \E n \in 1..2 : File!Write(n)
  <2>1. PICK n \in 1..2 : File!Write(n)
    BY <1>6
  <2>2. n \in Nat /\ UNCHANGED File!reading
    BY <2>1 DEF File!Write
  <2> QED
    BY <1>2, <2>1, <2>2, WriteKeepsFile, FlushEmptiesStep
<1>7. CASE File!flush \/ File!SendSlice \/ File!SendRaises
  <2>1. UNCHANGED File!reading
    BY <1>7 DEF File!flush, File!SendSlice, File!SendRaises
  <2> QED
    BY <1>2, <1>7, <2>1, FlushStep, SendKeepsFile, SendRaisesStep, FlushEmptiesStep
<1>8. CASE UNCHANGED File!vars
  BY <1>1, <1>2, <1>8 DEF File!vars, File!reading, File!writing
<1> QED
  BY <1>3, <1>4, <1>5, <1>6, <1>7, <1>8 DEF File!Next


-----------------------------------------------------------------------------
(* LwipSockets: one thread that opens and closes sockets                     *)


NamesOfSockets == {"none", "default", "fd"} \X Nat
Opening == {"load", "store", "open"}
Closing == {"lwip_close", "close_pipes", "delete"}

SocketObjects == [name : NamesOfSockets, st : {"new", "made", "open", "closing", "closed"}]
USE DEF SocketObjects

LwipTypes(t) ==
  /\ DEFAULT_NAME_COUNTER \in Nat
  /\ obj \in [Lwip!Objects -> SocketObjects]
  /\ thr \in [LwipThreads -> [pc : {"idle", "add", "register"} \cup Opening \cup Closing,
                          o : Nat, n : Nat, fd : Nat]]
  /\ existing_sockets \subseteq [name : NamesOfSockets, of : Lwip!Objects]
  /\ lwip_sockets \subseteq [name : NamesOfSockets, fd : Lwip!Objects, of : Lwip!Objects]
  /\ fds \subseteq Lwip!Objects

\* A generated name is below the counter, or at it until it was counted.
Generated(t) ==
  /\ \A o \in Lwip!Objects : obj[o].st # "new" /\ obj[o].name[1] = "default" =>
       \/ obj[o].name[2] < DEFAULT_NAME_COUNTER
       \/ /\ obj[o].name[2] = DEFAULT_NAME_COUNTER
          /\ thr[t].o = o /\ thr[t].pc \in {"load", "store"}
  /\ \A o, p \in Lwip!Objects :
       /\ obj[o].st # "new" /\ obj[o].name[1] = "default"
       /\ obj[p].st # "new" /\ obj[p].name = obj[o].name
       => o = p
  /\ thr[t].pc = "store" => thr[t].n = DEFAULT_NAME_COUNTER

\* An entry is that of one object, which is open, being opened or being closed.
EntriesKnown(t) ==
  /\ \A e \in lwip_sockets :
       /\ e.name = obj[e.of].name /\ e.name[1] # "none"
       /\ e.name[1] = "fd" => e.name[2] = e.fd
       /\ \/ obj[e.of].st = "open"
          \/ thr[t].o = e.of /\ thr[t].pc \in Closing \cup {"register"}
       /\ e.fd \in fds \/ (thr[t].o = e.of /\ thr[t].pc \in {"close_pipes", "delete"})
       /\ e.of \in pipes \/ (thr[t].o = e.of /\ thr[t].pc = "delete")
  /\ \A d, e \in lwip_sockets : d.fd = e.fd \/ d.of = e.of => d = e

Registered ==
  /\ \A o \in Lwip!Objects : obj[o].st = "open" =>
       /\ \E e \in lwip_sockets : e.of = o
       /\ [name |-> obj[o].name, of |-> o] \in existing_sockets
  /\ \A e \in existing_sockets : e.name = obj[e.of].name /\ obj[e.of].st = "open"

\* What the thread has of the object it is opening or closing.
AtWork(t) ==
  LET w == thr[t] IN
  /\ w.pc \notin {"add", "register"} => w.fd = 0
  /\ w.pc # "idle" => w.o \in Lwip!Objects
  /\ w.pc \in Opening => obj[w.o].name[1] = "default"
  /\ w.pc \in Opening \cup {"add"} => /\ obj[w.o].st = "made"
                                     /\ \A e \in lwip_sockets : e.of # w.o
  /\ w.pc = "add" => /\ w.fd \in fds /\ \A e \in lwip_sockets : e.fd # w.fd
                     /\ obj[w.o].name[1] # "none"
                     /\ obj[w.o].name[1] = "fd" => obj[w.o].name[2] = w.fd
  /\ w.pc = "register" => /\ obj[w.o].st = "made"
                          /\ \E e \in lwip_sockets : e.of = w.o /\ e.fd = w.fd
  /\ w.pc \in Closing => /\ obj[w.o].st = "closing"
                         /\ \E e \in lwip_sockets : e.of = w.o
  /\ w.pc \in {"close_pipes", "delete"} =>
       \A e \in lwip_sockets : e.of = w.o => e.fd \notin fds
  /\ w.pc = "delete" => w.o \notin pipes

Owned(t) == /\ pipes \subseteq {e.of : e \in lwip_sockets}
            /\ fds \subseteq {e.fd : e \in lwip_sockets} \cup {thr[t].fd}

SoleInv(t) == /\ LwipTypes(t) /\ Generated(t) /\ EntriesKnown(t)
              /\ Registered /\ AtWork(t) /\ Owned(t)

\* No two entries have one name, and get() finds the one it is asked for.
LEMMA NamesApart ==
  ASSUME NEW t, SoleInv(t)
  PROVE  /\ \A d, e \in lwip_sockets : d.name = e.name => d = e
         /\ \A e \in lwip_sockets : Lwip!Get(lwip_sockets, e.name) = {e}
<1>1. ASSUME NEW d \in lwip_sockets, NEW e \in lwip_sockets, d.name = e.name
      PROVE  d = e
  <2>1. d.of \in Lwip!Objects /\ e.of \in Lwip!Objects /\ d.name = obj[d.of].name /\ e.name = obj[e.of].name
    BY DEF SoleInv, LwipTypes, EntriesKnown
  <2>2. d.name[1] \in {"default", "fd"}
    BY <2>1 DEF SoleInv, LwipTypes, EntriesKnown, NamesOfSockets
  <2>3. CASE d.name[1] = "fd"
    <3>1. d.fd = e.fd
      BY <1>1, <2>3 DEF SoleInv, EntriesKnown
    <3> QED
      BY <3>1 DEF SoleInv, EntriesKnown
  <2>4. CASE d.name[1] = "default"
    <3>1. obj[d.of].st # "new" /\ obj[e.of].st # "new"
      BY <2>1 DEF SoleInv, EntriesKnown, AtWork
    <3>2. d.of = e.of
      BY <1>1, <2>1, <2>4, <3>1 DEF SoleInv, Generated
    <3> QED
      BY <3>2 DEF SoleInv, EntriesKnown
  <2> QED
    BY <2>2, <2>3, <2>4
<1>2. ASSUME NEW e \in lwip_sockets PROVE Lwip!Get(lwip_sockets, e.name) = {e}
  BY <1>1 DEF Lwip!Get
<1> QED
  BY <1>1, <1>2

\* The stack has a descriptor for every object that has no entry yet.
LEMMA FreeFdIsFree ==
  ASSUME MaxSockets \in Nat, NEW t, SoleInv(t), thr[t].fd = 0,
         NEW o \in Lwip!Objects, \A e \in lwip_sockets : e.of # o
  PROVE  Lwip!FreeFd \in Lwip!Objects \ fds
<1>1. Lwip!Objects \ fds # {}
  <2> SUFFICES ASSUME Lwip!Objects \subseteq fds PROVE FALSE
    OBVIOUS
  <2>1. \A i \in Lwip!Objects : \E e \in lwip_sockets : e.fd = i
    BY DEF SoleInv, Owned, Lwip!Objects
  <2> DEFINE f == [i \in Lwip!Objects |-> (CHOOSE e \in lwip_sockets : e.fd = i).of]
  <2>2. \A i \in Lwip!Objects : \E e \in lwip_sockets : e.fd = i /\ f[i] = e.of
    BY <2>1
  <2> HIDE DEF f
  <2>3. f \in [Lwip!Objects -> Lwip!Objects \ {o}]
    <3>1. \A i \in Lwip!Objects : f[i] \in Lwip!Objects \ {o}
      BY <2>2 DEF SoleInv, LwipTypes
    <3> QED
      BY <3>1 DEF f
  <2>4. \A i, j \in Lwip!Objects : f[i] = f[j] => i = j
    BY <2>2 DEF SoleInv, EntriesKnown
  <2>5. f \in Injection(Lwip!Objects, Lwip!Objects \ {o})
    BY <2>3, <2>4 DEF Injection, IsInjective
  <2>6. IsFiniteSet(Lwip!Objects) /\ Cardinality(Lwip!Objects) = MaxSockets
    BY FS_Interval DEF Lwip!Objects
  <2>7. IsFiniteSet(Lwip!Objects \ {o}) /\ Cardinality(Lwip!Objects \ {o}) = Cardinality(Lwip!Objects) - 1
    BY <2>6, FS_RemoveElement
  <2>8. Cardinality(Lwip!Objects) <= Cardinality(Lwip!Objects \ {o})
    BY <2>5, <2>6, <2>7, FS_Injection
  <2> QED
    BY <2>6, <2>7, <2>8
<1>2. Lwip!Objects \ fds \in SUBSET Nat
  BY DEF Lwip!Objects
<1>3. \E m \in Lwip!Objects \ fds : \A k \in Lwip!Objects \ fds : m <= k
  BY <1>1, <1>2, SmallestExists
<1> QED
  BY <1>3 DEF Lwip!FreeFd, Lwip!Min, Lwip!Objects

\* One thread opens and closes the sockets, as in the program.
Sole(t) == MaxSockets \in Nat /\ LwipThreads = {t}

LEMMA LwipInit ==
  ASSUME NEW t, Sole(t), Lwip!Init
  PROVE  SoleInv(t)
<1>1. LwipTypes(t)
  BY DEF Sole, Lwip!Init, LwipTypes, Lwip!Idle, NamesOfSockets
<1>2. Generated(t) /\ EntriesKnown(t) /\ Registered /\ AtWork(t) /\ Owned(t)
  BY DEF Sole, Lwip!Init, Lwip!Idle, Generated, EntriesKnown, Registered, AtWork, Owned, Opening, Closing
<1> QED
  BY <1>1, <1>2 DEF SoleInv

\* Making the object o: what a new name must keep.
LEMMA NewStep ==
  ASSUME NEW t, Sole(t), SoleInv(t), Lwip!New(t)
  PROVE  SoleInv(t)'
<1>1. PICK o \in Lwip!Objects :
        /\ thr[t].pc = "idle" /\ obj[o].st = "new"
        /\ obj' = [obj EXCEPT ![o] = [name |-> <<"default", DEFAULT_NAME_COUNTER>>, st |-> "made"]]
        /\ thr' = [thr EXCEPT ![t] = [Lwip!Idle EXCEPT !.pc = "load", !.o = o, !.fd = 0]]
        /\ UNCHANGED <<DEFAULT_NAME_COUNTER, existing_sockets, lwip_sockets, fds, pipes>>
  BY DEF Lwip!New, Lwip!Make, Lwip!At
<1>2. LwipTypes(t)'
  <2>1. [name |-> <<"default", DEFAULT_NAME_COUNTER>>, st |-> "made"]
          \in SocketObjects
    BY DEF SoleInv, LwipTypes, NamesOfSockets
  <2>2. obj' \in [Lwip!Objects -> SocketObjects]
    BY <1>1, <2>1 DEF SoleInv, LwipTypes
  <2>3. thr'[t] = [pc |-> "load", o |-> o, n |-> 0, fd |-> 0]
    BY <1>1 DEF Sole, SoleInv, LwipTypes, Lwip!Idle
  <2>4. thr'[t] \in [pc : {"idle", "add", "register"} \cup Opening \cup Closing,
                     o : Nat, n : Nat, fd : Nat]
    BY <2>3 DEF Lwip!Objects, Opening
  <2>5. thr' = [u \in LwipThreads |-> thr'[t]]
    BY <1>1 DEF Sole, SoleInv, LwipTypes
  <2> QED
    BY <1>1, <2>2, <2>4, <2>5 DEF SoleInv, LwipTypes
<1>3. thr'[t] = [pc |-> "load", o |-> o, n |-> 0, fd |-> 0]
  BY <1>1 DEF Sole, SoleInv, LwipTypes, Lwip!Idle
<1>4. \A p \in Lwip!Objects : obj'[p] = IF p = o THEN [name |-> <<"default", DEFAULT_NAME_COUNTER>>, st |-> "made"] ELSE obj[p]
  BY <1>1 DEF SoleInv, LwipTypes
<1>5. Generated(t)'
  <2>1. \A p \in Lwip!Objects : obj[p].st # "new" /\ obj[p].name[1] = "default"
                            => obj[p].name[2] < DEFAULT_NAME_COUNTER
    BY <1>1 DEF SoleInv, Generated
  <2> QED
    BY <1>1, <1>3, <1>4, <2>1 DEF SoleInv, LwipTypes, Generated
<1>6. \A e \in lwip_sockets : e.of \in Lwip!Objects /\ e.of # o
  BY <1>1 DEF SoleInv, LwipTypes, EntriesKnown, Closing
<1>7. EntriesKnown(t)'
  BY <1>1, <1>3, <1>4, <1>6 DEF SoleInv, EntriesKnown, Closing
<1>8. Registered'
  BY <1>1, <1>4 DEF SoleInv, LwipTypes, Registered
<1>9. AtWork(t)'
  BY <1>1, <1>3, <1>4, <1>6 DEF SoleInv, AtWork, Opening, Closing
<1>10. Owned(t)'
  BY <1>1, <1>3 DEF SoleInv, Owned, AtWork
<1> QED
  BY <1>2, <1>5, <1>7, <1>8, <1>9, <1>10 DEF SoleInv

\* The counter of names is read, and written back.
LEMMA CountStep ==
  ASSUME NEW t, Sole(t), SoleInv(t), Lwip!Load(t) \/ Lwip!Store(t)
  PROVE  SoleInv(t)'
<1> USE DEF Sole, SoleInv, Opening, Closing
<1>1. CASE Lwip!Load(t)
  <2>1. thr[t].pc = "load" /\ thr'[t] = [thr[t] EXCEPT !.pc = "store", !.n = DEFAULT_NAME_COUNTER]
        /\ UNCHANGED <<DEFAULT_NAME_COUNTER, existing_sockets, lwip_sockets, fds, pipes, obj>>
    BY <1>1 DEF Lwip!Load, Lwip!At, LwipTypes
  <2>2. thr'[t].pc = "store" /\ thr'[t].n = DEFAULT_NAME_COUNTER /\ thr'[t].o = thr[t].o /\ thr'[t].fd = thr[t].fd
    BY <2>1 DEF LwipTypes
  <2>3. LwipTypes(t)'
    <3> DEFINE R == [pc : {"idle", "add", "register"} \cup Opening \cup Closing,
                     o : Nat, n : Nat, fd : Nat]
    <3>1. thr \in [LwipThreads -> R] /\ DEFAULT_NAME_COUNTER \in Nat
      BY DEF LwipTypes
    <3>2. [thr[t] EXCEPT !.pc = "store", !.n = DEFAULT_NAME_COUNTER] \in R
      BY <3>1
    <3>3. thr' \in [LwipThreads -> R]
      <4>1. thr' = [thr EXCEPT ![t] = [thr[t] EXCEPT !.pc = "store", !.n = DEFAULT_NAME_COUNTER]]
        BY <1>1 DEF Lwip!Load
      <4> HIDE DEF R
      <4> QED
        BY <4>1, <3>1, <3>2
    <3> QED
      BY <2>1, <3>3 DEF LwipTypes
  <2> QED
    BY <2>1, <2>2, <2>3 DEF Generated, EntriesKnown, Registered, AtWork, Owned
<1>2. CASE Lwip!Store(t)
  <2>1. thr[t].pc = "store" /\ thr'[t] = [thr[t] EXCEPT !.pc = "open"]
        /\ DEFAULT_NAME_COUNTER' = thr[t].n + 1
        /\ UNCHANGED <<existing_sockets, lwip_sockets, fds, pipes, obj>>
    BY <1>2 DEF Lwip!Store, Lwip!At, Lwip!Goto, LwipTypes
  <2>2. thr'[t].pc = "open" /\ thr'[t].o = thr[t].o /\ thr'[t].fd = thr[t].fd
    BY <2>1 DEF LwipTypes
  <2>3. DEFAULT_NAME_COUNTER' = DEFAULT_NAME_COUNTER + 1
    BY <2>1 DEF Generated
  <2>4. LwipTypes(t)'
    <3> DEFINE R == [pc : {"idle", "add", "register"} \cup Opening \cup Closing,
                     o : Nat, n : Nat, fd : Nat]
    <3>1. thr \in [LwipThreads -> R] /\ DEFAULT_NAME_COUNTER \in Nat
      BY DEF LwipTypes
    <3>2. [thr[t] EXCEPT !.pc = "open"] \in R
      BY <3>1
    <3>3. thr' \in [LwipThreads -> R]
      <4>1. thr' = [thr EXCEPT ![t] = [thr[t] EXCEPT !.pc = "open"]]
        BY <1>2 DEF Lwip!Store, Lwip!Goto
      <4> HIDE DEF R
      <4> QED
        BY <4>1, <3>1, <3>2
    <3>4. /\ DEFAULT_NAME_COUNTER' \in Nat
          /\ UNCHANGED <<obj, existing_sockets, lwip_sockets, fds>>
      BY <1>2, <3>1, <2>3 DEF Lwip!Store
    <3> QED
      BY <3>3, <3>4 DEF LwipTypes
  <2>5. Generated(t)'
    BY <2>1, <2>2, <2>3 DEF Generated, LwipTypes, NamesOfSockets
  <2> QED
    BY <2>1, <2>2, <2>4, <2>5 DEF EntriesKnown, Registered, AtWork, Owned
<1> QED
  BY <1>1, <1>2

\* The stack opens a descriptor, or refuses.
LEMMA LwipOpenStep ==
  ASSUME NEW t, Sole(t), SoleInv(t), Lwip!socketOpen(t)
  PROVE  SoleInv(t)'
<1> USE DEF Sole, SoleInv, Opening, Closing
<1>1. thr[t].pc = "open" /\ thr[t].o \in Lwip!Objects /\ thr[t].fd = 0
      /\ \A e \in lwip_sockets : e.of # thr[t].o
  BY DEF Lwip!socketOpen, Lwip!At, AtWork
<1>2. Lwip!Get(lwip_sockets, Lwip!Name(t)) = {}
  <2> SUFFICES ASSUME NEW e \in lwip_sockets, e.name = obj[thr[t].o].name PROVE FALSE
    BY DEF Lwip!Get, Lwip!Name
  <2>1. e.name = obj[e.of].name /\ e.name[1] = "default" /\ e.of \in Lwip!Objects
    BY <1>1 DEF EntriesKnown, AtWork, LwipTypes
  <2>2. obj[e.of].st # "new" /\ obj[thr[t].o].st # "new"
    BY <1>1 DEF EntriesKnown, AtWork
  <2> QED
    BY <1>1, <2>1, <2>2 DEF Generated
<1>3. Lwip!FreeFd \in Lwip!Objects \ fds
  BY <1>1, FreeFdIsFree
<1>4. PICK fd \in Lwip!Objects \ fds : fd = Lwip!FreeFd
  BY <1>3
<1>5. thr' = [thr EXCEPT ![t].pc = "add", ![t].fd = fd] /\ fds' = fds \cup {fd}
      /\ UNCHANGED <<DEFAULT_NAME_COUNTER, existing_sockets, lwip_sockets, pipes, obj>>
  BY <1>2, <1>4 DEF Lwip!socketOpen
<1>6. thr'[t].pc = "add" /\ thr'[t].fd = fd /\ thr'[t].o = thr[t].o /\ thr'[t].n = thr[t].n
  BY <1>5 DEF LwipTypes
<1>7. LwipTypes(t)'
  <2>1. fd \in Nat
    BY DEF Lwip!Objects
  <2>2. thr \in [{t} -> [pc : {"idle", "add", "register"} \cup Opening \cup Closing,
                         o : Nat, n : Nat, fd : Nat]]
    BY DEF LwipTypes
  <2>3. thr[t] \in [pc : {"idle", "add", "register"} \cup Opening \cup Closing,
                   o : Nat, n : Nat, fd : Nat]
    BY <2>2
  <2>4. thr'[t] = [[thr[t] EXCEPT !.pc = "add"] EXCEPT !.fd = fd]
    BY <1>5, <2>2, <2>3
  <2>5. thr'[t] \in [pc : {"idle", "add", "register"} \cup Opening \cup Closing,
                    o : Nat, n : Nat, fd : Nat]
    BY <2>1, <2>3, <2>4
  <2>6. thr' \in [LwipThreads -> [pc : {"idle", "add", "register"} \cup Opening \cup Closing,
                               o : Nat, n : Nat, fd : Nat]]
    BY <1>5, <2>2, <2>5
  <2>7. fds' \subseteq Lwip!Objects
    BY <1>5 DEF LwipTypes
  <2> QED
    BY <1>5, <2>6, <2>7 DEF LwipTypes
<1>8. \A e \in lwip_sockets : e.fd # fd
  BY <1>1 DEF EntriesKnown
<1>9. AtWork(t)'
  <2>1. obj[thr[t].o].name[1] = "default" /\ obj[thr[t].o].st = "made"
    BY <1>1 DEF AtWork
  <2>2. /\ thr'[t].o \in Lwip!Objects /\ thr'[t].fd \in fds'
        /\ obj'[thr'[t].o].st = "made" /\ obj'[thr'[t].o].name[1] = "default"
        /\ \A e \in lwip_sockets' : e.of # thr'[t].o /\ e.fd # thr'[t].fd
    <3>1. thr'[t].o \in Lwip!Objects
      BY <1>1, <1>6
    <3>2. thr'[t].fd \in fds'
      BY <1>5, <1>6
    <3>3. obj'[thr'[t].o].st = "made" /\ obj'[thr'[t].o].name[1] = "default"
      BY <1>5, <1>6, <2>1
    <3>4. \A e \in lwip_sockets' : e.of # thr'[t].o /\ e.fd # thr'[t].fd
      BY <1>1, <1>5, <1>6, <1>8
    <3> QED
      BY <3>1, <3>2, <3>3, <3>4
  <2> QED
    BY <1>6, <2>2 DEF AtWork
<1>10. Generated(t)' /\ Registered'
  BY <1>1, <1>5, <1>6 DEF Generated, Registered
<1>11. EntriesKnown(t)'
  BY <1>1, <1>5, <1>6 DEF EntriesKnown
<1>12. Owned(t)'
  <2>1. fds \subseteq {e.fd : e \in lwip_sockets}
    BY <1>1 DEF Owned, LwipTypes, Lwip!Objects
  <2> QED
    BY <1>5, <1>6, <2>1 DEF Owned
<1> QED
  BY <1>7, <1>9, <1>10, <1>11, <1>12

\* _add_open_socket: the new entry takes nothing away.
LEMMA AddStep ==
  ASSUME NEW t, Sole(t), SoleInv(t), Lwip!AddOpenSocket(t)
  PROVE  SoleInv(t)'
<1> USE DEF Sole, SoleInv, Opening, Closing
<1>1. /\ thr[t].pc = "add" /\ thr[t].o \in Lwip!Objects /\ thr[t].fd \in fds /\ obj[thr[t].o].st = "made"
      /\ \A e \in lwip_sockets : e.of # thr[t].o /\ e.fd # thr[t].fd
      /\ obj[thr[t].o].name[1] # "none"
      /\ obj[thr[t].o].name[1] = "fd" => obj[thr[t].o].name[2] = thr[t].fd
  BY DEF Lwip!AddOpenSocket, Lwip!At, AtWork
<1>2. PICK d : d = [name |-> Lwip!Name(t), fd |-> thr[t].fd, of |-> thr[t].o]
  OBVIOUS
<1>3. d.name = obj[thr[t].o].name /\ d.fd = thr[t].fd /\ d.of = thr[t].o
  BY <1>2 DEF Lwip!Name
<1>4. Lwip!Get(lwip_sockets, d.name) = {}
  <2> SUFFICES ASSUME NEW e \in lwip_sockets, e.name = d.name PROVE FALSE
    BY DEF Lwip!Get
  <2>1. e.of \in Lwip!Objects /\ e.name = obj[e.of].name /\ e.of # thr[t].o /\ e.fd # thr[t].fd
        /\ (e.name[1] = "fd" => e.name[2] = e.fd) /\ obj[e.of].st # "new"
    BY <1>1 DEF EntriesKnown, LwipTypes, AtWork
  <2>2. e.name[1] # "fd"
    BY <1>1, <1>3, <2>1
  <2>3. e.name[1] = "default"
    BY <1>1, <1>3, <2>1, <2>2 DEF LwipTypes, NamesOfSockets
  <2> QED
    BY <1>1, <1>3, <2>1, <2>3 DEF Generated
<1>5. lwip_sockets' = lwip_sockets \cup {d}
  BY <1>2, <1>4 DEF Lwip!AddOpenSocket, Lwip!Put
<1>6. /\ pipes' = pipes \cup {thr[t].o}
      /\ thr' = [thr EXCEPT ![t].pc = "register"]
      /\ UNCHANGED <<DEFAULT_NAME_COUNTER, existing_sockets, fds, obj>>
  BY DEF Lwip!AddOpenSocket, Lwip!Goto
<1>7. thr'[t].pc = "register" /\ thr'[t].fd = thr[t].fd /\ thr'[t].o = thr[t].o /\ thr'[t].n = thr[t].n
  BY <1>6 DEF LwipTypes
<1>8. LwipTypes(t)'
  <2>1. d \in [name : NamesOfSockets, fd : Lwip!Objects, of : Lwip!Objects]
    BY <1>1, <1>2 DEF LwipTypes, Lwip!Name
  <2>2. thr' \in [LwipThreads -> [pc : {"idle", "add", "register"} \cup Opening \cup Closing,
                              o : Nat, n : Nat, fd : Nat]]
    BY <1>6 DEF LwipTypes
  <2> QED
    BY <1>5, <1>6, <2>1, <2>2 DEF LwipTypes
<1>9. Generated(t)'
  BY <1>1, <1>6, <1>7 DEF Generated
<1>10. EntriesKnown(t)'
  <2>1. ASSUME NEW e \in lwip_sockets'
        PROVE  /\ e.name = obj'[e.of].name /\ e.name[1] # "none"
               /\ e.name[1] = "fd" => e.name[2] = e.fd
               /\ obj'[e.of].st = "open" \/ e.of = thr[t].o
               /\ e.fd \in fds' /\ e.of \in pipes'
    <3>1. CASE e = d
      BY <1>1, <1>3, <1>6, <3>1
    <3>2. CASE e \in lwip_sockets
      BY <1>1, <1>6, <3>2 DEF EntriesKnown
    <3> QED
      BY <1>5, <3>1, <3>2
  <2>2. ASSUME NEW a \in lwip_sockets', NEW e \in lwip_sockets', a.fd = e.fd \/ a.of = e.of
        PROVE  a = e
    BY <1>1, <1>3, <1>5, <2>2 DEF EntriesKnown
  <2> QED
    BY <1>7, <2>1, <2>2 DEF EntriesKnown
<1>11. Registered'
  <2>1. \A o \in Lwip!Objects : obj[o].st = "open" => \E e \in lwip_sockets' : e.of = o
    BY <1>5 DEF Registered
  <2> QED
    BY <1>6, <2>1 DEF Registered
<1>12. AtWork(t)'
  <2>1. \E e \in lwip_sockets' : e.of = thr'[t].o /\ e.fd = thr'[t].fd
    BY <1>3, <1>5, <1>7
  <2>2. obj'[thr'[t].o].st = "made" /\ thr'[t].o \in Lwip!Objects
    BY <1>1, <1>6, <1>7
  <2> QED
    BY <1>7, <2>1, <2>2 DEF AtWork
<1>13. Owned(t)'
  <2>1. pipes' \subseteq {e.of : e \in lwip_sockets'}
    BY <1>3, <1>5, <1>6 DEF Owned
  <2>2. fds' \subseteq {e.fd : e \in lwip_sockets'} \cup {thr'[t].fd}
    BY <1>3, <1>5, <1>6, <1>7 DEF Owned
  <2> QED
    BY <2>1, <2>2 DEF Owned
<1> QED
  BY <1>8, <1>9, <1>10, <1>11, <1>12, <1>13

\* The thread is idle again, with the object in the state now.
LEMMA RaiseFacts ==
  ASSUME NEW t, Sole(t), SoleInv(t), NEW now \in {"open", "closed"}, thr[t].o \in Lwip!Objects, Lwip!Raise(t, now)
  PROVE  /\ thr'[t] = Lwip!Idle
         /\ thr'[t].pc = "idle" /\ thr'[t].fd = 0 /\ thr'[t].o = 0
         /\ obj'[thr[t].o].st = now
         /\ \A o \in Lwip!Objects : obj'[o].name = obj[o].name /\ (o # thr[t].o => obj'[o].st = obj[o].st)
         /\ obj' \in [Lwip!Objects -> SocketObjects]
         /\ thr' \in [LwipThreads -> [pc : {"idle", "add", "register"} \cup Opening \cup Closing,
                                  o : Nat, n : Nat, fd : Nat]]
<1>1. thr' = [thr EXCEPT ![t] = Lwip!Idle] /\ obj' = [obj EXCEPT ![thr[t].o].st = now]
  BY DEF Lwip!Raise
<1>2. thr'[t] = Lwip!Idle
  BY <1>1 DEF Sole, SoleInv, LwipTypes
<1>3. Lwip!Idle.pc = "idle" /\ Lwip!Idle.fd = 0 /\ Lwip!Idle.o = 0
  BY DEF Lwip!Idle
<1>4. thr' \in [LwipThreads -> [pc : {"idle", "add", "register"} \cup Opening \cup Closing,
                            o : Nat, n : Nat, fd : Nat]]
  BY <1>1 DEF SoleInv, LwipTypes, Lwip!Idle
<1>5. obj' \in [Lwip!Objects -> SocketObjects]
  BY <1>1 DEF SoleInv, LwipTypes
<1>6. \A o \in Lwip!Objects : obj'[o].name = obj[o].name /\ (o # thr[t].o => obj'[o].st = obj[o].st)
  BY <1>1 DEF SoleInv, LwipTypes
<1>7. obj'[thr[t].o].st = now
  BY <1>1 DEF SoleInv, LwipTypes
<1> QED
  BY <1>2, <1>3, <1>4, <1>5, <1>6, <1>7

\* The name is registered after the entry was made.
LEMMA RegisterStep ==
  ASSUME NEW t, Sole(t), SoleInv(t), Lwip!Register(t)
  PROVE  SoleInv(t)'
<1> USE DEF Sole, SoleInv, Opening, Closing
<1>1. /\ thr[t].pc = "register" /\ thr[t].o \in Lwip!Objects /\ obj[thr[t].o].st = "made"
      /\ \E e \in lwip_sockets : e.of = thr[t].o
  BY DEF Lwip!Register, Lwip!At, AtWork
<1>2. PICK o \in Lwip!Objects : o = thr[t].o
  BY <1>1
<1>3. /\ thr'[t].pc = "idle" /\ thr'[t].fd = 0 /\ thr'[t].o = 0
      /\ obj'[o].st = "open"
      /\ \A p \in Lwip!Objects : obj'[p].name = obj[p].name /\ (p # o => obj'[p].st = obj[p].st)
      /\ obj' \in [Lwip!Objects -> SocketObjects]
      /\ thr' \in [LwipThreads -> [pc : {"idle", "add", "register"} \cup Opening \cup Closing,
                               o : Nat, n : Nat, fd : Nat]]
  BY <1>1, <1>2, RaiseFacts DEF Lwip!Register
<1>4. PICK d : d = [name |-> obj[o].name, of |-> o]
  OBVIOUS
<1>5. d.name = obj[o].name /\ d.of = o
  BY <1>4
<1>6. Lwip!Get(existing_sockets, d.name) = {}
  <2> SUFFICES ASSUME NEW x \in existing_sockets, x.name = d.name PROVE FALSE
    BY DEF Lwip!Get
  <2>1. x.of \in Lwip!Objects /\ x.name = obj[x.of].name /\ obj[x.of].st = "open"
    BY DEF Registered, LwipTypes
  <2>2. PICK a \in lwip_sockets : a.of = o
    BY <1>1, <1>2
  <2>3. PICK b \in lwip_sockets : b.of = x.of
    BY <2>1 DEF Registered
  <2>4. a.name = b.name
    BY <1>5, <2>1, <2>2, <2>3 DEF EntriesKnown
  <2>5. a = b
    BY <2>4, NamesApart
  <2> QED
    BY <1>1, <1>2, <2>1, <2>2, <2>3, <2>5
<1>7. /\ existing_sockets' = existing_sockets \cup {d}
      /\ UNCHANGED <<DEFAULT_NAME_COUNTER, lwip_sockets, fds, pipes>>
  BY <1>2, <1>4, <1>6 DEF Lwip!Register, Lwip!Put, Lwip!Name
<1>8. LwipTypes(t)'
  <2>1. d \in [name : NamesOfSockets, of : Lwip!Objects]
    BY <1>4 DEF LwipTypes
  <2> QED
    BY <1>3, <1>7, <2>1 DEF LwipTypes
<1>9. Generated(t)'
  <2>1. \A p \in Lwip!Objects : obj'[p].st # "new" => obj[p].st # "new"
    BY <1>1, <1>2, <1>3
  <2> QED
    BY <1>1, <1>3, <1>7, <2>1 DEF Generated
<1>10. EntriesKnown(t)'
  <2>1. ASSUME NEW e \in lwip_sockets
        PROVE  /\ e.name = obj'[e.of].name /\ e.name[1] # "none"
               /\ e.name[1] = "fd" => e.name[2] = e.fd
               /\ obj'[e.of].st = "open" /\ e.fd \in fds' /\ e.of \in pipes'
    <3>1. e.of \in Lwip!Objects /\ e.name = obj[e.of].name
      BY DEF LwipTypes, EntriesKnown
    <3>2. obj'[e.of].st = "open"
      BY <1>1, <1>2, <1>3, <3>1 DEF EntriesKnown
    <3>3. e.fd \in fds /\ e.of \in pipes
      BY <1>1 DEF EntriesKnown
    <3>4. e.name[1] # "none" /\ (e.name[1] = "fd" => e.name[2] = e.fd)
      BY DEF EntriesKnown
    <3> QED
      BY <1>3, <1>7, <3>1, <3>2, <3>3, <3>4
  <2>2. \A a, e \in lwip_sockets : a.fd = e.fd \/ a.of = e.of => a = e
    BY DEF EntriesKnown
  <2> QED
    BY <1>7, <2>1, <2>2 DEF EntriesKnown
<1>11. Registered'
  <2>1. ASSUME NEW p \in Lwip!Objects, obj'[p].st = "open"
        PROVE  (\E e \in lwip_sockets' : e.of = p)
               /\ [name |-> obj'[p].name, of |-> p] \in existing_sockets'
    <3>1. CASE p = o
      BY <1>1, <1>2, <1>3, <1>4, <1>7, <3>1
    <3>2. CASE p # o
      BY <1>3, <1>7, <2>1, <3>2 DEF Registered
    <3> QED
      BY <3>1, <3>2
  <2>2. ASSUME NEW e \in existing_sockets'
        PROVE  e.name = obj'[e.of].name /\ obj'[e.of].st = "open"
    <3>1. CASE e = d
      BY <1>3, <1>5, <3>1
    <3>2. CASE e \in existing_sockets
      <4>1. e.of \in Lwip!Objects /\ e.name = obj[e.of].name /\ obj[e.of].st = "open"
        BY <3>2 DEF Registered, LwipTypes
      <4> QED
        BY <1>1, <1>2, <1>3, <4>1
    <3> QED
      BY <1>7, <3>1, <3>2
  <2> QED
    BY <2>1, <2>2 DEF Registered
<1>12. AtWork(t)'
  BY <1>3 DEF AtWork
<1>13. Owned(t)'
  <2>1. fds \subseteq {e.fd : e \in lwip_sockets}
    <3>1. \E e \in lwip_sockets : e.fd = thr[t].fd
      BY <1>1 DEF AtWork
    <3> QED
      BY <3>1 DEF Owned
  <2> QED
    BY <1>3, <1>7, <2>1 DEF Owned
<1> QED
  BY <1>8, <1>9, <1>10, <1>11, <1>12, <1>13

\* accept() names the socket after the descriptor.
LEMMA LwipAcceptStep ==
  ASSUME NEW t, Sole(t), SoleInv(t), Lwip!Accept(t)
  PROVE  SoleInv(t)'
<1> USE DEF Sole, SoleInv, Opening, Closing
<1>1. PICK o \in Lwip!Objects :
        /\ thr[t].pc = "idle" /\ obj[o].st = "new"
        /\ obj' = [obj EXCEPT ![o] = [name |-> <<"fd", Lwip!FreeFd>>, st |-> "made"]]
        /\ thr' = [thr EXCEPT ![t] = [Lwip!Idle EXCEPT !.pc = "add", !.o = o, !.fd = Lwip!FreeFd]]
        /\ fds' = fds \cup {Lwip!FreeFd}
        /\ UNCHANGED <<DEFAULT_NAME_COUNTER, existing_sockets, lwip_sockets, pipes>>
  BY DEF Lwip!Accept, Lwip!Make, Lwip!At
<1>2. \A e \in lwip_sockets : e.of \in Lwip!Objects /\ e.of # o
  BY <1>1 DEF LwipTypes, EntriesKnown
<1>3. thr[t].fd = 0
  BY <1>1 DEF AtWork
<1>4. Lwip!FreeFd \in Lwip!Objects \ fds
  BY <1>2, <1>3, FreeFdIsFree
<1>5. PICK fd \in Lwip!Objects \ fds : fd = Lwip!FreeFd
  BY <1>4
<1>6. thr'[t] = [pc |-> "add", o |-> o, n |-> 0, fd |-> fd]
  BY <1>1, <1>5 DEF LwipTypes, Lwip!Idle
<1>7. thr'[t].pc = "add" /\ thr'[t].o = o /\ thr'[t].fd = fd
  BY <1>6
<1>8. \A p \in Lwip!Objects : obj'[p] = IF p = o THEN [name |-> <<"fd", fd>>, st |-> "made"] ELSE obj[p]
  BY <1>1, <1>5 DEF LwipTypes
<1>9. obj'[o].name[1] = "fd" /\ obj'[o].name[2] = fd /\ obj'[o].st = "made"
  BY <1>8
<1>10. \A p \in Lwip!Objects : p # o => obj'[p] = obj[p]
  BY <1>8
<1>11. LwipTypes(t)'
  <2>1. [name |-> <<"fd", fd>>, st |-> "made"]
          \in SocketObjects
    BY DEF NamesOfSockets, Lwip!Objects
  <2>2. obj' \in [Lwip!Objects -> SocketObjects]
    BY <1>1, <1>5, <2>1 DEF LwipTypes
  <2>3. thr'[t] \in [pc : {"idle", "add", "register"} \cup Opening \cup Closing,
                     o : Nat, n : Nat, fd : Nat]
    BY <1>6 DEF Lwip!Objects
  <2>4. thr' = [u \in LwipThreads |-> thr'[t]]
    BY <1>1 DEF LwipTypes
  <2> QED
    BY <1>1, <1>5, <2>2, <2>3, <2>4 DEF LwipTypes
<1>12. Generated(t)'
  <2>1. \A p \in Lwip!Objects : obj[p].st # "new" /\ obj[p].name[1] = "default"
                            => obj[p].name[2] < DEFAULT_NAME_COUNTER
    BY <1>1 DEF Generated
  <2>2. \A p, q \in Lwip!Objects :
          /\ obj'[p].st # "new" /\ obj'[p].name[1] = "default"
          /\ obj'[q].st # "new" /\ obj'[q].name = obj'[p].name
          => p = q
    BY <1>9, <1>10 DEF Generated
  <2> QED
    BY <1>1, <1>7, <1>9, <1>10, <2>1, <2>2 DEF Generated
<1>13. EntriesKnown(t)'
  <2>1. ASSUME NEW e \in lwip_sockets
        PROVE  /\ e.name = obj'[e.of].name /\ e.name[1] # "none"
               /\ e.name[1] = "fd" => e.name[2] = e.fd
               /\ obj'[e.of].st = "open" /\ e.fd \in fds' /\ e.of \in pipes'
    BY <1>1, <1>2, <1>10 DEF EntriesKnown
  <2>2. \A a, e \in lwip_sockets : a.fd = e.fd \/ a.of = e.of => a = e
    BY DEF EntriesKnown
  <2> QED
    BY <1>1, <2>1, <2>2 DEF EntriesKnown
<1>14. Registered'
  <2>1. \A p \in Lwip!Objects : obj'[p].st = "open" => p # o /\ obj[p].st = "open" /\ obj'[p].name = obj[p].name
    BY <1>9, <1>10
  <2>2. \A x \in existing_sockets : x.of \in Lwip!Objects /\ x.of # o
    BY <1>1 DEF Registered, LwipTypes
  <2> QED
    BY <1>1, <1>10, <2>1, <2>2 DEF Registered
<1>15. AtWork(t)'
  <2>1. \A e \in lwip_sockets' : e.of # thr'[t].o /\ e.fd # thr'[t].fd
    BY <1>1, <1>2, <1>7 DEF EntriesKnown
  <2>2. thr'[t].fd \in fds'
    BY <1>1, <1>5, <1>7
  <2> QED
    BY <1>7, <1>9, <2>1, <2>2 DEF AtWork
<1>16. Owned(t)'
  <2>1. fds \subseteq {e.fd : e \in lwip_sockets}
    BY <1>3 DEF Owned, LwipTypes, Lwip!Objects
  <2> QED
    BY <1>1, <1>5, <1>7, <2>1 DEF Owned
<1> QED
  BY <1>11, <1>12, <1>13, <1>14, <1>15, <1>16

\* close() starts, with or without an entry.
LEMMA LwipCloseStep ==
  ASSUME NEW t, Sole(t), SoleInv(t), Lwip!Close(t)
  PROVE  SoleInv(t)'
<1> USE DEF Sole, SoleInv, Opening, Closing
<1>1. PICK o \in Lwip!Objects :
        /\ thr[t].pc = "idle" /\ obj[o].st = "open"
        /\ existing_sockets' = existing_sockets \ Lwip!Get(existing_sockets, obj[o].name)
        /\ IF Lwip!Get(existing_sockets, obj[o].name) = {}
           THEN obj' = [obj EXCEPT ![o].st = "raised"] /\ UNCHANGED thr
           ELSE /\ obj' = [obj EXCEPT ![o].st = "closing"]
                /\ thr' = [thr EXCEPT ![t] = [Lwip!Idle EXCEPT !.pc = "lwip_close", !.o = o]]
        /\ UNCHANGED <<DEFAULT_NAME_COUNTER, lwip_sockets, fds, pipes>>
  BY DEF Lwip!Close, Lwip!At
<1>2. Lwip!Get(existing_sockets, obj[o].name) # {}
  <2>1. PICK x \in existing_sockets : x = [name |-> obj[o].name, of |-> o]
    BY <1>1 DEF Registered
  <2> QED
    BY <2>1 DEF Lwip!Get
<1>3. \A p \in Lwip!Objects : obj[p].st = "open" /\ obj[p].name = obj[o].name => p = o
  <2> SUFFICES ASSUME NEW p \in Lwip!Objects, obj[p].st = "open", obj[p].name = obj[o].name
               PROVE  p = o
    OBVIOUS
  <2>1. PICK a \in lwip_sockets : a.of = o
    BY <1>1 DEF Registered
  <2>2. PICK b \in lwip_sockets : b.of = p
    BY DEF Registered
  <2>3. a.name = b.name
    BY <2>1, <2>2 DEF EntriesKnown
  <2>4. a = b
    BY <2>3, NamesApart
  <2> QED
    BY <2>1, <2>2, <2>4
<1>4. /\ obj' = [obj EXCEPT ![o].st = "closing"]
      /\ thr' = [thr EXCEPT ![t] = [Lwip!Idle EXCEPT !.pc = "lwip_close", !.o = o]]
  BY <1>1, <1>2
<1>5. thr'[t] = [pc |-> "lwip_close", o |-> o, n |-> 0, fd |-> 0]
  BY <1>4 DEF LwipTypes, Lwip!Idle
<1>6. thr'[t].pc = "lwip_close" /\ thr'[t].o = o /\ thr'[t].fd = 0
  BY <1>5
<1>7. /\ obj'[o].st = "closing"
      /\ \A p \in Lwip!Objects : obj'[p].name = obj[p].name /\ (p # o => obj'[p].st = obj[p].st)
  BY <1>4 DEF LwipTypes
<1>8. LwipTypes(t)'
  <2>1. obj' \in [Lwip!Objects -> SocketObjects]
    BY <1>4 DEF LwipTypes
  <2>2. thr'[t] \in [pc : {"idle", "add", "register"} \cup Opening \cup Closing,
                     o : Nat, n : Nat, fd : Nat]
    BY <1>5 DEF Lwip!Objects
  <2>3. thr' = [u \in LwipThreads |-> thr'[t]]
    BY <1>4 DEF LwipTypes
  <2> QED
    BY <1>1, <2>1, <2>2, <2>3 DEF LwipTypes
<1>9. Generated(t)'
  <2>1. \A p \in Lwip!Objects : obj'[p].st # "new" => obj[p].st # "new"
    BY <1>1, <1>7
  <2> QED
    BY <1>1, <1>6, <1>7, <2>1 DEF Generated
<1>10. EntriesKnown(t)'
  <2>1. ASSUME NEW e \in lwip_sockets
        PROVE  /\ e.name = obj'[e.of].name /\ e.name[1] # "none"
               /\ e.name[1] = "fd" => e.name[2] = e.fd
               /\ obj'[e.of].st = "open" \/ e.of = o
               /\ e.fd \in fds' /\ e.of \in pipes'
    <3>1. e.of \in Lwip!Objects /\ e.name = obj[e.of].name /\ obj[e.of].st = "open"
          /\ e.fd \in fds /\ e.of \in pipes
      BY <1>1 DEF LwipTypes, EntriesKnown
    <3>2. e.name[1] # "none" /\ (e.name[1] = "fd" => e.name[2] = e.fd)
      BY DEF EntriesKnown
    <3> QED
      BY <1>1, <1>7, <3>1, <3>2
  <2>2. \A a, e \in lwip_sockets : a.fd = e.fd \/ a.of = e.of => a = e
    BY DEF EntriesKnown
  <2> QED
    BY <1>1, <1>6, <2>1, <2>2 DEF EntriesKnown
<1>11. Registered'
  <2>1. ASSUME NEW p \in Lwip!Objects, obj'[p].st = "open"
        PROVE  (\E e \in lwip_sockets' : e.of = p)
               /\ [name |-> obj'[p].name, of |-> p] \in existing_sockets'
    <3>1. p # o /\ obj[p].st = "open" /\ obj'[p].name = obj[p].name
      BY <1>7, <2>1
    <3>2. obj[p].name # obj[o].name
      BY <1>3, <3>1
    <3>3. PICK x \in existing_sockets : x = [name |-> obj[p].name, of |-> p]
      BY <3>1 DEF Registered
    <3>4. x \in existing_sockets'
      BY <1>1, <3>2, <3>3 DEF Lwip!Get
    <3>5. \E e \in lwip_sockets' : e.of = p
      BY <1>1, <3>1 DEF Registered
    <3> QED
      BY <3>1, <3>3, <3>4, <3>5
  <2>2. ASSUME NEW x \in existing_sockets'
        PROVE  x.name = obj'[x.of].name /\ obj'[x.of].st = "open"
    <3>1. x \in existing_sockets /\ x.name # obj[o].name
      BY <1>1 DEF Lwip!Get
    <3>2. x.of \in Lwip!Objects /\ x.name = obj[x.of].name /\ obj[x.of].st = "open"
      BY <3>1 DEF Registered, LwipTypes
    <3> QED
      BY <1>7, <3>1, <3>2
  <2> QED
    BY <2>1, <2>2 DEF Registered
<1>12. AtWork(t)'
  <2>1. \E e \in lwip_sockets' : e.of = thr'[t].o
    BY <1>1, <1>6 DEF Registered
  <2>2. thr'[t].o \in Lwip!Objects /\ obj'[thr'[t].o].st = "closing"
    BY <1>6, <1>7
  <2> QED
    BY <1>6, <2>1, <2>2 DEF AtWork
<1>13. Owned(t)'
  BY <1>1, <1>6 DEF Owned, AtWork
<1> QED
  BY <1>8, <1>9, <1>10, <1>11, <1>12, <1>13

\* The entry of the object that is being closed is found by its name.
LEMMA OwnEntry ==
  ASSUME NEW t, Sole(t), SoleInv(t), thr[t].pc \in Closing
  PROVE  \E e \in lwip_sockets : /\ e.of = thr[t].o
                                 /\ Lwip!Get(lwip_sockets, Lwip!Name(t)) = {e}
<1>1. PICK e \in lwip_sockets : e.of = thr[t].o
  BY DEF SoleInv, AtWork
<1>2. e.name = Lwip!Name(t)
  BY <1>1 DEF SoleInv, EntriesKnown, Lwip!Name
<1>3. Lwip!Get(lwip_sockets, e.name) = {e}
  BY NamesApart
<1> QED
  BY <1>1, <1>2, <1>3

\* The steps of close() that change neither the objects nor the entries.
LEMMA ReleaseStep ==
  ASSUME NEW t, Sole(t), SoleInv(t), Lwip!LwipClose(t) \/ Lwip!ClosePipes(t)
  PROVE  SoleInv(t)'
<1> USE DEF Sole, SoleInv, Opening, Closing
<1>1. thr[t].pc \in {"lwip_close", "close_pipes"}
  BY DEF Lwip!LwipClose, Lwip!ClosePipes, Lwip!At
<1>2. PICK e \in lwip_sockets : e.of = thr[t].o /\ Lwip!Get(lwip_sockets, Lwip!Name(t)) = {e}
  BY <1>1, OwnEntry
<1>3. /\ obj' = obj /\ lwip_sockets' = lwip_sockets
      /\ UNCHANGED <<DEFAULT_NAME_COUNTER, existing_sockets>>
      /\ \/ /\ thr[t].pc = "lwip_close" /\ thr' = [thr EXCEPT ![t].pc = "close_pipes"]
            /\ fds' = fds \ {e.fd} /\ pipes' = pipes
         \/ /\ thr[t].pc = "close_pipes" /\ thr' = [thr EXCEPT ![t].pc = "delete"]
            /\ fds' = fds /\ pipes' = pipes \ {e.of}
  BY <1>2 DEF Lwip!LwipClose, Lwip!ClosePipes, Lwip!Found, Lwip!Goto, Lwip!At
<1>4. /\ thr'[t].pc = IF thr[t].pc = "lwip_close" THEN "close_pipes" ELSE "delete"
      /\ thr'[t].o = thr[t].o /\ thr'[t].fd = thr[t].fd /\ thr'[t].n = thr[t].n
      /\ thr' \in [LwipThreads -> [pc : {"idle", "add", "register"} \cup Opening \cup Closing,
                               o : Nat, n : Nat, fd : Nat]]
  BY <1>1, <1>3 DEF LwipTypes
<1>5. LwipTypes(t)'
  BY <1>3, <1>4 DEF LwipTypes
<1>6. Generated(t)' /\ Registered'
  BY <1>1, <1>3, <1>4 DEF Generated, Registered
<1>7. \A d \in lwip_sockets : d # e => d.fd # e.fd /\ d.of # e.of
  BY DEF EntriesKnown
<1>8. EntriesKnown(t)'
  <2>1. ASSUME NEW d \in lwip_sockets
        PROVE  /\ obj[d.of].st = "open" \/ thr[t].o = d.of
               /\ d.fd \in fds' \/ thr[t].o = d.of
               /\ d.of \in pipes' \/ (thr[t].o = d.of /\ thr[t].pc = "close_pipes")
    <3>1. CASE d = e
      BY <1>1, <1>2, <1>3, <3>1 DEF EntriesKnown
    <3>2. CASE d # e
      BY <1>1, <1>2, <1>3, <1>7, <3>2 DEF EntriesKnown
    <3> QED
      BY <3>1, <3>2
  <2>2. \A d \in lwip_sockets : /\ d.name = obj[d.of].name /\ d.name[1] # "none"
                                /\ d.name[1] = "fd" => d.name[2] = d.fd
    BY DEF EntriesKnown
  <2>3. \A a, d \in lwip_sockets : a.fd = d.fd \/ a.of = d.of => a = d
    BY DEF EntriesKnown
  <2> QED
    BY <1>1, <1>3, <1>4, <2>1, <2>2, <2>3 DEF EntriesKnown
<1>9. AtWork(t)'
  <2>1. thr[t].fd = 0 /\ thr[t].o \in Lwip!Objects /\ obj[thr[t].o].st = "closing"
        /\ (thr[t].pc = "close_pipes" => e.fd \notin fds)
    BY <1>1, <1>2 DEF AtWork
  <2>2. \A d \in lwip_sockets' : d.of = thr'[t].o => d.fd \notin fds'
    BY <1>1, <1>2, <1>3, <1>4, <1>7, <2>1
  <2>3. thr'[t].pc = "delete" => thr'[t].o \notin pipes'
    BY <1>1, <1>2, <1>3, <1>4
  <2> QED
    BY <1>1, <1>2, <1>3, <1>4, <2>1, <2>2, <2>3 DEF AtWork
<1>10. Owned(t)'
  BY <1>3, <1>4 DEF Owned
<1> QED
  BY <1>5, <1>6, <1>8, <1>9, <1>10

\* The entry is deleted last.
LEMMA LwipDeleteStep ==
  ASSUME NEW t, Sole(t), SoleInv(t), Lwip!DelEntry(t)
  PROVE  SoleInv(t)'
<1> USE DEF Sole, SoleInv, Opening, Closing
<1>1. thr[t].pc = "delete" /\ thr[t].o \in Lwip!Objects /\ thr[t].fd = 0 /\ thr[t].o \notin pipes
      /\ obj[thr[t].o].st = "closing"
  BY DEF Lwip!DelEntry, Lwip!At, AtWork
<1>2. PICK e \in lwip_sockets : e.of = thr[t].o /\ Lwip!Get(lwip_sockets, Lwip!Name(t)) = {e}
  BY <1>1, OwnEntry
<1>3. lwip_sockets' = lwip_sockets \ {e}
      /\ UNCHANGED <<DEFAULT_NAME_COUNTER, existing_sockets, fds, pipes>>
  BY <1>2 DEF Lwip!DelEntry
<1>4. PICK o \in Lwip!Objects : o = thr[t].o
  BY <1>1
<1>5. /\ thr'[t].pc = "idle" /\ thr'[t].fd = 0 /\ thr'[t].o = 0
      /\ obj'[o].st = "closed"
      /\ \A p \in Lwip!Objects : obj'[p].name = obj[p].name /\ (p # o => obj'[p].st = obj[p].st)
      /\ obj' \in [Lwip!Objects -> SocketObjects]
      /\ thr' \in [LwipThreads -> [pc : {"idle", "add", "register"} \cup Opening \cup Closing,
                               o : Nat, n : Nat, fd : Nat]]
  BY <1>1, <1>4, RaiseFacts DEF Lwip!DelEntry
<1>6. LwipTypes(t)'
  BY <1>3, <1>5 DEF LwipTypes
<1>7. Generated(t)'
  <2>1. \A p \in Lwip!Objects : obj'[p].st # "new" => obj[p].st # "new"
    BY <1>1, <1>4, <1>5
  <2> QED
    BY <1>1, <1>3, <1>5, <2>1 DEF Generated
<1>8. EntriesKnown(t)'
  <2>1. ASSUME NEW d \in lwip_sockets'
        PROVE  /\ d.name = obj'[d.of].name /\ d.name[1] # "none"
               /\ d.name[1] = "fd" => d.name[2] = d.fd
               /\ obj'[d.of].st = "open" /\ d.fd \in fds' /\ d.of \in pipes'
    <3>1. d \in lwip_sockets /\ d.of # o /\ d.of \in Lwip!Objects
      BY <1>2, <1>3, <1>4 DEF EntriesKnown, LwipTypes
    <3>2. d.name = obj[d.of].name /\ d.name[1] # "none" /\ (d.name[1] = "fd" => d.name[2] = d.fd)
          /\ obj[d.of].st = "open" /\ d.fd \in fds /\ d.of \in pipes
      BY <1>4, <3>1 DEF EntriesKnown
    <3> QED
      BY <1>3, <1>5, <3>1, <3>2
  <2>2. \A a, d \in lwip_sockets' : a.fd = d.fd \/ a.of = d.of => a = d
    BY <1>3 DEF EntriesKnown
  <2> QED
    BY <2>1, <2>2 DEF EntriesKnown
<1>9. Registered'
  <2>1. ASSUME NEW p \in Lwip!Objects, obj'[p].st = "open"
        PROVE  (\E d \in lwip_sockets' : d.of = p)
               /\ [name |-> obj'[p].name, of |-> p] \in existing_sockets'
    <3>1. p # o /\ obj[p].st = "open" /\ obj'[p].name = obj[p].name
      BY <1>5, <2>1
    <3>2. PICK d \in lwip_sockets : d.of = p
      BY <3>1 DEF Registered
    <3>3. d \in lwip_sockets'
      BY <1>2, <1>3, <1>4, <3>1, <3>2
    <3>4. [name |-> obj[p].name, of |-> p] \in existing_sockets
      BY <3>1 DEF Registered
    <3> QED
      BY <1>3, <3>1, <3>2, <3>3, <3>4
  <2>2. ASSUME NEW x \in existing_sockets
        PROVE  x.name = obj'[x.of].name /\ obj'[x.of].st = "open"
    <3>1. x.of \in Lwip!Objects /\ x.name = obj[x.of].name /\ obj[x.of].st = "open"
      BY DEF Registered, LwipTypes
    <3> QED
      BY <1>1, <1>4, <1>5, <3>1
  <2> QED
    BY <1>3, <2>1, <2>2 DEF Registered
<1>10. AtWork(t)'
  BY <1>5 DEF AtWork
<1>11. Owned(t)'
  <2>1. e.fd \notin fds
    BY <1>1, <1>2 DEF AtWork
  <2>2. fds \subseteq {d.fd : d \in lwip_sockets}
    BY <1>1 DEF Owned, LwipTypes, Lwip!Objects
  <2>3. fds' \subseteq {d.fd : d \in lwip_sockets'}
    BY <1>3, <2>1, <2>2
  <2>4. pipes' \subseteq {d.of : d \in lwip_sockets'}
    BY <1>1, <1>2, <1>3 DEF Owned
  <2> QED
    BY <2>3, <2>4 DEF Owned
<1> QED
  BY <1>6, <1>7, <1>8, <1>9, <1>10, <1>11

\* Every step of LwipSockets keeps the invariant.
LEMMA LwipStep ==
  ASSUME NEW t, Sole(t), SoleInv(t), (Lwip!Next \/ UNCHANGED Lwip!vars)
  PROVE  SoleInv(t)'
<1>1. CASE Lwip!Next
  <2>1. \/ Lwip!New(t) \/ Lwip!Load(t) \/ Lwip!Store(t) \/ Lwip!socketOpen(t) \/ Lwip!AddOpenSocket(t) \/ Lwip!Register(t)
        \/ Lwip!Accept(t) \/ Lwip!Close(t) \/ Lwip!LwipClose(t) \/ Lwip!ClosePipes(t) \/ Lwip!DelEntry(t)
    BY <1>1 DEF Lwip!Next, Sole
  <2> QED
    BY <2>1, NewStep, CountStep, LwipOpenStep, AddStep, RegisterStep, LwipAcceptStep, LwipCloseStep,
       ReleaseStep, LwipDeleteStep
<1>2. CASE UNCHANGED Lwip!vars
  BY <1>2 DEF Lwip!vars, SoleInv, LwipTypes, Generated, EntriesKnown, Registered, AtWork, Owned
<1> QED
  BY <1>1, <1>2

LEMMA SoleInvSuffices ==
  ASSUME NEW t, Sole(t), SoleInv(t)
  PROVE  Lwip!OwnSocket /\ Lwip!NothingLeaks /\ Lwip!NamesAreNew
<1> USE DEF Sole, SoleInv, Opening, Closing
<1>1. ASSUME NEW o \in Lwip!Objects, obj[o].st = "open"
      PROVE  \E e \in Lwip!Get(lwip_sockets, obj[o].name) :
               /\ e.of = o /\ e.fd \in fds /\ o \in pipes
               /\ \A d \in lwip_sockets : d.fd = e.fd => d = e
  <2>1. PICK e \in lwip_sockets : e.of = o
    BY <1>1 DEF Registered
  <2>2. ~(thr[t].o = o /\ thr[t].pc \in Closing)
    BY <1>1 DEF AtWork
  <2>3. e.name = obj[o].name /\ e.fd \in fds /\ o \in pipes
    BY <2>1, <2>2 DEF EntriesKnown
  <2>4. e \in Lwip!Get(lwip_sockets, obj[o].name)
    BY <2>1, <2>3 DEF Lwip!Get
  <2>5. \A d \in lwip_sockets : d.fd = e.fd => d = e
    BY DEF EntriesKnown
  <2> QED
    BY <2>1, <2>3, <2>4, <2>5
<1>2. Lwip!NothingLeaks
  BY DEF Owned, Lwip!NothingLeaks
<1>3. ASSUME thr[t].pc = "open", NEW e \in lwip_sockets, e.name = Lwip!Name(t)
      PROVE  FALSE
  <2>1. thr[t].o \in Lwip!Objects /\ obj[thr[t].o].name[1] = "default" /\ obj[thr[t].o].st = "made"
        /\ e.of # thr[t].o
    BY <1>3 DEF AtWork
  <2>2. e.of \in Lwip!Objects /\ e.name = obj[e.of].name /\ obj[e.of].st # "new"
    BY <1>3 DEF EntriesKnown, LwipTypes
  <2> QED
    BY <1>3, <2>1, <2>2 DEF Generated, Lwip!Name
<1>4. Lwip!NamesAreNew
  BY <1>3 DEF Lwip!NamesAreNew, Lwip!At, Lwip!Get
<1> QED
  BY <1>1, <1>2, <1>4 DEF Lwip!OwnSocket


-----------------------------------------------------------------------------
(* SocketBoxes: names, boxes and pipes of the picoTCP adapter                *)

\* The names and the sockets of the stack are not taken for nobody.
Known == IsFiniteSet(SocketNames) /\ Boxes!Nobody \notin SocketNames \cup Ptrs

States == {"free", "idle", "syn", "est", "listen", "dead"}
Places == {"none", "open", "connecting", "connected", "listening", "accepting", "closing"}
NbPipes == Cardinality(SocketNames)

StackSockets == [st : States, owner : SocketNames \cup {Boxes!Nobody}, parent : Ptrs \cup {Boxes!Nobody}]
Callbacks == [name : SocketNames \cup {Boxes!Nobody}, ptr : Ptrs \cup {Boxes!Nobody}, fd : 0..NbPipes]
Entries == [open : BOOLEAN, fd : 0..NbPipes, tokens : Nat]
USE DEF StackSockets, Callbacks, Entries

BoxTypes ==
  /\ memory \in [Ptrs -> StackSockets]
  /\ boxes \in Seq([name : SocketNames, ptr : Ptrs])
  /\ entries \in [SocketNames -> Entries]
  /\ descriptors \in [1..NbPipes -> SocketNames \cup {Boxes!Nobody}]
  /\ threads \in [SocketNames -> Places]
  /\ callback \in Callbacks
  /\ wasReset \in BOOLEAN

\* What the adapter has of a name agrees with where its thread is.
Used == \A n \in SocketNames : threads[n] # "none" => entries[n].open
BoxesNamed == \A i, j \in 1..Len(boxes) : boxes[i].name = boxes[j].name => i = j
BoxesUsed == \A i \in 1..Len(boxes) : threads[boxes[i].name] \notin {"none", "closing"}
UsedBoxed == \A n \in SocketNames : threads[n] \in {"connecting", "connected", "listening", "accepting"}
                => \E i \in 1..Len(boxes) : boxes[i].name = n

\* Until something is reset: no token before the first call that waits, a box is
\* of a socket that its name owns in the state its thread is waiting for, and the
\* callback that is called belongs to such a socket.
NoToken == ~wasReset => \A n \in SocketNames : threads[n] \in {"none", "open"} => entries[n].tokens = 0
Fits(at, tokens, now) ==
  /\ at = "open" => now = "idle"
  /\ at = "connecting" => now \in {"syn", "est"} /\ (tokens > 0 => now = "est")
  /\ at = "connected" => now = "est"
  /\ at \in {"listening", "accepting"} => now = "listen"
BoxesOwn == ~wasReset => \A i \in 1..Len(boxes) :
               /\ memory[boxes[i].ptr].owner = boxes[i].name
               /\ Fits(threads[boxes[i].name], entries[boxes[i].name].tokens, memory[boxes[i].ptr].st)
CallbackOwns == ~wasReset /\ ~Boxes!Idle =>
  /\ callback.ptr \in Ptrs /\ callback.name \in SocketNames
  /\ memory[callback.ptr].owner = callback.name /\ memory[callback.ptr].st \notin {"free", "idle"}

BoxInv == /\ BoxTypes /\ Boxes!PipePerEntry /\ Used /\ BoxesNamed /\ BoxesUsed /\ UsedBoxed
          /\ NoToken /\ BoxesOwn /\ CallbackOwns

\* A name that has no entry leaves a pipe free: there are as many pipes as
\* names.
LEMMA FreePipe ==
  ASSUME Known, BoxTypes, Boxes!PipePerEntry, NEW n \in SocketNames, ~entries[n].open
  PROVE  LET fd == Boxes!Min({i \in DOMAIN descriptors : descriptors[i] = Boxes!Nobody})
         IN fd \in 1..NbPipes /\ descriptors[fd] = Boxes!Nobody
<1> DEFINE free == {i \in DOMAIN descriptors : descriptors[i] = Boxes!Nobody}
<1>0. NbPipes \in Nat /\ DOMAIN descriptors = 1..NbPipes
  BY FS_CardinalityType DEF Known, NbPipes, BoxTypes
<1>1. free # {}
  <2> SUFFICES ASSUME \A i \in 1..NbPipes : descriptors[i] # Boxes!Nobody PROVE FALSE
    BY <1>0
  <2>1. descriptors \in [1..NbPipes -> SocketNames \ {n}]
    <3>1. \A i \in 1..NbPipes : descriptors[i] \in SocketNames \ {n}
      BY <1>0 DEF BoxTypes, Boxes!PipePerEntry
    <3> QED
      BY <3>1 DEF BoxTypes
  <2>2. \A i, j \in 1..NbPipes : descriptors[i] = descriptors[j] => i = j
    BY <1>0, <2>1 DEF Boxes!PipePerEntry
  <2>3. descriptors \in Injection(1..NbPipes, SocketNames \ {n})
    BY <2>1, <2>2 DEF Injection, IsInjective
  <2>4. IsFiniteSet(SocketNames \ {n}) /\ Cardinality(SocketNames \ {n}) = NbPipes - 1
    BY FS_RemoveElement DEF Known, NbPipes
  <2>5. IsFiniteSet(1..NbPipes) /\ Cardinality(1..NbPipes) = NbPipes
    BY <1>0, FS_Interval
  <2>6. Cardinality(1..NbPipes) <= Cardinality(SocketNames \ {n})
    BY <2>3, <2>4, <2>5, FS_Injection
  <2> QED
    BY <1>0, <2>4, <2>5, <2>6
<1>2. free \in SUBSET Nat
  BY <1>0
<1>3. \E m \in free : \A k \in free : m <= k
  BY <1>1, <1>2, SmallestExists
<1> QED
  BY <1>0, <1>3 DEF Boxes!Min

\* socket_arg_get finds a box of the socket of the stack, if there is one.
LEMMA BoxFound ==
  ASSUME Known, BoxTypes, BoxesNamed, NEW n \in SocketNames
  PROVE  /\ \A i \in 1..Len(boxes) : boxes[i].name = n => Boxes!BoxOf(n) = boxes[i].ptr
         /\ Boxes!BoxOf(n) # Boxes!Nobody => \E i \in 1..Len(boxes) : boxes[i].name = n
         /\ \A i \in 1..Len(boxes) : boxes[i].ptr # Boxes!Nobody
<1> DEFINE at == {i \in 1..Len(boxes) : boxes[i].name = n}
<1>1. ASSUME NEW i \in 1..Len(boxes), boxes[i].name = n PROVE Boxes!BoxOf(n) = boxes[i].ptr
  <2>1. at = {i}
    BY <1>1 DEF BoxesNamed
  <2>2. Boxes!Min(at) = i
    BY <2>1 DEF Boxes!Min
  <2> QED
    BY <2>1, <2>2 DEF Boxes!BoxOf
<1>2. Boxes!BoxOf(n) # Boxes!Nobody => at # {}
  BY DEF Boxes!BoxOf
<1>3. \A i \in 1..Len(boxes) : boxes[i] \in [name : SocketNames, ptr : Ptrs]
  BY ElementOfSeq DEF BoxTypes
<1> QED
  BY <1>1, <1>2, <1>3 DEF Known

\* socket_name_get finds the box of the name, the only one.
LEMMA NameFound ==
  ASSUME Known, BoxTypes, NEW p \in Ptrs, Boxes!NameOf(p) # Boxes!Nobody
  PROVE  \E i \in 1..Len(boxes) : boxes[i].ptr = p /\ Boxes!NameOf(p) = boxes[i].name
<1> DEFINE at == {i \in 1..Len(boxes) : boxes[i].ptr = p}
<1>1. at # {} /\ Boxes!NameOf(p) = boxes[Boxes!Min(at)].name
  BY DEF Boxes!NameOf
<1>2. at \in SUBSET Nat
  BY DEF BoxTypes
<1>3. \E m \in at : \A k \in at : m <= k
  BY <1>1, <1>2, SmallestExists
<1>4. Boxes!Min(at) \in at
  BY <1>3 DEF Boxes!Min
<1> QED
  BY <1>1, <1>4

\* What a box of the list is.
LEMMA BoxesTyped ==
  ASSUME BoxTypes
  PROVE  \A i \in 1..Len(boxes) : boxes[i].name \in SocketNames /\ boxes[i].ptr \in Ptrs
<1>1. \A i \in 1..Len(boxes) : boxes[i] \in [name : SocketNames, ptr : Ptrs]
  BY ElementOfSeq DEF BoxTypes
<1> QED
  BY <1>1

\* socket_arg_add puts the box at the end.
LEMMA BoxAdded ==
  ASSUME BoxTypes, NEW n \in SocketNames, NEW p \in Ptrs, Boxes!BoxAdd(n, p)
  PROVE  /\ boxes' \in Seq([name : SocketNames, ptr : Ptrs])
         /\ Len(boxes') = Len(boxes) + 1
         /\ \A i \in 1..Len(boxes) : boxes'[i] = boxes[i]
         /\ boxes'[Len(boxes) + 1] = [name |-> n, ptr |-> p]
BY DEF Boxes!BoxAdd, BoxTypes

\* socket_arg_del takes one box away and keeps the others, in order.
LEMMA BoxDeleted ==
  ASSUME Known, BoxTypes, BoxesNamed, NEW k \in 1..Len(boxes), Boxes!BoxDelete(boxes[k].name)
  PROVE  /\ boxes' \in Seq([name : SocketNames, ptr : Ptrs])
         /\ Len(boxes') = Len(boxes) - 1
         /\ \A j \in 1..Len(boxes') : boxes'[j] = boxes[IF j < k THEN j ELSE j + 1]
<1> DEFINE at == {j \in 1..Len(boxes) : boxes[j].name = boxes[k].name}
           Box == [name : SocketNames, ptr : Ptrs]
<1>1. at = {k}
  BY DEF BoxesNamed
<1>2. Boxes!Min(at) = k
  BY <1>1 DEF Boxes!Min
<1>3. boxes' = SubSeq(boxes, 1, k - 1) \o SubSeq(boxes, k + 1, Len(boxes))
  BY <1>2 DEF Boxes!BoxDelete
<1>4. boxes \in Seq(Box) /\ Len(boxes) \in Nat
  BY DEF BoxTypes
<1> HIDE DEF Box, at
<1>5. PICK a : a = SubSeq(boxes, 1, k - 1)
  OBVIOUS
<1>6. PICK b : b = SubSeq(boxes, k + 1, Len(boxes))
  OBVIOUS
<1>7. a \in Seq(Box) /\ Len(a) = k - 1 /\ \A j \in 1..k - 1 : a[j] = boxes[j]
  BY <1>4, <1>5
<1>8. b \in Seq(Box) /\ Len(b) = Len(boxes) - k /\ \A j \in 1..Len(boxes) - k : b[j] = boxes[k + j]
  BY <1>4, <1>6
<1>9. boxes' = a \o b
  BY <1>3, <1>5, <1>6
<1>10. boxes' \in Seq(Box) /\ Len(boxes') = Len(boxes) - 1
  BY <1>4, <1>7, <1>8, <1>9
<1>11. \A j \in 1..Len(a) + Len(b) : (a \o b)[j] = IF j <= Len(a) THEN a[j] ELSE b[j - Len(a)]
  BY <1>7, <1>8, ConcatProperties
<1>12. ASSUME NEW j \in 1..Len(boxes) - 1
       PROVE  boxes'[j] = boxes[IF j < k THEN j ELSE j + 1]
  <2>1. j \in 1..Len(a) + Len(b) /\ (j <= Len(a) <=> j < k)
    BY <1>4, <1>7, <1>8
  <2>2. CASE j < k
    BY <1>7, <1>9, <1>11, <2>1, <2>2
  <2>3. CASE ~(j < k)
    <3>1. j - Len(a) \in 1..Len(boxes) - k /\ k + (j - Len(a)) = j + 1
      BY <1>4, <1>7, <2>3
    <3>2. b[j - Len(a)] = boxes[j + 1]
      BY <1>8, <3>1
    <3> QED
      BY <1>9, <1>11, <2>1, <2>3, <3>2
  <2> QED
    BY <2>2, <2>3
<1> QED
  BY <1>10, <1>12 DEF Box

\* _add_open_socket gives the name the first free pipe.
LEMMA EntryAdded ==
  ASSUME Known, BoxTypes, Boxes!PipePerEntry, NEW n \in SocketNames, ~entries[n].open,
         Boxes!AddOpenSocket(n)
  PROVE  /\ entries' \in [SocketNames -> Entries]
         /\ descriptors' \in [1..NbPipes -> SocketNames \cup {Boxes!Nobody}]
         /\ entries'[n].open /\ entries'[n].tokens = 0
         /\ \A m \in SocketNames : m # n => entries'[m] = entries[m]
         /\ Boxes!PipePerEntry'
<1>1. PICK fd \in 1..NbPipes :
        /\ descriptors[fd] = Boxes!Nobody
        /\ entries' = [entries EXCEPT ![n] = [open |-> TRUE, fd |-> fd, tokens |-> 0]]
        /\ descriptors' = [descriptors EXCEPT ![fd] = n]
  BY FreePipe DEF Boxes!AddOpenSocket
<1>2. NbPipes \in Nat
  BY FS_CardinalityType DEF Known, NbPipes
<1>3. /\ entries'[n] = [open |-> TRUE, fd |-> fd, tokens |-> 0]
      /\ \A m \in SocketNames : m # n => entries'[m] = entries[m]
      /\ descriptors'[fd] = n
      /\ \A i \in 1..NbPipes : i # fd => descriptors'[i] = descriptors[i]
  BY <1>1 DEF BoxTypes
<1>4. entries' \in [SocketNames -> Entries]
  BY <1>1, <1>2 DEF BoxTypes
<1>5. descriptors' \in [1..NbPipes -> SocketNames \cup {Boxes!Nobody}] /\ DOMAIN descriptors = 1..NbPipes
  BY <1>1 DEF BoxTypes
<1>6. ASSUME NEW i \in 1..NbPipes, NEW m \in SocketNames
      PROVE  descriptors'[i] = m <=> entries'[m].open /\ entries'[m].fd = i
  <2>1. CASE m = n
    BY <1>3, <1>5, <2>1 DEF Boxes!PipePerEntry
  <2>2. CASE m # n
    <3>1. descriptors[i] = m <=> entries[m].open /\ entries[m].fd = i
      BY <1>5 DEF Boxes!PipePerEntry
    <3>2. CASE i = fd
      BY <1>1, <1>3, <2>2, <3>1, <3>2 DEF Known
    <3>3. CASE i # fd
      BY <1>3, <2>2, <3>1, <3>3
    <3> QED
      BY <3>2, <3>3
  <2> QED
    BY <2>1, <2>2
<1>7. Boxes!PipePerEntry'
  BY <1>5, <1>6 DEF Boxes!PipePerEntry
<1> QED
  BY <1>3, <1>4, <1>5, <1>7

\* The instance counts as FiniteSets does.
LEMMA SameCardinality ==
  ASSUME NEW S
  PROVE  Boxes!Cardinality(S) = Cardinality(S)
BY DEF Boxes!Cardinality, Cardinality

LEMMA BoxInitially == ASSUME Known, Boxes!Init PROVE BoxInv
<1>1. NbPipes \in Nat
  BY FS_CardinalityType DEF Known, NbPipes
<1>2. \A n \in SocketNames : entries[n] = Boxes!NoEntry /\ threads[n] = "none"
  BY DEF Boxes!Init
<1>3. \A i \in 1..NbPipes : descriptors[i] = Boxes!Nobody
  BY SameCardinality DEF Boxes!Init, NbPipes
<1>4. BoxTypes
  <2>2. memory \in [Ptrs -> StackSockets]
    BY DEF Boxes!Init, Boxes!Unused, States
  <2>3. boxes \in Seq([name : SocketNames, ptr : Ptrs])
    BY DEF Boxes!Init
  <2>4. /\ entries \in [SocketNames -> Entries]
        /\ descriptors \in [1..NbPipes -> SocketNames \cup {Boxes!Nobody}]
        /\ threads \in [SocketNames -> Places]
    BY <1>1, SameCardinality DEF Boxes!Init, Boxes!NoEntry, Places, NbPipes
  <2>5. callback \in Callbacks
    BY <1>1 DEF Boxes!Init, Boxes!NoCallback
  <2> QED
    BY <2>2, <2>3, <2>4, <2>5 DEF BoxTypes, Boxes!Init
<1>5. Boxes!PipePerEntry
  BY <1>2, <1>3, <1>4 DEF Boxes!PipePerEntry, Boxes!NoEntry, BoxTypes, Known
<1>6. Used /\ UsedBoxed /\ NoToken
  BY <1>2 DEF Used, UsedBoxed, NoToken, Boxes!NoEntry
<1>7. BoxesNamed /\ BoxesUsed /\ BoxesOwn
  BY DEF Boxes!Init, BoxesNamed, BoxesUsed, BoxesOwn
<1>8. CallbackOwns
  BY DEF Boxes!Init, CallbackOwns, Boxes!Idle
<1> QED
  BY <1>4, <1>5, <1>6, <1>7, <1>8 DEF BoxInv

\* A socket that has a box is one the stack did not give back.
LEMMA BoxedInUse ==
  ASSUME BoxInv, ~wasReset, NEW i \in 1..Len(boxes)
  PROVE  /\ boxes[i].name \in SocketNames /\ boxes[i].ptr \in Ptrs
         /\ memory[boxes[i].ptr].st \in {"idle", "syn", "est", "listen"}
         /\ memory[boxes[i].ptr].owner = boxes[i].name
<1>1. boxes[i].name \in SocketNames /\ boxes[i].ptr \in Ptrs
  BY BoxesTyped DEF BoxInv
<1>2. threads[boxes[i].name] \in Places \ {"none", "closing"}
  BY <1>1 DEF BoxInv, BoxesUsed, BoxTypes
<1> QED
  BY <1>1, <1>2 DEF BoxInv, BoxesOwn, Fits, Places

\* A socket of the stack, a box and an entry are made for a name that has none.
LEMMA BoxOpenStep ==
  ASSUME Known, BoxInv, NEW n \in SocketNames, Boxes!Open(n) PROVE BoxInv'
<1>1. PICK p \in Ptrs : /\ memory[p].st = "free"
        /\ memory' = [memory EXCEPT ![p] = [Boxes!Unused EXCEPT !.st = "idle", !.owner = n]]
        /\ Boxes!BoxAdd(n, p)
  BY DEF Boxes!Open
<1>2. /\ boxes' \in Seq([name : SocketNames, ptr : Ptrs])
      /\ Len(boxes') = Len(boxes) + 1
      /\ \A i \in 1..Len(boxes) : boxes'[i] = boxes[i]
      /\ boxes'[Len(boxes) + 1] = [name |-> n, ptr |-> p]
  BY <1>1, BoxAdded DEF BoxInv
<1>3. /\ entries' \in [SocketNames -> Entries]
      /\ descriptors' \in [1..NbPipes -> SocketNames \cup {Boxes!Nobody}]
      /\ entries'[n].open /\ entries'[n].tokens = 0
      /\ \A m \in SocketNames : m # n => entries'[m] = entries[m]
      /\ Boxes!PipePerEntry'
  BY EntryAdded DEF BoxInv, Boxes!Open
<1>4. /\ threads'[n] = "open" /\ threads[n] = "none"
      /\ \A m \in SocketNames : m # n => threads'[m] = threads[m]
  BY DEF Boxes!Open, BoxInv, BoxTypes
<1>5. /\ memory'[p].st = "idle" /\ memory'[p].owner = n
      /\ \A q \in Ptrs : q # p => memory'[q] = memory[q]
  BY <1>1 DEF BoxInv, BoxTypes, Boxes!Unused
<1>6. \A i \in 1..Len(boxes) : /\ boxes[i].name \in SocketNames \ {n}
                               /\ boxes[i].ptr \in Ptrs
  BY <1>4, BoxesTyped DEF BoxInv, BoxesUsed
<1>7. Len(boxes) \in Nat
  BY DEF BoxInv, BoxTypes
<1>8. UNCHANGED <<callback, wasReset>>
  BY DEF Boxes!Open
<1>9. BoxTypes'
  <2>1. memory' \in [Ptrs -> StackSockets]
    BY <1>1 DEF BoxInv, BoxTypes, Boxes!Unused, States
  <2>2. threads' \in [SocketNames -> Places]
    BY DEF Boxes!Open, BoxInv, BoxTypes, Places
  <2> QED
    BY <1>2, <1>3, <1>8, <2>1, <2>2 DEF BoxInv, BoxTypes
<1>10. Used'
  BY <1>3, <1>4 DEF BoxInv, Used
<1>11. BoxesNamed'
  BY <1>2, <1>6, <1>7 DEF BoxInv, BoxesNamed
<1>12. BoxesUsed'
  BY <1>2, <1>4, <1>6, <1>7 DEF BoxInv, BoxesUsed
<1>13. UsedBoxed'
  <2> SUFFICES ASSUME NEW m \in SocketNames, threads'[m] \in {"connecting", "connected", "listening", "accepting"}
               PROVE  \E i \in 1..Len(boxes') : boxes'[i].name = m
    BY DEF UsedBoxed
  <2>1. threads[m] = threads'[m]
    BY <1>4
  <2>2. PICK i \in 1..Len(boxes) : boxes[i].name = m
    BY <2>1 DEF BoxInv, UsedBoxed
  <2> QED
    BY <1>2, <1>7, <2>2
<1>14. NoToken'
  BY <1>3, <1>4, <1>8 DEF BoxInv, NoToken
<1>15. BoxesOwn'
  <2> SUFFICES ASSUME ~wasReset, NEW i \in 1..Len(boxes')
               PROVE  /\ memory'[boxes'[i].ptr].owner = boxes'[i].name
                      /\ Fits(threads'[boxes'[i].name], entries'[boxes'[i].name].tokens, memory'[boxes'[i].ptr].st)
    BY <1>8 DEF BoxesOwn
  <2>1. CASE i = Len(boxes) + 1
    BY <1>2, <1>4, <1>5, <2>1 DEF Fits
  <2>2. CASE i \in 1..Len(boxes)
    <3>1. boxes[i].ptr # p
      BY <1>1, <2>2, BoxedInUse
    <3>2. /\ boxes'[i] = boxes[i] /\ memory'[boxes[i].ptr] = memory[boxes[i].ptr]
          /\ threads'[boxes[i].name] = threads[boxes[i].name]
          /\ entries'[boxes[i].name] = entries[boxes[i].name]
      BY <1>2, <1>3, <1>4, <1>5, <1>6, <2>2, <3>1
    <3>3. /\ memory[boxes[i].ptr].owner = boxes[i].name
          /\ Fits(threads[boxes[i].name], entries[boxes[i].name].tokens, memory[boxes[i].ptr].st)
      BY <2>2 DEF BoxInv, BoxesOwn
    <3> QED
      BY <3>2, <3>3
  <2> QED
    BY <1>2, <1>7, <2>1, <2>2
<1>16. CallbackOwns'
  BY <1>1, <1>5, <1>8 DEF BoxInv, CallbackOwns, Boxes!Idle
<1> QED
  BY <1>3, <1>9, <1>10, <1>11, <1>12, <1>13, <1>14, <1>15, <1>16 DEF BoxInv

\* The thread of a name goes on to at; it may have taken a token or started the
\* socket that it has in the stack.
LEMMA MoveStep ==
  ASSUME Known, BoxInv, NEW n \in SocketNames, NEW at \in Places, NEW k \in Nat,
         threads' = [threads EXCEPT ![n] = at],
         entries' = [entries EXCEPT ![n].tokens = k],
         UNCHANGED <<boxes, descriptors, callback, wasReset>>,
         memory' \in [Ptrs -> StackSockets],
         ~wasReset => \A p \in Ptrs : \/ memory'[p] = memory[p]
                                      \/ /\ memory[p].st = "idle" /\ memory[p].owner = n
                                         /\ memory'[p].owner = n,
         entries[n].open,
         \A i \in 1..Len(boxes) : boxes[i].name = n => at \notin {"none", "closing"},
         \/ at \notin {"connecting", "connected", "listening", "accepting"}
         \/ \E i \in 1..Len(boxes) : boxes[i].name = n,
         ~wasReset => /\ at \in {"none", "open"} => k = 0
                      /\ \A i \in 1..Len(boxes) :
                           boxes[i].name = n => Fits(at, k, memory'[boxes[i].ptr].st)
  PROVE  BoxInv'
<1>1. /\ threads'[n] = at /\ \A m \in SocketNames \ {n} : threads'[m] = threads[m]
      /\ entries'[n].tokens = k
      /\ \A m \in SocketNames : /\ entries'[m].open = entries[m].open
                          /\ entries'[m].fd = entries[m].fd
      /\ \A m \in SocketNames \ {n} : entries'[m] = entries[m]
  BY DEF BoxInv, BoxTypes
<1>2. \A i \in 1..Len(boxes) : boxes[i].name \in SocketNames /\ boxes[i].ptr \in Ptrs
  BY BoxesTyped DEF BoxInv
<1>3. BoxTypes'
  <2>0. entries[n] \in Entries
    BY DEF BoxInv, BoxTypes
  <2>3. [entries[n] EXCEPT !.tokens = k] \in Entries
    BY <2>0
  <2>4. entries' = [entries EXCEPT ![n] = [entries[n] EXCEPT !.tokens = k]]
    BY DEF BoxInv, BoxTypes
  <2>1. entries' \in [SocketNames -> Entries]
    BY <2>3, <2>4 DEF BoxInv, BoxTypes
  <2>2. threads' \in [SocketNames -> Places]
    BY DEF BoxInv, BoxTypes
  <2> QED
    BY <2>1, <2>2 DEF BoxInv, BoxTypes
<1>4. Boxes!PipePerEntry'
  BY <1>1 DEF BoxInv, Boxes!PipePerEntry
<1>5. Used'
  BY <1>1 DEF BoxInv, Used
<1>6. BoxesNamed'
  BY DEF BoxInv, BoxesNamed
<1>7. BoxesUsed'
  <2> SUFFICES ASSUME NEW i \in 1..Len(boxes) PROVE threads'[boxes[i].name] \notin {"none", "closing"}
    BY DEF BoxesUsed
  <2>1. CASE boxes[i].name = n
    BY <1>1, <2>1
  <2>2. CASE boxes[i].name # n
    BY <1>1, <1>2, <2>2 DEF BoxInv, BoxesUsed
  <2> QED
    BY <2>1, <2>2
<1>8. UsedBoxed'
  <2> SUFFICES ASSUME NEW m \in SocketNames, threads'[m] \in {"connecting", "connected", "listening", "accepting"}
               PROVE  \E i \in 1..Len(boxes) : boxes[i].name = m
    BY DEF UsedBoxed
  <2>1. CASE m = n
    BY <1>1, <2>1
  <2>2. CASE m # n
    BY <1>1, <2>2 DEF BoxInv, UsedBoxed
  <2> QED
    BY <2>1, <2>2
<1>9. NoToken'
  BY <1>1 DEF BoxInv, NoToken
<1>10. BoxesOwn'
  <2> SUFFICES ASSUME ~wasReset, NEW i \in 1..Len(boxes)
               PROVE  /\ memory'[boxes[i].ptr].owner = boxes[i].name
                      /\ Fits(threads'[boxes[i].name], entries'[boxes[i].name].tokens,
                              memory'[boxes[i].ptr].st)
    BY DEF BoxesOwn
  <2>1. /\ memory[boxes[i].ptr].owner = boxes[i].name
        /\ Fits(threads[boxes[i].name], entries[boxes[i].name].tokens, memory[boxes[i].ptr].st)
    BY DEF BoxInv, BoxesOwn
  <2>2. CASE boxes[i].name = n
    BY <1>1, <1>2, <2>1, <2>2
  <2>3. CASE boxes[i].name # n
    <3>1. memory'[boxes[i].ptr] = memory[boxes[i].ptr]
      BY <1>2, <2>1, <2>3
    <3> QED
      BY <1>1, <1>2, <2>1, <2>3, <3>1
  <2> QED
    BY <2>2, <2>3
<1>11. CallbackOwns'
  BY DEF BoxInv, CallbackOwns, Boxes!Idle
<1> QED
  BY <1>3, <1>4, <1>5, <1>6, <1>7, <1>8, <1>9, <1>10, <1>11 DEF BoxInv

\* A step that leaves the stack and its callback alone, and
LEMMA StackStays ==
  ASSUME BoxInv, UNCHANGED memory, NEW n
  PROVE  /\ memory' \in [Ptrs -> StackSockets]
         /\ ~wasReset => \A p \in Ptrs : \/ memory'[p] = memory[p]
                                         \/ /\ memory[p].st = "idle" /\ memory[p].owner = n
                                            /\ memory'[p].owner = n
BY DEF BoxInv, BoxTypes

\* a step that leaves the tokens alone, as MoveStep needs them.
LEMMA SameTokens ==
  ASSUME BoxInv, NEW n \in SocketNames
  PROVE  /\ entries[n].tokens \in Nat
         /\ entries = [entries EXCEPT ![n].tokens = entries[n].tokens]
         /\ [entries EXCEPT ![n].tokens = @ - 1]
              = [entries EXCEPT ![n].tokens = entries[n].tokens - 1]
         /\ [entries EXCEPT ![n].tokens = @ + 1]
              = [entries EXCEPT ![n].tokens = entries[n].tokens + 1]
BY DEF BoxInv, BoxTypes

LEMMA OpenAgainStep ==
  ASSUME Known, BoxInv, NEW n \in SocketNames, Boxes!OpenAgain(n) PROVE BoxInv'
<1> DEFINE k == entries[n].tokens
<1>0. k \in Nat /\ entries' = [entries EXCEPT ![n].tokens = k]
  BY SameTokens DEF Boxes!OpenAgain
<1>1. \A i \in 1..Len(boxes) : boxes[i].name # n
  BY DEF BoxInv, BoxesUsed, Boxes!OpenAgain
<1>2. ~wasReset => k = 0
  BY DEF BoxInv, NoToken, Boxes!OpenAgain
<1>3. "open" \in Places \ {"none", "closing", "connecting", "connected", "listening", "accepting"}
  BY DEF Places
<1>4. /\ threads' = [threads EXCEPT ![n] = "open"]
      /\ UNCHANGED <<memory, boxes, descriptors, callback, wasReset>>
      /\ entries[n].open
  BY DEF Boxes!OpenAgain
<1> HIDE DEF k
<1> QED
  BY <1>0, <1>1, <1>2, <1>3, <1>4, StackStays, MoveStep

LEMMA CloseNothingStep ==
  ASSUME Known, BoxInv, NEW n \in SocketNames, Boxes!CloseNothing(n) PROVE BoxInv'
<1> DEFINE k == entries[n].tokens
<1>0. k \in Nat /\ entries' = [entries EXCEPT ![n].tokens = k]
  BY SameTokens DEF Boxes!CloseNothing
<1>1. \A i \in 1..Len(boxes) : boxes[i].name # n
  BY BoxFound DEF BoxInv, Boxes!CloseNothing
<1>2. "closing" \in Places \ {"none", "open", "connecting", "connected", "listening", "accepting"}
  BY DEF Places
<1>3. /\ threads' = [threads EXCEPT ![n] = "closing"]
      /\ UNCHANGED <<memory, boxes, descriptors, callback, wasReset>>
      /\ entries[n].open
  BY DEF Boxes!CloseNothing, BoxInv, Used
<1> HIDE DEF k
<1> QED
  BY <1>0, <1>1, <1>2, <1>3, StackStays, MoveStep

LEMMA AcceptRaisesStep ==
  ASSUME Known, BoxInv, NEW n \in SocketNames, Boxes!AcceptRaises(n) PROVE BoxInv'
<1> DEFINE k == entries[n].tokens
<1>0. k \in Nat /\ entries' = [entries EXCEPT ![n].tokens = k]
  BY SameTokens DEF Boxes!AcceptRaises
<1>1. /\ threads' = [threads EXCEPT ![n] = "listening"] /\ threads[n] = "accepting"
      /\ UNCHANGED <<memory, boxes, descriptors, callback, wasReset>>
      /\ entries[n].open
  BY DEF Boxes!AcceptRaises, BoxInv, Used
<1>2. "listening" \in Places \ {"none", "closing", "open"}
  BY DEF Places
<1>3. \E i \in 1..Len(boxes) : boxes[i].name = n
  BY <1>1 DEF BoxInv, UsedBoxed
<1>4. ~wasReset => \A i \in 1..Len(boxes) :
         boxes[i].name = n => Fits("listening", k, memory'[boxes[i].ptr].st)
  BY <1>1 DEF BoxInv, BoxesOwn, Fits
<1> HIDE DEF k
<1> QED
  BY <1>0, <1>1, <1>2, <1>3, <1>4, StackStays, MoveStep

LEMMA WaitedStep ==
  ASSUME Known, BoxInv, NEW n \in SocketNames, Boxes!Waited(n) PROVE BoxInv'
<1> DEFINE k == entries[n].tokens - 1
<1>1. /\ threads' = [threads EXCEPT ![n] = "accepting"] /\ threads[n] = "listening"
      /\ entries' = [entries EXCEPT ![n].tokens = k]
      /\ UNCHANGED <<memory, boxes, descriptors, callback, wasReset>>
      /\ entries[n].open /\ entries[n].tokens > 0
  BY SameTokens DEF Boxes!Waited, Boxes!Token, BoxInv, Used
<1>2. "accepting" \in Places \ {"none", "closing", "open"} /\ k \in Nat
  BY <1>1, SameTokens DEF Places
<1>3. \E i \in 1..Len(boxes) : boxes[i].name = n
  BY <1>1 DEF BoxInv, UsedBoxed
<1> HIDE DEF k
<1>4. ~wasReset => \A i \in 1..Len(boxes) :
         boxes[i].name = n => Fits("accepting", k, memory'[boxes[i].ptr].st)
  BY <1>1 DEF BoxInv, BoxesOwn, Fits
<1> QED
  BY <1>1, <1>2, <1>3, <1>4, StackStays, MoveStep

LEMMA ConnectedStep ==
  ASSUME Known, BoxInv, NEW n \in SocketNames, Boxes!Connected(n) PROVE BoxInv'
<1> DEFINE k == entries[n].tokens - 1
<1>1. /\ threads' = [threads EXCEPT ![n] = "connected"] /\ threads[n] = "connecting"
      /\ entries' = [entries EXCEPT ![n].tokens = k]
      /\ UNCHANGED <<memory, boxes, descriptors, callback, wasReset>>
      /\ entries[n].open /\ entries[n].tokens > 0
  BY SameTokens DEF Boxes!Connected, Boxes!Token, BoxInv, Used
<1>2. "connected" \in Places \ {"none", "closing", "open"} /\ k \in Nat
  BY <1>1, SameTokens DEF Places
<1>3. \E i \in 1..Len(boxes) : boxes[i].name = n
  BY <1>1 DEF BoxInv, UsedBoxed
<1> HIDE DEF k
<1>4. ~wasReset => \A i \in 1..Len(boxes) :
         boxes[i].name = n => Fits("connected", k, memory'[boxes[i].ptr].st)
  BY <1>1 DEF BoxInv, BoxesOwn, Fits
<1> QED
  BY <1>1, <1>2, <1>3, <1>4, StackStays, MoveStep

LEMMA StartStep ==
  ASSUME Known, BoxInv, NEW n \in SocketNames, NEW now, NEW at, Boxes!Start(n, now, at),
         <<now, at>> \in {<<"syn", "connecting">>, <<"listen", "listening">>}
  PROVE  BoxInv'
<1>1. PICK i \in 1..Len(boxes) : boxes[i].name = n /\ boxes[i].ptr = Boxes!BoxOf(n)
  BY BoxFound DEF Boxes!Start, BoxInv
<1>2. boxes[i].ptr \in Ptrs
  <2>1. boxes[i].name \in SocketNames /\ boxes[i].ptr \in Ptrs
    BY BoxesTyped DEF BoxInv
  <2> QED
    BY <2>1
<1> DEFINE p == boxes[i].ptr
<1>3. /\ threads' = [threads EXCEPT ![n] = at] /\ threads[n] = "open"
      /\ memory[p].st = "idle" /\ memory' = [memory EXCEPT ![p].st = now]
      /\ UNCHANGED <<boxes, entries, descriptors, callback, wasReset>>
      /\ entries[n].open
  BY <1>1 DEF Boxes!Start, BoxInv, Used
<1>4. at \in Places \ {"none", "closing", "open"} /\ now \in States
  BY DEF Places, States
<1>5. /\ memory'[p].st = now /\ memory'[p].owner = memory[p].owner
      /\ \A q \in Ptrs : q # p => memory'[q] = memory[q]
      /\ memory' \in [Ptrs -> StackSockets]
  BY <1>2, <1>3, <1>4 DEF BoxInv, BoxTypes
<1> HIDE DEF p
<1> DEFINE k == entries[n].tokens
<1>6. k \in Nat /\ entries' = [entries EXCEPT ![n].tokens = k]
  BY <1>3, SameTokens
<1>7. ~wasReset => memory[p].owner = n /\ k = 0
  BY <1>1, <1>3 DEF BoxInv, BoxesOwn, NoToken, p
<1>8. ~wasReset => \A q \in Ptrs : \/ memory'[q] = memory[q]
                                   \/ /\ memory[q].st = "idle" /\ memory[q].owner = n
                                      /\ memory'[q].owner = n
  BY <1>3, <1>5, <1>7
<1>9. \A j \in 1..Len(boxes) : boxes[j].name = n => j = i
  BY <1>1 DEF BoxInv, BoxesNamed
<1>10. Fits(at, 0, now)
  BY DEF Fits
<1> HIDE DEF k
<1>11. ~wasReset => /\ at \in {"none", "open"} => k = 0
                    /\ \A j \in 1..Len(boxes) : boxes[j].name = n
                         => Fits(at, k, memory'[boxes[j].ptr].st)
  BY <1>5, <1>7, <1>9, <1>10 DEF p
<1> QED
  BY <1>1, <1>3, <1>4, <1>5, <1>6, <1>8, <1>11, MoveStep

\* accept() gives a child of the listener the name, a box and an entry.
LEMMA BoxAcceptStep ==
  ASSUME Known, BoxInv, NEW n \in SocketNames, NEW l \in SocketNames, Boxes!Accept(l, n) PROVE BoxInv'
<1>1. PICK p \in Ptrs : /\ memory[p].st = "est" /\ memory[p].owner = Boxes!Nobody
        /\ memory' = [memory EXCEPT ![p].owner = n]
        /\ Boxes!BoxAdd(n, p)
  BY DEF Boxes!Accept
<1>2. /\ boxes' \in Seq([name : SocketNames, ptr : Ptrs])
      /\ Len(boxes') = Len(boxes) + 1
      /\ \A i \in 1..Len(boxes) : boxes'[i] = boxes[i]
      /\ boxes'[Len(boxes) + 1] = [name |-> n, ptr |-> p]
  BY <1>1, BoxAdded DEF BoxInv
<1>3. /\ entries' \in [SocketNames -> Entries]
      /\ descriptors' \in [1..NbPipes -> SocketNames \cup {Boxes!Nobody}]
      /\ entries'[n].open /\ entries'[n].tokens = 0
      /\ \A m \in SocketNames : m # n => entries'[m] = entries[m]
      /\ Boxes!PipePerEntry'
  BY EntryAdded DEF BoxInv, Boxes!Accept
<1>4. /\ threads'[n] = "connected" /\ threads[n] = "none"
      /\ threads'[l] = "listening" /\ threads[l] = "accepting" /\ l # n
      /\ \A m \in SocketNames \ {l, n} : threads'[m] = threads[m]
  BY DEF Boxes!Accept, BoxInv, BoxTypes
<1>5. /\ memory'[p].st = "est" /\ memory'[p].owner = n
      /\ \A q \in Ptrs : q # p => memory'[q] = memory[q]
  BY <1>1 DEF BoxInv, BoxTypes, Boxes!Unused
<1>6. \A i \in 1..Len(boxes) : /\ boxes[i].name \in SocketNames \ {n}
                               /\ boxes[i].ptr \in Ptrs
  BY <1>4, BoxesTyped DEF BoxInv, BoxesUsed
<1>7. Len(boxes) \in Nat
  BY DEF BoxInv, BoxTypes
<1>8. UNCHANGED <<callback, wasReset>>
  BY DEF Boxes!Accept
<1>9. BoxTypes'
  <2>0. memory[p] \in StackSockets
    BY DEF BoxInv, BoxTypes
  <2>3. [memory[p] EXCEPT !.owner = n]
          \in StackSockets
    BY <2>0
  <2>4. memory' = [memory EXCEPT ![p] = [memory[p] EXCEPT !.owner = n]]
    BY <1>1 DEF BoxInv, BoxTypes
  <2>1. memory' \in [Ptrs -> StackSockets]
    BY <2>3, <2>4 DEF BoxInv, BoxTypes
  <2>2. threads' \in [SocketNames -> Places]
    BY DEF Boxes!Accept, BoxInv, BoxTypes, Places
  <2> QED
    BY <1>2, <1>3, <1>8, <2>1, <2>2 DEF BoxInv, BoxTypes
<1>10. Used'
  BY <1>3, <1>4 DEF BoxInv, Used
<1>11. BoxesNamed'
  <2> SUFFICES ASSUME NEW i \in 1..Len(boxes'), NEW j \in 1..Len(boxes'), boxes'[i].name = boxes'[j].name
               PROVE  i = j
    BY DEF BoxesNamed
  <2>1. CASE i \in 1..Len(boxes) /\ j \in 1..Len(boxes)
    BY <1>2, <2>1 DEF BoxInv, BoxesNamed
  <2>2. CASE i \notin 1..Len(boxes) \/ j \notin 1..Len(boxes)
    <3>1. boxes'[Len(boxes) + 1].name = n
      BY <1>2
    <3>2. \A a \in 1..Len(boxes) : boxes'[a].name # n
      BY <1>2, <1>6
    <3>3. i = Len(boxes) + 1 \/ j = Len(boxes) + 1
      BY <1>2, <1>7, <2>2
    <3> QED
      BY <1>2, <1>7, <3>1, <3>2, <3>3
  <2> QED
    BY <2>1, <2>2
<1>12. BoxesUsed'
  BY <1>2, <1>4, <1>6, <1>7 DEF BoxInv, BoxesUsed
<1>13. UsedBoxed'
  <2> SUFFICES ASSUME NEW m \in SocketNames, threads'[m] \in {"connecting", "connected", "listening", "accepting"}
               PROVE  \E i \in 1..Len(boxes') : boxes'[i].name = m
    BY DEF UsedBoxed
  <2>1. CASE m = n
    BY <1>2, <1>7, <2>1
  <2>2. CASE m # n
    <3>1. threads[m] \in {"connecting", "connected", "listening", "accepting"}
      BY <1>4, <2>2
    <3>2. PICK i \in 1..Len(boxes) : boxes[i].name = m
      BY <3>1 DEF BoxInv, UsedBoxed
    <3> QED
      BY <1>2, <1>7, <3>2
  <2> QED
    BY <2>1, <2>2
<1>14. NoToken'
  BY <1>3, <1>4, <1>8 DEF BoxInv, NoToken
<1>15. BoxesOwn'
  <2> SUFFICES ASSUME ~wasReset, NEW i \in 1..Len(boxes')
               PROVE  /\ memory'[boxes'[i].ptr].owner = boxes'[i].name
                      /\ Fits(threads'[boxes'[i].name], entries'[boxes'[i].name].tokens, memory'[boxes'[i].ptr].st)
    BY <1>8 DEF BoxesOwn
  <2>1. CASE i = Len(boxes) + 1
    BY <1>2, <1>4, <1>5, <2>1 DEF Fits
  <2>2. CASE i \in 1..Len(boxes)
    <3>1. boxes[i].ptr # p
      BY <1>1, <1>6, <2>2, BoxedInUse DEF Known
    <3>2. /\ boxes'[i] = boxes[i] /\ memory'[boxes[i].ptr] = memory[boxes[i].ptr]
          /\ \/ threads'[boxes[i].name] = threads[boxes[i].name]
             \/ /\ threads'[boxes[i].name] = "listening"
                /\ threads[boxes[i].name] = "accepting"
          /\ entries'[boxes[i].name] = entries[boxes[i].name]
      BY <1>2, <1>3, <1>4, <1>5, <1>6, <2>2, <3>1
    <3>3. /\ memory[boxes[i].ptr].owner = boxes[i].name
          /\ Fits(threads[boxes[i].name], entries[boxes[i].name].tokens, memory[boxes[i].ptr].st)
      BY <2>2 DEF BoxInv, BoxesOwn
    <3> QED
      BY <3>2, <3>3 DEF Fits
  <2> QED
    BY <1>2, <1>7, <2>1, <2>2
<1>16. CallbackOwns'
  BY <1>1, <1>5, <1>8 DEF Known, BoxInv, CallbackOwns, Boxes!Idle
<1> QED
  BY <1>3, <1>9, <1>10, <1>11, <1>12, <1>13, <1>14, <1>15, <1>16 DEF BoxInv

LEMMA OpenFailsStep ==
  ASSUME Known, BoxInv, NEW n \in SocketNames, Boxes!OpenFails(n) PROVE BoxInv'
<1>1. /\ entries' \in [SocketNames -> Entries]
      /\ descriptors' \in [1..NbPipes -> SocketNames \cup {Boxes!Nobody}]
      /\ entries'[n].open /\ entries'[n].tokens = 0
      /\ \A m \in SocketNames : m # n => entries'[m] = entries[m]
      /\ Boxes!PipePerEntry'
  BY EntryAdded DEF BoxInv, Boxes!OpenFails
<1>2. UNCHANGED <<memory, boxes, threads, callback, wasReset>> /\ threads[n] = "none"
  BY DEF Boxes!OpenFails
<1>3. \A i \in 1..Len(boxes) : boxes[i].name \in SocketNames \ {n}
  BY <1>2, BoxesTyped DEF BoxInv, BoxesUsed
<1>4. BoxTypes' /\ Used' /\ NoToken'
  BY <1>1, <1>2 DEF BoxInv, BoxTypes, Used, NoToken
<1>5. BoxesNamed' /\ BoxesUsed' /\ UsedBoxed'
  BY <1>2 DEF BoxInv, BoxesNamed, BoxesUsed, UsedBoxed
<1>6. BoxesOwn'
  BY <1>1, <1>2, <1>3 DEF BoxInv, BoxesOwn
<1>7. CallbackOwns'
  BY <1>2 DEF BoxInv, CallbackOwns, Boxes!Idle
<1> QED
  BY <1>1, <1>4, <1>5, <1>6, <1>7 DEF BoxInv

\* close() gives back the socket of the stack and takes the box away,
LEMMA CloseBoxStep ==
  ASSUME Known, BoxInv, NEW n \in SocketNames, Boxes!CloseBox(n) PROVE BoxInv'
<1>1. PICK k \in 1..Len(boxes) : boxes[k].name = n /\ boxes[k].ptr = Boxes!BoxOf(n)
  BY BoxFound DEF Boxes!CloseBox, BoxInv
<1>2. /\ boxes' \in Seq([name : SocketNames, ptr : Ptrs])
      /\ Len(boxes') = Len(boxes) - 1
      /\ \A j \in 1..Len(boxes') : boxes'[j] = boxes[IF j < k THEN j ELSE j + 1]
  <2>1. Boxes!BoxDelete(boxes[k].name)
    BY <1>1 DEF Boxes!CloseBox
  <2> QED
    BY <2>1, BoxDeleted DEF BoxInv
<1>3. Len(boxes) \in Nat
  BY DEF BoxInv, BoxTypes
<1>4. \A j \in 1..Len(boxes') : \E i \in 1..Len(boxes) : i # k /\ boxes'[j] = boxes[i]
  <2> TAKE j \in 1..Len(boxes')
  <2>1. (IF j < k THEN j ELSE j + 1) \in 1..Len(boxes) \ {k}
    BY <1>2, <1>3
  <2> QED
    BY <1>2, <2>1
<1>5. \A i \in 1..Len(boxes) : i # k => \E j \in 1..Len(boxes') : boxes'[j] = boxes[i]
  <2> SUFFICES ASSUME NEW i \in 1..Len(boxes), i # k
               PROVE  \E j \in 1..Len(boxes') : boxes'[j] = boxes[i]
    OBVIOUS
  <2>1. CASE i < k
    <3>1. i \in 1..Len(boxes')
      BY <1>2, <1>3, <2>1
    <3> QED
      BY <1>2, <2>1, <3>1
  <2>2. CASE ~(i < k)
    <3>1. i - 1 \in 1..Len(boxes') /\ ~(i - 1 < k) /\ (i - 1) + 1 = i
      BY <1>2, <1>3, <2>2
    <3> QED
      BY <1>2, <3>1
  <2> QED
    BY <2>1, <2>2
<1>6. \A i \in 1..Len(boxes) : /\ boxes[i].name \in SocketNames /\ boxes[i].ptr \in Ptrs
                               /\ boxes[i].name = n => i = k
  BY <1>1, BoxesTyped DEF BoxInv, BoxesNamed
<1>7. PICK p \in Ptrs : p = boxes[k].ptr
  BY <1>6
<1>8. /\ memory' = [memory EXCEPT ![p] = Boxes!Closed(@)]
      /\ threads' = [threads EXCEPT ![n] = "closing"]
      /\ threads[n] \in {"open", "connected", "listening"}
      /\ UNCHANGED <<entries, descriptors, callback, wasReset>>
  BY <1>1, <1>7 DEF Boxes!CloseBox
<1>9. /\ threads'[n] = "closing"
      /\ \A m \in SocketNames : m # n => threads'[m] = threads[m]
      /\ \A q \in Ptrs : q # p => memory'[q] = memory[q]
      /\ memory[p].st \notin {"idle", "free"} => /\ memory'[p].owner = memory[p].owner
                                              /\ memory'[p].st = "dead"
      /\ memory' \in [Ptrs -> StackSockets]
  <2>1. memory[p] \in StackSockets
    BY DEF BoxInv, BoxTypes
  <2>2. Boxes!Closed(memory[p]) \in StackSockets
    BY <2>1 DEF Boxes!Closed, Boxes!Unused, States
  <2>3. memory' = [memory EXCEPT ![p] = Boxes!Closed(memory[p])]
    BY <1>8
  <2>4. memory'[p] = Boxes!Closed(memory[p])
    BY <2>3 DEF BoxInv, BoxTypes
  <2>5. memory[p].st \notin {"idle", "free"} => /\ Boxes!Closed(memory[p]).owner = memory[p].owner
                                              /\ Boxes!Closed(memory[p]).st = "dead"
    BY <2>1 DEF Boxes!Closed
  <2>6. memory' \in [Ptrs -> StackSockets]
    BY <2>2, <2>3 DEF BoxInv, BoxTypes
  <2>7. \A q \in Ptrs : q # p => memory'[q] = memory[q]
    BY <2>3 DEF BoxInv, BoxTypes
  <2> QED
    BY <1>8, <2>4, <2>5, <2>6, <2>7 DEF BoxInv, BoxTypes
<1>10. BoxTypes'
  <2>1. threads' \in [SocketNames -> Places]
    BY <1>8 DEF BoxInv, BoxTypes, Places
  <2> QED
    BY <1>2, <1>8, <1>9, <2>1 DEF BoxInv, BoxTypes
<1>11. Boxes!PipePerEntry' /\ NoToken' /\ Used'
  BY <1>8, <1>9 DEF BoxInv, Boxes!PipePerEntry, NoToken, Used
<1>12. BoxesNamed'
  <2> SUFFICES ASSUME NEW i \in 1..Len(boxes'), NEW j \in 1..Len(boxes'), boxes'[i].name = boxes'[j].name
               PROVE  i = j
    BY DEF BoxesNamed
  <2> DEFINE at(x) == IF x < k THEN x ELSE x + 1
  <2>1. at(i) \in 1..Len(boxes) /\ at(j) \in 1..Len(boxes)
    BY <1>2, <1>3
  <2>2. boxes[at(i)].name = boxes[at(j)].name
    BY <1>2
  <2>3. at(i) = at(j)
    BY <2>1, <2>2 DEF BoxInv, BoxesNamed
  <2> QED
    BY <1>2, <1>3, <2>3
<1>13. BoxesUsed'
  BY <1>4, <1>6, <1>9 DEF BoxInv, BoxesUsed
<1>14. UsedBoxed'
  <2> SUFFICES ASSUME NEW m \in SocketNames, threads'[m] \in {"connecting", "connected", "listening", "accepting"}
               PROVE  \E j \in 1..Len(boxes') : boxes'[j].name = m
    BY DEF UsedBoxed
  <2>1. m # n /\ threads[m] = threads'[m]
    BY <1>9
  <2>2. PICK i \in 1..Len(boxes) : boxes[i].name = m
    BY <2>1 DEF BoxInv, UsedBoxed
  <2> QED
    BY <1>1, <1>5, <2>1, <2>2
<1>15. BoxesOwn'
  <2> SUFFICES ASSUME ~wasReset, NEW j \in 1..Len(boxes')
               PROVE  /\ memory'[boxes'[j].ptr].owner = boxes'[j].name
                      /\ Fits(threads'[boxes'[j].name], entries'[boxes'[j].name].tokens,
                              memory'[boxes'[j].ptr].st)
    BY <1>8 DEF BoxesOwn
  <2>1. PICK i \in 1..Len(boxes) : i # k /\ boxes'[j] = boxes[i]
    BY <1>4
  <2>2. /\ memory[boxes[i].ptr].owner = boxes[i].name
        /\ memory[p].owner = boxes[k].name
        /\ Fits(threads[boxes[i].name], entries[boxes[i].name].tokens, memory[boxes[i].ptr].st)
    BY <1>7 DEF BoxInv, BoxesOwn
  <2>3. boxes[i].name # n /\ boxes[i].ptr # p
    BY <1>1, <1>6, <2>1, <2>2
  <2> QED
    BY <1>6, <1>8, <1>9, <2>1, <2>2, <2>3
<1>16. CallbackOwns'
  <2>1. UNCHANGED <<callback, wasReset>>
    BY <1>8
  <2> QED
    BY <1>9, <2>1 DEF BoxInv, CallbackOwns, Boxes!Idle
<1> QED
  BY <1>10, <1>11, <1>12, <1>13, <1>14, <1>15, <1>16 DEF BoxInv

\* and then the entry with its pipe.
LEMMA CloseEntryStep ==
  ASSUME Known, BoxInv, NEW n \in SocketNames, Boxes!CloseEntry(n) PROVE BoxInv'
<1>1. PICK fd \in 0..NbPipes : fd = entries[n].fd /\ entries[n].open
  BY DEF Boxes!CloseEntry, BoxInv, Used, BoxTypes
<1>2. /\ descriptors' = [descriptors EXCEPT ![fd] = Boxes!Nobody]
      /\ entries' = [entries EXCEPT ![n] = Boxes!NoEntry]
      /\ threads' = [threads EXCEPT ![n] = "none"] /\ threads[n] = "closing"
      /\ UNCHANGED <<memory, boxes, callback, wasReset>>
  BY <1>1 DEF Boxes!CloseEntry
<1>3. /\ \A i \in 1..NbPipes : descriptors'[i] = IF i = fd THEN Boxes!Nobody ELSE descriptors[i]
      /\ entries'[n] = Boxes!NoEntry /\ ~entries'[n].open /\ entries'[n].tokens = 0
      /\ \A m \in SocketNames : m # n => entries'[m] = entries[m]
      /\ threads'[n] = "none" /\ \A m \in SocketNames : m # n => threads'[m] = threads[m]
  BY <1>2 DEF BoxInv, BoxTypes, Boxes!NoEntry
<1>4. \A i \in 1..Len(boxes) : boxes[i].name \in SocketNames \ {n}
  BY <1>2, BoxesTyped DEF BoxInv, BoxesUsed
<1>5. BoxTypes'
  <2>1. NbPipes \in Nat
    BY FS_CardinalityType DEF Known, NbPipes
  <2>2. entries' \in [SocketNames -> Entries]
    BY <1>2, <2>1 DEF BoxInv, BoxTypes, Boxes!NoEntry
  <2>3. descriptors' \in [1..NbPipes -> SocketNames \cup {Boxes!Nobody}] /\ threads' \in [SocketNames -> Places]
    BY <1>2 DEF BoxInv, BoxTypes, Places
  <2> QED
    BY <1>2, <2>2, <2>3 DEF BoxInv, BoxTypes
<1>6. Boxes!PipePerEntry'
  <2> SUFFICES ASSUME NEW i \in 1..NbPipes, NEW m \in SocketNames
               PROVE  descriptors'[i] = m <=> entries'[m].open /\ entries'[m].fd = i
    BY <1>5 DEF Boxes!PipePerEntry, BoxTypes
  <2>1. descriptors[i] = m <=> entries[m].open /\ entries[m].fd = i
    BY DEF BoxInv, Boxes!PipePerEntry, BoxTypes
  <2>2. descriptors[i] = n <=> entries[n].open /\ entries[n].fd = i
    BY DEF BoxInv, Boxes!PipePerEntry, BoxTypes
  <2>3. m # Boxes!Nobody
    BY DEF Known
  <2> QED
    BY <1>1, <1>3, <2>1, <2>2, <2>3
<1>7. Used' /\ NoToken'
  BY <1>2, <1>3 DEF BoxInv, Used, NoToken
<1>8. BoxesNamed'
  BY <1>2 DEF BoxInv, BoxesNamed
<1>9. BoxesUsed'
  BY <1>2, <1>3, <1>4 DEF BoxInv, BoxesUsed
<1>10. UsedBoxed'
  BY <1>2, <1>3 DEF BoxInv, UsedBoxed
<1>11. BoxesOwn'
  BY <1>2, <1>3, <1>4 DEF BoxInv, BoxesOwn
<1>12. CallbackOwns'
  BY <1>2 DEF BoxInv, CallbackOwns, Boxes!Idle
<1> QED
  BY <1>5, <1>6, <1>7, <1>8, <1>9, <1>10, <1>11, <1>12 DEF BoxInv

\* The callback adds its token to the pipe of the name.
LEMMA WriteKeepsBoxes ==
  ASSUME Known, BoxInv, Boxes!Write PROVE BoxInv'
<1>1. callback' = Boxes!NoCallback /\ UNCHANGED <<memory, boxes, entries, descriptors, threads, wasReset>>
  BY DEF Boxes!Write, Boxes!python
<1>2. BoxTypes'
  <2>1. NbPipes \in Nat
    BY FS_CardinalityType DEF Known, NbPipes
  <2>2. callback' \in Callbacks
    BY <1>1, <2>1 DEF Boxes!NoCallback
  <2> QED
    BY <1>1, <2>2 DEF BoxInv, BoxTypes
<1>3. Boxes!PipePerEntry' /\ Used' /\ NoToken'
  BY <1>1 DEF BoxInv, Boxes!PipePerEntry, Used, NoToken
<1>4. BoxesNamed' /\ BoxesUsed' /\ UsedBoxed' /\ BoxesOwn'
  BY <1>1 DEF BoxInv, BoxesNamed, BoxesUsed, UsedBoxed, BoxesOwn
<1>5. CallbackOwns'
  BY <1>1 DEF CallbackOwns, Boxes!Idle
<1> QED
  BY <1>2, <1>3, <1>4, <1>5 DEF BoxInv

\* After a reset the stack owes no one anything.
LEMMA ResetStep ==
  ASSUME Known, BoxInv, NEW p \in Ptrs, Boxes!Reset(p) PROVE BoxInv'
<1>1. /\ memory' = [memory EXCEPT ![p].st = "dead"] /\ wasReset' = TRUE
      /\ UNCHANGED <<boxes, entries, descriptors, threads, callback>>
  BY DEF Boxes!Reset, Boxes!python
<1>2. BoxTypes'
  <2>1. memory' \in [Ptrs -> StackSockets]
    <3>1. memory[p] \in StackSockets
      BY DEF BoxInv, BoxTypes
    <3>2. [memory[p] EXCEPT !.st = "dead"]
            \in StackSockets
      BY <3>1 DEF States
    <3>3. memory' = [memory EXCEPT ![p] = [memory[p] EXCEPT !.st = "dead"]]
      BY <1>1 DEF BoxInv, BoxTypes
    <3> QED
      BY <3>2, <3>3 DEF BoxInv, BoxTypes
  <2> QED
    BY <1>1, <2>1 DEF BoxInv, BoxTypes
<1>3. Boxes!PipePerEntry' /\ Used'
  BY <1>1 DEF BoxInv, Boxes!PipePerEntry, Used
<1>4. BoxesNamed' /\ BoxesUsed' /\ UsedBoxed'
  BY <1>1 DEF BoxInv, BoxesNamed, BoxesUsed, UsedBoxed
<1>5. NoToken' /\ BoxesOwn' /\ CallbackOwns'
  BY <1>1 DEF NoToken, BoxesOwn, CallbackOwns
<1> QED
  BY <1>2, <1>3, <1>4, <1>5 DEF BoxInv

\* The stack frees a dead socket that no one has.
LEMMA FreeStep ==
  ASSUME Known, BoxInv, NEW p \in Ptrs, Boxes!Free(p) PROVE BoxInv'
<1>1. /\ memory' = [memory EXCEPT ![p] = Boxes!Unused] /\ memory[p].st = "dead" /\ Boxes!Idle
      /\ UNCHANGED <<boxes, entries, descriptors, threads, callback, wasReset>>
  BY DEF Boxes!Free, Boxes!python
<1>2. BoxTypes'
  <2>1. memory' \in [Ptrs -> StackSockets]
    BY <1>1 DEF BoxInv, BoxTypes, Boxes!Unused, States
  <2> QED
    BY <1>1, <2>1 DEF BoxInv, BoxTypes
<1>3. Boxes!PipePerEntry' /\ Used' /\ NoToken'
  BY <1>1 DEF BoxInv, Boxes!PipePerEntry, Used, NoToken
<1>4. BoxesNamed' /\ BoxesUsed' /\ UsedBoxed'
  BY <1>1 DEF BoxInv, BoxesNamed, BoxesUsed, UsedBoxed
<1>5. BoxesOwn'
  <2> SUFFICES ASSUME ~wasReset, NEW i \in 1..Len(boxes)
               PROVE  /\ memory'[boxes[i].ptr].owner = boxes[i].name
                      /\ Fits(threads[boxes[i].name], entries[boxes[i].name].tokens,
                              memory'[boxes[i].ptr].st)
    BY <1>1 DEF BoxesOwn
  <2>1. boxes[i].ptr \in Ptrs /\ boxes[i].ptr # p
    BY <1>1, BoxedInUse
  <2>2. memory'[boxes[i].ptr] = memory[boxes[i].ptr]
    BY <1>1, <2>1 DEF BoxInv, BoxTypes
  <2> QED
    BY <2>2 DEF BoxInv, BoxesOwn
<1>6. CallbackOwns'
  BY <1>1 DEF CallbackOwns, Boxes!Idle
<1> QED
  BY <1>2, <1>3, <1>4, <1>5, <1>6 DEF BoxInv

\* A token is added or taken.
LEMMA TokensOnly ==
  ASSUME BoxInv, NEW n \in SocketNames, NEW k \in Nat, entries' = [entries EXCEPT ![n].tokens = k]
  PROVE  /\ entries'[n].tokens = k
         /\ \A m \in SocketNames : /\ entries'[m].open = entries[m].open
                             /\ entries'[m].fd = entries[m].fd
         /\ \A m \in SocketNames \ {n} : entries'[m] = entries[m]
BY DEF BoxInv, BoxTypes

\* The stack wakes up the socket p; a connection adds a token.
LEMMA WakeupStep ==
  ASSUME Known, BoxInv, Boxes!Idle, NEW p \in Ptrs, NEW established \in BOOLEAN, Boxes!Wakeup(p, established),
         UNCHANGED <<boxes, descriptors, threads, wasReset>>,
         memory' \in [Ptrs -> StackSockets],
         ~wasReset => \A i \in 1..Len(boxes) :
           /\ memory'[boxes[i].ptr].owner = boxes[i].name
           /\ Fits(threads[boxes[i].name], entries[boxes[i].name].tokens, memory'[boxes[i].ptr].st)
           /\ boxes[i].ptr = p => /\ memory'[p].st \notin {"free", "idle"}
                                  /\ established => memory'[p].st # "syn"
  PROVE  BoxInv'
<1> DEFINE n == Boxes!NameOf(p)
<1>1. CASE n = Boxes!Nobody \/ ~entries[n].open
  <2>1. UNCHANGED <<entries, callback>>
    BY <1>1 DEF Boxes!Wakeup
  <2>2. BoxTypes'
    BY <2>1 DEF BoxInv, BoxTypes
  <2>3. Boxes!PipePerEntry' /\ Used' /\ NoToken'
    BY <2>1 DEF BoxInv, Boxes!PipePerEntry, Used, NoToken
  <2>4. BoxesNamed' /\ BoxesUsed' /\ UsedBoxed'
    BY DEF BoxInv, BoxesNamed, BoxesUsed, UsedBoxed
  <2>5. BoxesOwn'
    BY <2>1 DEF BoxesOwn
  <2>6. CallbackOwns'
    BY <2>1 DEF CallbackOwns, Boxes!Idle
  <2> QED
    BY <2>2, <2>3, <2>4, <2>5, <2>6 DEF BoxInv
<1>2. CASE ~(n = Boxes!Nobody \/ ~entries[n].open)
  <2>1. PICK b \in 1..Len(boxes) : boxes[b].ptr = p /\ n = boxes[b].name
    BY <1>2, NameFound DEF BoxInv
  <2>2. \A i \in 1..Len(boxes) : boxes[i].name \in SocketNames /\ boxes[i].ptr \in Ptrs
    BY BoxesTyped DEF BoxInv
  <2>3. n \in SocketNames
    BY <2>1, <2>2
  <2>4. callback' = [name |-> n, ptr |-> p, fd |-> entries[n].fd]
    BY <1>2 DEF Boxes!Wakeup
  <2>5. PICK k \in Nat : /\ entries' = [entries EXCEPT ![n].tokens = k]
                         /\ k = entries[n].tokens \/ (established /\ k = entries[n].tokens + 1)
    <3>1. entries[n].tokens \in Nat
          /\ entries = [entries EXCEPT ![n].tokens = entries[n].tokens]
          /\ [entries EXCEPT ![n].tokens = @ + 1]
               = [entries EXCEPT ![n].tokens = entries[n].tokens + 1]
      BY <2>3, SameTokens
    <3>2. CASE established
      <4>1. entries' = [entries EXCEPT ![n].tokens = entries[n].tokens + 1]
        BY <1>2, <3>1, <3>2 DEF Boxes!Wakeup
      <4>2. entries[n].tokens + 1 \in Nat
        BY <3>1
      <4> QED
        BY <3>2, <4>1, <4>2
    <3>3. CASE ~established
      <4>1. entries' = [entries EXCEPT ![n].tokens = entries[n].tokens]
        BY <1>2, <3>1, <3>3 DEF Boxes!Wakeup
      <4> QED
        BY <3>1, <4>1
    <3> QED
      BY <3>2, <3>3
  <2> HIDE DEF n
  <2>6. /\ entries'[n].tokens = k
        /\ \A m \in SocketNames : /\ entries'[m].open = entries[m].open
                            /\ entries'[m].fd = entries[m].fd
        /\ \A m \in SocketNames \ {n} : entries'[m] = entries[m]
    BY <2>3, <2>5, TokensOnly
  <2>7. BoxTypes'
    <3>1. entries[n] \in Entries
      BY <2>3 DEF BoxInv, BoxTypes
    <3>2. [entries[n] EXCEPT !.tokens = k] \in Entries
      BY <3>1
    <3>3. entries' = [entries EXCEPT ![n] = [entries[n] EXCEPT !.tokens = k]]
      BY <2>3, <2>5 DEF BoxInv, BoxTypes
    <3>4. entries' \in [SocketNames -> Entries]
      BY <3>2, <3>3 DEF BoxInv, BoxTypes
    <3>5. callback' \in Callbacks
      BY <2>3, <2>4, <3>1
    <3> QED
      BY <3>4, <3>5 DEF BoxInv, BoxTypes
  <2>8. Boxes!PipePerEntry' /\ Used'
    BY <2>6 DEF BoxInv, Boxes!PipePerEntry, Used
  <2>9. BoxesNamed' /\ BoxesUsed' /\ UsedBoxed'
    BY DEF BoxInv, BoxesNamed, BoxesUsed, UsedBoxed
  <2>10. ~wasReset /\ established => threads[n] \notin {"none", "open"} /\ memory'[p].st \notin {"syn", "free", "idle"}
    BY <2>1 DEF BoxInv, BoxesUsed, Fits
  <2>11. NoToken'
    <3> SUFFICES ASSUME ~wasReset, NEW m \in SocketNames, threads[m] \in {"none", "open"}
                 PROVE  entries'[m].tokens = 0
      BY DEF NoToken
    <3>1. entries[m].tokens = 0
      BY DEF BoxInv, NoToken
    <3> QED
      BY <2>5, <2>6, <2>10, <3>1
  <2>12. BoxesOwn'
    <3> SUFFICES ASSUME ~wasReset, NEW i \in 1..Len(boxes)
                 PROVE  /\ memory'[boxes[i].ptr].owner = boxes[i].name
                        /\ Fits(threads[boxes[i].name], entries'[boxes[i].name].tokens,
                                memory'[boxes[i].ptr].st)
      BY DEF BoxesOwn
    <3>1. CASE boxes[i].name # n
      BY <2>2, <2>6, <3>1
    <3>2. CASE boxes[i].name = n
      <4>1. i = b
        BY <2>1, <3>2 DEF BoxInv, BoxesNamed
      <4>2. Fits(threads[n], entries[n].tokens, memory'[p].st) /\ memory'[p].owner = n
        BY <2>1
      <4>3. Fits(threads[n], k, memory'[p].st)
        <5>1. CASE k = entries[n].tokens
          BY <4>2, <5>1
        <5>2. CASE established
          BY <2>10, <4>2, <5>2 DEF Fits
        <5> QED
          BY <2>5, <5>1, <5>2
      <4> QED
        BY <2>1, <2>6, <4>1, <4>2, <4>3
    <3> QED
      BY <3>1, <3>2
  <2>13. CallbackOwns'
    BY <2>1, <2>3, <2>4 DEF CallbackOwns
  <2> QED
    BY <2>7, <2>8, <2>9, <2>11, <2>12, <2>13 DEF BoxInv
<1> QED
  BY <1>1, <1>2

LEMMA HandshakeStep ==
  ASSUME Known, BoxInv, NEW p \in Ptrs, Boxes!Handshake(p) PROVE BoxInv'
<1>1. /\ Boxes!Idle /\ memory[p].st = "syn" /\ memory' = [memory EXCEPT ![p].st = "est"]
      /\ Boxes!Wakeup(p, TRUE) /\ UNCHANGED <<boxes, descriptors, threads, wasReset>>
  BY DEF Boxes!Handshake
<1>2. memory[p] \in StackSockets
  BY DEF BoxInv, BoxTypes
<1>3. [memory[p] EXCEPT !.st = "est"]
        \in StackSockets
  BY <1>2 DEF States
<1>4. memory' = [memory EXCEPT ![p] = [memory[p] EXCEPT !.st = "est"]]
  BY <1>1 DEF BoxInv, BoxTypes
<1>5. memory' \in [Ptrs -> StackSockets]
  BY <1>3, <1>4 DEF BoxInv, BoxTypes
<1>6. /\ memory'[p].st = "est" /\ memory'[p].owner = memory[p].owner
      /\ \A q \in Ptrs : q # p => memory'[q] = memory[q]
  BY <1>2, <1>4 DEF BoxInv, BoxTypes
<1>7. ~wasReset => \A i \in 1..Len(boxes) :
         /\ memory'[boxes[i].ptr].owner = boxes[i].name
         /\ Fits(threads[boxes[i].name], entries[boxes[i].name].tokens, memory'[boxes[i].ptr].st)
         /\ boxes[i].ptr = p => memory'[p].st \notin {"free", "idle"} /\ memory'[p].st # "syn"
  <2> SUFFICES ASSUME ~wasReset, NEW i \in 1..Len(boxes)
               PROVE  /\ memory'[boxes[i].ptr].owner = boxes[i].name
                      /\ Fits(threads[boxes[i].name], entries[boxes[i].name].tokens,
                              memory'[boxes[i].ptr].st)
    BY <1>6
  <2>1. /\ memory[boxes[i].ptr].owner = boxes[i].name
        /\ Fits(threads[boxes[i].name], entries[boxes[i].name].tokens, memory[boxes[i].ptr].st)
    BY DEF BoxInv, BoxesOwn
  <2>2. CASE boxes[i].ptr = p
    <3>1. Fits(threads[boxes[i].name], entries[boxes[i].name].tokens, "est")
      BY <1>1, <2>1, <2>2 DEF Fits
    <3> QED
      BY <1>6, <2>1, <2>2, <3>1
  <2>3. CASE boxes[i].ptr # p
    <3>1. boxes[i].ptr \in Ptrs
      BY BoxedInUse
    <3> QED
      BY <1>6, <2>1, <2>3, <3>1
  <2> QED
    BY <2>2, <2>3
<1> QED
  BY <1>1, <1>5, <1>7, WakeupStep

LEMMA DataStep ==
  ASSUME Known, BoxInv, NEW p \in Ptrs, Boxes!Data(p) PROVE BoxInv'
<1>1. /\ Boxes!Idle /\ memory[p].st = "est"
      /\ Boxes!Wakeup(p, FALSE) /\ UNCHANGED <<memory, boxes, descriptors, threads, wasReset>>
  BY DEF Boxes!Data
<1>2. memory' \in [Ptrs -> StackSockets]
  BY <1>1 DEF BoxInv, BoxTypes
<1>3. ~wasReset => \A i \in 1..Len(boxes) :
         /\ memory'[boxes[i].ptr].owner = boxes[i].name
         /\ Fits(threads[boxes[i].name], entries[boxes[i].name].tokens, memory'[boxes[i].ptr].st)
         /\ boxes[i].ptr = p => memory'[p].st \notin {"free", "idle"} /\ memory'[p].st # "syn"
  BY <1>1 DEF BoxInv, BoxesOwn
<1> QED
  BY <1>1, <1>2, <1>3, WakeupStep

LEMMA IncomingStep ==
  ASSUME Known, BoxInv, NEW l \in Ptrs, NEW p \in Ptrs, Boxes!Incoming(l, p) PROVE BoxInv'
<1>1. /\ Boxes!Idle /\ memory[l].st = "listen" /\ memory[p].st = "free"
      /\ memory' = [memory EXCEPT ![p] = [st |-> "est", owner |-> Boxes!Nobody, parent |-> l]]
      /\ Boxes!Wakeup(l, TRUE) /\ UNCHANGED <<boxes, descriptors, threads, wasReset>>
  BY DEF Boxes!Incoming
<1>2. memory' \in [Ptrs -> StackSockets]
  BY <1>1 DEF BoxInv, BoxTypes, States
<1>3. \A q \in Ptrs : q # p => memory'[q] = memory[q]
  BY <1>1 DEF BoxInv, BoxTypes
<1>4. ~wasReset => \A i \in 1..Len(boxes) :
         /\ memory'[boxes[i].ptr].owner = boxes[i].name
         /\ Fits(threads[boxes[i].name], entries[boxes[i].name].tokens, memory'[boxes[i].ptr].st)
         /\ boxes[i].ptr = l => memory'[l].st \notin {"free", "idle"} /\ memory'[l].st # "syn"
  <2> SUFFICES ASSUME ~wasReset, NEW i \in 1..Len(boxes)
               PROVE  /\ memory'[boxes[i].ptr].owner = boxes[i].name
                      /\ Fits(threads[boxes[i].name], entries[boxes[i].name].tokens,
                              memory'[boxes[i].ptr].st)
    BY <1>1, <1>3
  <2>1. boxes[i].ptr \in Ptrs /\ boxes[i].ptr # p
    BY <1>1, BoxedInUse
  <2>2. memory'[boxes[i].ptr] = memory[boxes[i].ptr]
    BY <1>3, <2>1
  <2> QED
    BY <2>2 DEF BoxInv, BoxesOwn
<1> QED
  BY <1>1, <1>2, <1>4, WakeupStep

\* Every step of SocketBoxes keeps the invariant.
LEMMA BoxStep ==
  ASSUME Known, BoxInv, (Boxes!Next \/ UNCHANGED Boxes!vars) PROVE BoxInv'
<1>1. CASE Boxes!Write
  BY <1>1, WriteKeepsBoxes
<1>2. CASE \E p \in Ptrs : Boxes!Handshake(p) \/ Boxes!Reset(p) \/ Boxes!Data(p) \/ Boxes!Free(p)
  BY <1>2, HandshakeStep, ResetStep, DataStep, FreeStep
<1>3. CASE \E p, l \in Ptrs : Boxes!Incoming(l, p)
  BY <1>3, IncomingStep
<1>4. CASE \E n \in SocketNames : Boxes!Open(n) \/ Boxes!OpenFails(n) \/ Boxes!OpenAgain(n)
  BY <1>4, BoxOpenStep, OpenFailsStep, OpenAgainStep
<1>5. CASE \E n \in SocketNames : Boxes!Connect(n) \/ Boxes!Listen(n)
  BY <1>5, StartStep DEF Boxes!Connect, Boxes!Listen
<1>6. CASE \E n \in SocketNames : Boxes!Connected(n) \/ Boxes!Waited(n) \/ Boxes!AcceptRaises(n)
  BY <1>6, ConnectedStep, WaitedStep, AcceptRaisesStep
<1>7. CASE \E n, m \in SocketNames : Boxes!Accept(n, m)
  BY <1>7, BoxAcceptStep
<1>8. CASE \E n \in SocketNames : Boxes!CloseBox(n) \/ Boxes!CloseNothing(n) \/ Boxes!CloseEntry(n)
  BY <1>8, CloseBoxStep, CloseNothingStep, CloseEntryStep
<1>9. CASE UNCHANGED Boxes!vars
  <2>1. UNCHANGED <<memory, boxes, entries, descriptors, threads, callback, wasReset>>
    BY <1>9 DEF Boxes!vars
  <2>2. BoxTypes'
    BY <2>1 DEF BoxInv, BoxTypes
  <2>3. Boxes!PipePerEntry' /\ Used' /\ NoToken'
    BY <2>1 DEF BoxInv, Boxes!PipePerEntry, Used, NoToken
  <2>4. BoxesNamed' /\ BoxesUsed' /\ UsedBoxed' /\ BoxesOwn'
    BY <2>1 DEF BoxInv, BoxesNamed, BoxesUsed, UsedBoxed, BoxesOwn
  <2>5. CallbackOwns'
    BY <2>1 DEF BoxInv, CallbackOwns, Boxes!Idle
  <2> QED
    BY <2>2, <2>3, <2>4, <2>5 DEF BoxInv
<1> QED
  BY <1>1, <1>2, <1>3, <1>4, <1>5, <1>6, <1>7, <1>8, <1>9 DEF Boxes!Next

LEMMA BoxInvSuffices ==
  ASSUME Known, BoxInv
  PROVE  Boxes!PipePerEntry /\ Boxes!WakeupFindsOwner /\ Boxes!ConnectedIsEstablished
<1>1. Boxes!WakeupFindsOwner
  BY DEF BoxInv, CallbackOwns, Boxes!WakeupFindsOwner
<1>2. Boxes!ConnectedIsEstablished
  <2> SUFFICES ASSUME ~wasReset, NEW n \in SocketNames, threads[n] = "connected"
               PROVE  /\ Boxes!BoxOf(n) # Boxes!Nobody
                      /\ memory[Boxes!BoxOf(n)].st = "est" /\ memory[Boxes!BoxOf(n)].owner = n
    BY DEF Boxes!ConnectedIsEstablished
  <2>1. PICK i \in 1..Len(boxes) : boxes[i].name = n
    BY DEF BoxInv, UsedBoxed
  <2>2. Boxes!BoxOf(n) = boxes[i].ptr /\ boxes[i].ptr # Boxes!Nobody
    BY <2>1, BoxFound DEF BoxInv
  <2> QED
    BY <2>1, <2>2 DEF BoxInv, BoxesOwn, Fits
<1> QED
  BY <1>1, <1>2 DEF BoxInv

-----------------------------------------------------------------------------
(* FrontEnds: the telnet thread, the other threads and what they hold      *)

(* Proofs about FrontEnds, for any set of clients, any choice of front     *)
(* ends and either stack: no login is inherited, a listener has a thread,  *)
(* and what the front ends use outlives them.                              *)
(***************************************************************************)

Distinct == /\ Fronts!Nobody \notin FrontClients /\ "web" \notin FrontClients
            /\ Options \subseteq {"web", "telnet"}

\* The telnet thread.

Connections == [st : {"none", "queued", "open", "gone", "closed"}, psw : Fronts!Passwords]
Logins == [pc : {"no", "bind", "accept", "user", "psw", "auth", "session", "stuck", "ended"},
           conn : FrontClients \cup {Fronts!Nobody}, user : Fronts!Names, psw : Fronts!Passwords]

FrontTypes == /\ conn \in [FrontClients -> Connections]
         /\ login \in Logins
         /\ front \in [Options -> {"no", "run", "ended", "failed"}]

Asking == {"user", "psw", "auth"}

\* The connection that telnet() serves was accepted; before its password is
\* right nothing was sent for it, as for those that nobody has accepted.
SessionKnown ==
  /\ login.pc \in Asking \cup {"session"} =>
       login.conn \in FrontClients /\ conn[login.conn].st \in {"open", "gone"}
  /\ login.pc \in Asking => login.conn \notin commands
  /\ login.pc \in {"user", "psw"} => login.psw = ""
  /\ login.pc \in {"auth", "session"} => conn[login.conn].psw = login.psw
  /\ login.pc = "session" => login.psw = "secret"
  /\ \A c \in FrontClients : conn[c].st \in {"none", "queued"} => c \notin commands

LoginInv == FrontTypes /\ SessionKnown /\ Fronts!OnlyAuthenticated

\* The threads and what the program holds.

Mains == {"init", "device", "connect", "start", "join", "finally", "exit"}

\* The telnet thread runs from its start to its end, and what it serves is a
\* client.
Serving ==
  /\ main \in Mains
  /\ main \in {"init", "device", "connect", "start"} =>
       /\ login.pc = "no" /\ "listener" \notin resources
       /\ \A f \in Options : front[f] = "no"
  /\ login.pc \notin {"no", "ended"} => "telnet" \in Options /\ front["telnet"] = "run"
  /\ "listener" \in resources => login.pc \notin {"no", "bind", "ended"}
  /\ login.pc \in Asking \cup {"session", "stuck"} => login.conn \in FrontClients

NoneFailed == \A f \in Options : front[f] # "failed"

\* Device and socket are held from connect() to the end of the threads.
Kept ==
  /\ main = "connect" => "device" \in resources
  /\ main \in {"start", "join", "finally"} => {"device", "unix"} \subseteq resources
  /\ main \in {"finally", "exit"} /\ NoneFailed => \A f \in Options : front[f] # "run"

FrontInv == LoginInv /\ Serving /\ Kept

LEMMA FrontInitially ==
  ASSUME Distinct, Fronts!Init
  PROVE  FrontInv
<1>1. LoginInv
  BY DEF Distinct, Fronts!Init, LoginInv, FrontTypes, Connections, Logins, Fronts!Passwords, Fronts!Names,
         SessionKnown, Asking, Fronts!Nobody, Fronts!OnlyAuthenticated
<1>2. Serving
  BY DEF Fronts!Init, Serving, Mains, Asking
<1>3. Kept
  BY DEF Fronts!Init, Kept
<1> QED
  BY <1>1, <1>2, <1>3 DEF FrontInv

\* Steps of the telnet thread.

\* What leaves the session, the connections and the commands alone.
LEMMA LoginStays ==
  ASSUME LoginInv, UNCHANGED <<conn, login, commands>>,
         front' \in [Options -> {"no", "run", "ended", "failed"}]
  PROVE  LoginInv'
BY DEF LoginInv, FrontTypes, SessionKnown, Fronts!OnlyAuthenticated

\* The thread leaves its session or was not in one.
LEMMA LoginChange ==
  ASSUME LoginInv, login' \in Logins, login'.pc \in {"bind", "accept", "stuck", "ended"},
         front' \in [Options -> {"no", "run", "ended", "failed"}],
         conn' = conn,
         \/ commands' = commands
         \/ login.pc = "session" /\ commands' = commands \cup {login.conn}
  PROVE  LoginInv'
<1>1. \A d \in FrontClients : d \in commands' =>
        d \in commands \/ (login.pc = "session" /\ d = login.conn)
  OBVIOUS
<1>2. \A d \in FrontClients : conn[d].st \in {"none", "queued"} => d \notin commands'
  BY <1>1 DEF LoginInv, SessionKnown
<1>3. Fronts!OnlyAuthenticated'
  BY <1>1 DEF LoginInv, SessionKnown, Fronts!OnlyAuthenticated
<1> QED
  BY <1>2, <1>3 DEF LoginInv, FrontTypes, SessionKnown, Asking

LEMMA EndKeeps ==
  ASSUME FrontInv, login.pc \in {"bind", "session"}, Fronts!TelnetEnds
  PROVE  /\ login' \in Logins /\ login'.pc = "ended"
         /\ front' \in [Options -> {"no", "run", "ended", "failed"}]
         /\ \A f \in Options : front'[f] = IF f = "telnet" THEN "ended" ELSE front[f]
         /\ NoneFailed' => NoneFailed
BY DEF FrontInv, LoginInv, FrontTypes, Logins, Serving, Fronts!TelnetEnds, NoneFailed

LEMMA TelnetBinds ==
  ASSUME Distinct, FrontInv, Fronts!Bind
  PROVE  FrontInv'
<1>1. /\ login.pc = "bind" /\ login \in Logins /\ main \in {"join", "finally", "exit"}
      /\ UNCHANGED <<front_stack, main, conn, commands>>
  BY DEF Fronts!Bind, FrontInv, LoginInv, FrontTypes, Serving, Mains
<1>2. CASE Fronts!TelnetEnds /\ UNCHANGED resources
  <2>1. LoginInv'
    BY <1>1, <1>2, EndKeeps, LoginChange DEF FrontInv
  <2>2. Serving'
    BY <1>1, <1>2, EndKeeps DEF FrontInv, Serving, Asking
  <2>3. Kept'
    BY <1>1, <1>2, EndKeeps DEF FrontInv, Kept
  <2> QED
    BY <2>1, <2>2, <2>3 DEF FrontInv
<1>3. CASE /\ login' = [login EXCEPT !.pc = "accept"]
           /\ resources' = resources \cup {"listener"} /\ UNCHANGED front
  <2>1. login' \in Logins /\ login'.pc = "accept"
    BY <1>1, <1>3 DEF Logins
  <2>2. LoginInv'
    BY <1>1, <1>3, <2>1, LoginChange DEF FrontInv, LoginInv, FrontTypes
  <2>3. Serving'
    BY <1>1, <1>3, <2>1 DEF FrontInv, Serving, Asking
  <2>4. Kept'
    BY <1>1, <1>3 DEF FrontInv, Kept, NoneFailed
  <2> QED
    BY <2>2, <2>3, <2>4 DEF FrontInv
<1> QED
  BY <1>1, <1>2, <1>3 DEF Fronts!Bind

\* A step within the session: only login, conn and commands change.
LEMMA SessionKeeps ==
  ASSUME FrontInv, UNCHANGED <<main, resources, front>>, login.pc \notin {"no", "bind", "ended"},
         login'.pc \notin {"no", "bind", "ended"},
         login'.pc \in Asking \cup {"session", "stuck"} => login'.conn \in FrontClients
  PROVE  Serving' /\ Kept'
BY DEF FrontInv, Serving, Kept, NoneFailed, Asking

LEMMA TelnetAccepts ==
  ASSUME Distinct, FrontInv, NEW c \in FrontClients, Fronts!Accept(c)
  PROVE  FrontInv'
<1>1. /\ login.pc = "accept" /\ conn[c].st = "queued" /\ conn \in [FrontClients -> Connections]
      /\ login \in Logins /\ UNCHANGED <<front_stack, main, resources, front, commands>>
      /\ conn' = [conn EXCEPT ![c].st = "open"]
      /\ login' = [login EXCEPT !.pc = "user", !.conn = c, !.user = "", !.psw = ""]
  BY DEF Fronts!Accept, Fronts!Fresh, FrontInv, LoginInv, FrontTypes
<1>2. /\ login' \in Logins /\ login'.pc = "user" /\ login'.conn = c /\ login'.psw = ""
  BY <1>1 DEF Logins, Fronts!Names, Fronts!Passwords
<1>3. /\ conn' \in [FrontClients -> Connections] /\ conn'[c].st = "open"
      /\ \A d \in FrontClients : conn'[d].psw = conn[d].psw
      /\ \A d \in FrontClients : d # c => conn'[d] = conn[d]
  BY <1>1 DEF Connections
<1>4. c \notin commands
  BY <1>1 DEF FrontInv, LoginInv, SessionKnown
<1>5. LoginInv'
  BY <1>1, <1>2, <1>3, <1>4 DEF FrontInv, LoginInv, FrontTypes, SessionKnown, Asking, Fronts!OnlyAuthenticated
<1>6. Serving' /\ Kept'
  BY <1>1, <1>2, SessionKeeps
<1> QED
  BY <1>5, <1>6 DEF FrontInv

LEMMA RecvUserStep ==
  ASSUME Distinct, FrontInv, NEW u \in Fronts!Names, Fronts!RecvUser(u)
  PROVE  FrontInv'
<1>1. /\ login.pc = "user" /\ login.psw = "" /\ login \in Logins /\ login.conn \in FrontClients
      /\ UNCHANGED <<front_stack, main, resources, front, conn, commands>>
  BY DEF Fronts!RecvUser, FrontInv, LoginInv, FrontTypes, SessionKnown, Asking
<1>2. CASE u = ""
  <2>1. login' = login
    BY <1>2 DEF Fronts!RecvUser
  <2>2. LoginInv'
    BY <1>1, <2>1, LoginStays DEF FrontInv, LoginInv, FrontTypes
  <2> QED
    BY <1>1, <2>1, <2>2, SessionKeeps DEF FrontInv
<1>3. CASE u # ""
  <2>1. login' = [login EXCEPT !.user = u, !.pc = "psw"]
    BY <1>1, <1>3 DEF Fronts!RecvUser
  <2>2. /\ login' \in Logins /\ login'.pc = "psw" /\ login'.psw = ""
        /\ login'.conn = login.conn
    BY <1>1, <2>1 DEF Logins
  <2>3. LoginInv'
    BY <1>1, <2>2 DEF FrontInv, LoginInv, FrontTypes, SessionKnown, Asking, Fronts!OnlyAuthenticated
  <2> QED
    BY <1>1, <2>2, <2>3, SessionKeeps DEF FrontInv
<1> QED
  BY <1>2, <1>3

LEMMA RecvPasswordStep ==
  ASSUME Distinct, FrontInv, NEW p \in Fronts!Passwords, Fronts!RecvPassword(p)
  PROVE  FrontInv'
<1> DEFINE c == login.conn
<1>1. /\ login.pc = "psw" /\ login.psw = "" /\ login \in Logins /\ c \in FrontClients
      /\ conn[c].st \in {"open", "gone"} /\ conn \in [FrontClients -> Connections]
      /\ c \notin commands
      /\ UNCHANGED <<front_stack, main, resources, front, commands>>
      /\ conn' = [conn EXCEPT ![c].psw = p]
  BY DEF Fronts!RecvPassword, FrontInv, LoginInv, FrontTypes, SessionKnown, Asking
<1>2. /\ conn' \in [FrontClients -> Connections] /\ conn'[c].psw = p
      /\ \A d \in FrontClients : conn'[d].st = conn[d].st
      /\ \A d \in FrontClients : d # c => conn'[d] = conn[d]
  BY <1>1 DEF Connections
<1>3. /\ login' \in Logins /\ login'.conn = c
      /\ \/ login'.pc = "psw" /\ login'.psw = ""
         \/ login'.pc = "auth" /\ login'.psw = p
  <2>1. CASE p = ""
    BY <1>1, <2>1 DEF Fronts!RecvPassword
  <2>2. CASE p # ""
    BY <1>1, <2>2 DEF Fronts!RecvPassword, Logins
  <2> QED
    BY <2>1, <2>2
<1> HIDE DEF c
<1>4. LoginInv'
  BY <1>1, <1>2, <1>3 DEF FrontInv, LoginInv, FrontTypes, SessionKnown, Asking, Fronts!OnlyAuthenticated
<1>5. Serving' /\ Kept'
  BY <1>1, <1>3, SessionKeeps
<1> QED
  BY <1>4, <1>5 DEF FrontInv

LEMMA AuthenticateStep ==
  ASSUME Distinct, FrontInv, Fronts!Authenticate
  PROVE  FrontInv'
<1> DEFINE c == login.conn
<1>1. /\ login.pc = "auth" /\ login \in Logins /\ c \in FrontClients
      /\ conn[c].st \in {"open", "gone"} /\ conn \in [FrontClients -> Connections]
      /\ conn[c].psw = login.psw
      /\ UNCHANGED <<front_stack, main, resources, front>>
  BY DEF Fronts!Authenticate, FrontInv, LoginInv, FrontTypes, SessionKnown, Asking
<1>2. CASE Fronts!authenticate(login.user, login.psw)
  <2>1. /\ login.psw = "secret" /\ conn' = conn /\ commands' = commands \cup {c}
        /\ login' = [login EXCEPT !.pc = "session"]
    BY <1>2 DEF Fronts!Authenticate, Fronts!authenticate
  <2>2. /\ login' \in Logins /\ login'.pc = "session" /\ login'.conn = c
        /\ login'.psw = "secret"
    BY <1>1, <2>1 DEF Logins
  <2> HIDE DEF c
  <2>3. LoginInv'
    BY <1>1, <2>1, <2>2
    DEF FrontInv, LoginInv, FrontTypes, SessionKnown, Asking, Fronts!OnlyAuthenticated
  <2> QED
    BY <1>1, <2>2, <2>3, SessionKeeps DEF FrontInv
<1>3. CASE ~Fronts!authenticate(login.user, login.psw)
  <2>1. /\ login' = [login EXCEPT !.pc = "accept", !.conn = Fronts!Nobody]
        /\ conn' = [conn EXCEPT ![c].st = "closed"] /\ commands' = commands
    BY <1>3 DEF Fronts!Authenticate
  <2>2. login' \in Logins /\ login'.pc = "accept"
    BY <1>1, <2>1 DEF Logins
  <2>3. /\ conn' \in [FrontClients -> Connections]
        /\ \A d \in FrontClients : conn'[d].psw = conn[d].psw
        /\ \A d \in FrontClients : conn'[d].st \in {"none", "queued"} =>
                                conn[d].st \in {"none", "queued"}
    BY <1>1, <2>1 DEF Connections
  <2>4. LoginInv'
    BY <1>1, <2>1, <2>2, <2>3
    DEF FrontInv, LoginInv, FrontTypes, SessionKnown, Asking, Fronts!OnlyAuthenticated
  <2> QED
    BY <1>1, <2>2, <2>4, SessionKeeps DEF FrontInv, Asking
<1> QED
  BY <1>2, <1>3

LEMMA SessionStep ==
  ASSUME Distinct, FrontInv, NEW data \in {"", "blank", "history", "command"}, Fronts!Session(data)
  PROVE  FrontInv'
<1>1. /\ login.pc = "session" /\ login \in Logins /\ login.conn \in FrontClients
      /\ main \in {"join", "finally", "exit"} /\ UNCHANGED <<front_stack, main, conn>>
      /\ \/ commands' = commands
         \/ login.pc = "session" /\ commands' = commands \cup {login.conn}
  BY DEF Fronts!Session, FrontInv, LoginInv, FrontTypes, SessionKnown, Serving, Mains
<1>2. CASE data = ""
  <2>1. login' = [login EXCEPT !.pc = "stuck"] /\ UNCHANGED <<front, resources>>
    BY <1>2 DEF Fronts!Session, Fronts!AfterInput
  <2>2. login' \in Logins /\ login'.pc = "stuck" /\ login'.conn = login.conn
    BY <1>1, <2>1 DEF Logins
  <2>3. LoginInv'
    BY <1>1, <2>1, <2>2, LoginChange DEF FrontInv, LoginInv, FrontTypes
  <2> QED
    BY <1>1, <2>1, <2>2, <2>3, SessionKeeps DEF FrontInv
<1>3. CASE data # ""
  <2>1. Fronts!TelnetEnds /\ resources' = resources \ {"listener"}
    BY <1>3 DEF Fronts!Session, Fronts!AfterInput
  <2>2. LoginInv'
    BY <1>1, <2>1, EndKeeps, LoginChange DEF FrontInv
  <2>3. Serving'
    BY <1>1, <2>1, EndKeeps DEF FrontInv, Serving, Asking
  <2>4. Kept'
    BY <1>1, <2>1, EndKeeps DEF FrontInv, Kept
  <2> QED
    BY <2>2, <2>3, <2>4 DEF FrontInv
<1> QED
  BY <1>2, <1>3

\* The other steps.

LEMMA MainContinues ==
  ASSUME Distinct, FrontInv, Fronts!Main
  PROVE  FrontInv'
<1> USE DEF Serving, Kept, NoneFailed, Mains
<1>1. ASSUME UNCHANGED <<conn, login, commands, front>>
      PROVE  LoginInv'
  BY <1>1, LoginStays DEF FrontInv, LoginInv, FrontTypes
<1>2. CASE Fronts!init
  BY <1>1, <1>2 DEF Fronts!init, Fronts!Local, FrontInv
<1>3. CASE Fronts!CreateDevice
  BY <1>1, <1>3 DEF Fronts!CreateDevice, Fronts!Local, FrontInv
<1>4. CASE Fronts!Connect
  BY <1>1, <1>4 DEF Fronts!Connect, Fronts!Local, FrontInv
<1>5. CASE Fronts!Start
  <2>1. PICK started \in SUBSET Options :
          /\ main = "start" /\ UNCHANGED <<front_stack, resources, conn, commands>>
          /\ front' = [f \in Options |-> IF f \in started THEN "run" ELSE "failed"]
          /\ main' = IF started = Options THEN "join" ELSE "finally"
          /\ login' = IF "telnet" \in started THEN [login EXCEPT !.pc = "bind"] ELSE login
    BY <1>5 DEF Fronts!Start
  <2>2. login \in Logins /\ login.pc = "no" /\ "listener" \notin resources
    BY <2>1 DEF FrontInv, LoginInv, FrontTypes
  <2>3. /\ login' \in Logins
        /\ login'.pc = IF "telnet" \in started THEN "bind" ELSE "no"
    BY <2>1, <2>2 DEF Logins
  <2>4. front' \in [Options -> {"no", "run", "ended", "failed"}]
    BY <2>1
  <2>5. LoginInv'
    <3>1. CASE "telnet" \in started
      BY <2>1, <2>3, <2>4, <3>1, LoginChange DEF FrontInv
    <3>2. CASE "telnet" \notin started
      BY <2>1, <2>4, <3>2, LoginStays DEF FrontInv
    <3> QED
      BY <3>1, <3>2
  <2>6. Serving'
    BY <2>1, <2>2, <2>3 DEF FrontInv, Asking
  <2>7. Kept'
    BY <2>1 DEF FrontInv
  <2> QED
    BY <2>5, <2>6, <2>7 DEF FrontInv
<1>6. CASE Fronts!Join
  BY <1>1, <1>6 DEF Fronts!Join, Fronts!Local, FrontInv
<1>7. CASE Fronts!Finally
  BY <1>1, <1>7 DEF Fronts!Finally, Fronts!Local, FrontInv
<1> QED
  BY <1>2, <1>3, <1>4, <1>5, <1>6, <1>7 DEF Fronts!Main

LEMMA ClientComes ==
  ASSUME Distinct, FrontInv, NEW c \in FrontClients, Fronts!Arrive(c) \/ Fronts!Gone(c)
  PROVE  FrontInv'
<1>1. UNCHANGED <<front_stack, main, resources, front, login, commands>>
  BY DEF Fronts!Arrive, Fronts!Gone
<1>2. /\ conn \in [FrontClients -> Connections] /\ conn' \in [FrontClients -> Connections]
      /\ \A d \in FrontClients : conn'[d].psw = conn[d].psw
      /\ \A d \in FrontClients : conn'[d].st \in {"none", "queued"} =>
                              conn[d].st \in {"none", "queued"}
      /\ \A d \in FrontClients : conn[d].st \in {"open", "gone"} => conn'[d].st \in {"open", "gone"}
  BY DEF Fronts!Arrive, Fronts!Gone, FrontInv, LoginInv, FrontTypes, Connections
<1>3. LoginInv'
  BY <1>1, <1>2 DEF FrontInv, LoginInv, FrontTypes, SessionKnown, Asking, Fronts!OnlyAuthenticated
<1> QED
  BY <1>1, <1>3 DEF FrontInv, Serving, Kept, NoneFailed

LEMMA WebAnswers ==
  ASSUME Distinct, FrontInv, Fronts!WebEnds \/ \E u \in Fronts!Names, p \in Fronts!Passwords : Fronts!WebRequest(u, p)
  PROVE  FrontInv'
<1>1. CASE Fronts!WebEnds
  <2>1. /\ front' \in [Options -> {"no", "run", "ended", "failed"}]
        /\ front["web"] = "run" /\ "web" \in Options
        /\ \A f \in Options : front'[f] = IF f = "web" THEN "ended" ELSE front[f]
        /\ UNCHANGED <<front_stack, main, resources, conn, login, commands>>
    BY <1>1 DEF Fronts!WebEnds, Fronts!Local, FrontInv, LoginInv, FrontTypes
  <2>2. LoginInv'
    BY <2>1, LoginStays DEF FrontInv
  <2> QED
    BY <2>1, <2>2 DEF FrontInv, Serving, Kept, NoneFailed
<1>2. CASE \E u \in Fronts!Names, p \in Fronts!Passwords : Fronts!WebRequest(u, p)
  <2>1. /\ commands' = commands \cup {"web"}
        /\ UNCHANGED <<main, resources, front, conn, login>>
    BY <1>2 DEF Fronts!WebRequest
  <2>2. LoginInv'
    BY <2>1 DEF Distinct, FrontInv, LoginInv, FrontTypes, SessionKnown, Asking, Fronts!OnlyAuthenticated
  <2> QED
    BY <2>1, <2>2 DEF FrontInv, Serving, Kept, NoneFailed
<1> QED
  BY <1>1, <1>2

\* Every step of FrontEnds keeps the invariant.
LEMMA FrontStep ==
  ASSUME Distinct, FrontInv, Fronts!Next \/ UNCHANGED Fronts!vars
  PROVE  FrontInv'
<1>1. CASE UNCHANGED Fronts!vars
  BY <1>1 DEF Fronts!vars, FrontInv, LoginInv, FrontTypes, SessionKnown,
              Fronts!OnlyAuthenticated, Serving, Kept, NoneFailed
<1>2. Fronts!Telnet => FrontInv'
  BY TelnetBinds, AuthenticateStep, TelnetAccepts, RecvUserStep, RecvPasswordStep,
     SessionStep DEF Fronts!Telnet
<1> QED
  BY <1>1, <1>2, MainContinues, ClientComes, WebAnswers DEF Fronts!Next

LEMMA FrontMeans ==
  ASSUME FrontInv
  PROVE  /\ Fronts!OnlyAuthenticated /\ Fronts!ListenerHasThread
         /\ Fronts!ResourcesOutliveThreads
<1>1. Fronts!ListenerHasThread
  BY DEF FrontInv, LoginInv, FrontTypes, Logins, Serving, Asking, Fronts!ListenerHasThread
<1>2. Fronts!ResourcesOutliveThreads
  BY DEF FrontInv, LoginInv, FrontTypes, Serving, Mains, Kept, NoneFailed,
         Fronts!ResourcesOutliveThreads
<1> QED
  BY <1>1, <1>2 DEF FrontInv, LoginInv

-----------------------------------------------------------------------------
(* PycoList: the lists of sockets and devices of pycoclib                    *)

\* There are finitely many chunks, NULL is none of them, and there is a name.
Chunked == IsFiniteSet(Chunks) /\ NoChunk \notin Chunks /\ ListNames # {}

\* The chunks there are, and what a search comes to that starts at h.
Room == Cardinality(Chunks)
Along(h, nx) ==
  CHOOSE f : f = [i \in 0 .. Room |->
                    IF i = 0 THEN h
                    ELSE IF f[i - 1] = NoChunk THEN NoChunk ELSE nx[f[i - 1]]]

\* From h on the n chunks p are linked, each once.
Chain(n, p, h, nx) ==
  /\ n \in 0 .. Room /\ p \in [1 .. n -> Chunks]
  /\ \A i, j \in 1 .. n : p[i] = p[j] => i = j
  /\ h = IF n = 0 THEN NoChunk ELSE p[1]
  /\ \A i \in 1 .. n : nx[p[i]] = IF i = n THEN NoChunk ELSE p[i + 1]

\* What is linked is not freed, and the tail is linked in the last place only. As long
\* as malloc does not fail, the list of sockets has all chunks that are not freed, its
\* tail is the last one, and its names are those held, each once.
ListTypes == /\ head \in Chunks \cup {NoChunk} /\ tail \in Chunks \cup {NoChunk}
             /\ next \in [Chunks -> Chunks \cup {NoChunk}]
             /\ name \in [Chunks -> ListNames]
             /\ live \subseteq Chunks /\ held \subseteq ListNames
             /\ list \in ListForms /\ failed \in BOOLEAN /\ faulted \in BOOLEAN
             /\ tail = NoChunk /\ ~failed => live = {}
SocketList(n, p) == /\ ~faulted
                    /\ live = {p[i] : i \in 1 .. n}
                    /\ n > 0 => tail = p[n]
                    /\ held = {name[p[i]] : i \in 1 .. n}
                    /\ \A i, j \in 1 .. n : name[p[i]] = name[p[j]] => i = j
OneList(n, p) == /\ Chain(n, p, head, next) /\ p \in [1 .. n -> live]
                 /\ \A i \in 1 .. n : tail = p[i] => i = n
                 /\ list = "socket" /\ ~failed => SocketList(n, p)
ListInv == ListTypes /\ \E n, p : OneList(n, p)

LEMMA RoomCounts ==
  ASSUME Chunked
  PROVE  Room \in Nat /\ Lists!Cardinality(Chunks) = Room
<1>1. Room \in Nat
  BY FS_CardinalityType DEF Chunked, Room
<1>2. Lists!Cardinality(Chunks) = Room
  BY DEF Lists!Cardinality, Cardinality, Room
<1> QED
  BY <1>1, <1>2

\* As many chunks are linked as there are, at most.
LEMMA ChainFits ==
  ASSUME Chunked, NEW n \in Nat, NEW p \in [1 .. n -> Chunks],
         \A i, j \in 1 .. n : p[i] = p[j] => i = j
  PROVE  n <= Room
<1>1. p \in Injection(1 .. n, Chunks)
  BY DEF Injection, IsInjective
<1>2. Cardinality(1 .. n) <= Room
  BY <1>1, FS_Injection DEF Chunked, Room
<1>3. Cardinality(1 .. n) = n
  BY FS_Interval
<1> QED
  BY <1>2, <1>3

\* A search comes to the chunks that are linked, and then to NULL.
LEMMA ChainIsWalked ==
  ASSUME Chunked, NEW n, NEW p, NEW h, NEW nx, Chain(n, p, h, nx)
  PROVE  \A i \in 0 .. Room : Along(h, nx)[i] = IF i < n THEN p[i + 1] ELSE NoChunk
<1> DEFINE g == [i \in 0 .. Room |-> IF i < n THEN p[i + 1] ELSE NoChunk]
           a == Along(h, nx)
<1>1. Room \in Nat /\ n \in 0 .. Room
  BY RoomCounts DEF Chain
<1>2. \A i \in 0 .. Room :
        g[i] = IF i = 0 THEN h ELSE IF g[i - 1] = NoChunk THEN NoChunk ELSE nx[g[i - 1]]
  <2> SUFFICES ASSUME NEW i \in 0 .. Room
               PROVE  g[i] = IF i = 0 THEN h
                             ELSE IF g[i - 1] = NoChunk THEN NoChunk ELSE nx[g[i - 1]]
    OBVIOUS
  <2>1. CASE i = 0
    BY <1>1, <2>1 DEF Chain
  <2>2. CASE i # 0 /\ i - 1 < n
    <3>1. i \in 1 .. n /\ g[i - 1] = p[i] /\ p[i] # NoChunk
      BY <1>1, <2>2 DEF Chain, Chunked
    <3>2. nx[p[i]] = IF i = n THEN NoChunk ELSE p[i + 1]
      BY <3>1 DEF Chain
    <3> QED
      BY <1>1, <2>2, <3>1, <3>2
  <2>3. CASE i # 0 /\ ~(i - 1 < n)
    BY <1>1, <2>3
  <2> QED
    BY <2>1, <2>2, <2>3
<1>3. g = [i \in 0 .. Room |->
             IF i = 0 THEN h ELSE IF g[i - 1] = NoChunk THEN NoChunk ELSE nx[g[i - 1]]]
  BY <1>2
<1>4. a = [i \in 0 .. Room |->
             IF i = 0 THEN h ELSE IF a[i - 1] = NoChunk THEN NoChunk ELSE nx[a[i - 1]]]
  BY <1>3 DEF Along
<1>5. \A i \in 0 .. Room :
        a[i] = IF i = 0 THEN h ELSE IF a[i - 1] = NoChunk THEN NoChunk ELSE nx[a[i - 1]]
  BY <1>4
<1> DEFINE T == {i \in 0 .. Room : a[i] # g[i]}
<1>6. \A i \in 0 .. Room : g[i] = IF i < n THEN p[i + 1] ELSE NoChunk
  OBVIOUS
<1> HIDE DEF g, a
<1>7. T = {}
  <2> SUFFICES ASSUME T # {} PROVE FALSE
    OBVIOUS
  <2>0. T \in SUBSET Nat
    BY <1>1
  <2>1. PICK m \in T : \A k \in T : m <= k
    <3> HIDE DEF T
    <3> QED
      BY <2>0, SmallestExists
  <2>2. m # 0
    BY <1>1, <1>2, <1>5, <2>1
  <2>3. m - 1 \in 0 .. Room /\ m - 1 \notin T
    BY <1>1, <2>1, <2>2
  <2>4. a[m - 1] = g[m - 1]
    BY <2>3
  <2> QED
    BY <1>2, <1>5, <2>1, <2>2, <2>4
<1> QED
  BY <1>6, <1>7 DEF a

LEMMA ListReads ==
  ASSUME Chunked, NEW n, NEW p, Chain(n, p, head, next)
  PROVE  /\ \A i \in 0 .. Room : Lists!At[i] = IF i < n THEN p[i + 1] ELSE NoChunk
         /\ Lists!Hops = 0 .. Room - 1
         /\ Lists!Linked = {p[i] : i \in 1 .. n}
         /\ \A e : Lists!Matches(e) = {i \in 0 .. n - 1 : name[p[i + 1]] = e}
<1>1. Room \in Nat /\ Lists!Cardinality(Chunks) = Room /\ n \in 0 .. Room
  BY RoomCounts DEF Chain
<1>2. Lists!At = Along(head, next)
  BY <1>1 DEF Lists!At, Along
<1>3. \A i \in 0 .. Room : Lists!At[i] = IF i < n THEN p[i + 1] ELSE NoChunk
  BY <1>2, ChainIsWalked
<1>4. Lists!Hops = 0 .. Room - 1
  BY <1>1 DEF Lists!Hops
<1>5. \A i \in 1 .. n : p[i] # NoChunk
  BY DEF Chain, Chunked
<1>6. \A i \in 0 .. Room - 1 : Lists!At[i] # NoChunk <=> i < n
  BY <1>1, <1>3, <1>5
<1>7. Lists!Linked = {p[i] : i \in 1 .. n}
  <2>1. ASSUME NEW k \in Lists!Linked PROVE k \in {p[i] : i \in 1 .. n}
    <3>1. PICK i \in 0 .. Room - 1 : k = Lists!At[i] /\ k # NoChunk
      BY <1>4, <2>1 DEF Lists!Linked
    <3>2. i < n /\ k = p[i + 1] /\ i + 1 \in 1 .. n
      BY <1>1, <1>3, <1>6, <3>1
    <3> QED
      BY <3>2
  <2>2. ASSUME NEW i \in 1 .. n PROVE p[i] \in Lists!Linked
    <3>1. i - 1 \in 0 .. Room - 1 /\ Lists!At[i - 1] = p[i]
      BY <1>1, <1>3
    <3> QED
      BY <1>4, <1>5, <3>1 DEF Lists!Linked
  <2> QED
    BY <2>1, <2>2
<1>8. ASSUME NEW e PROVE Lists!Matches(e) = {i \in 0 .. n - 1 : name[p[i + 1]] = e}
  <2>1. \A i \in 0 .. Room - 1 : Lists!At[i] # NoChunk <=> i \in 0 .. n - 1
    BY <1>1, <1>6
  <2>2. \A i \in 0 .. n - 1 : i \in 0 .. Room - 1 /\ Lists!At[i] = p[i + 1]
    BY <1>1, <1>3
  <2> QED
    BY <1>4, <2>1, <2>2 DEF Lists!Matches
<1> QED
  BY <1>3, <1>4, <1>7, <1>8

\* A search for a name stops at the first chunk that has it.
LEMMA FirstIsFound ==
  ASSUME Chunked, NEW n, NEW p, Chain(n, p, head, next), NEW e, Lists!Found(e)
  PROVE  /\ Lists!First(e) \in 0 .. n - 1
         /\ name[p[Lists!First(e) + 1]] = e
         /\ Lists!At[Lists!First(e)] = p[Lists!First(e) + 1]
         /\ Lists!First(e) > 0 => Lists!At[Lists!First(e) - 1] = p[Lists!First(e)]
<1> DEFINE T == Lists!Matches(e)
<1>1. Room \in Nat /\ n \in 0 .. Room
  BY RoomCounts DEF Chain
<1>2. T = {i \in 0 .. n - 1 : name[p[i + 1]] = e}
  BY ListReads
<1>3. T \in SUBSET Nat /\ T # {}
  BY <1>1, <1>2 DEF Lists!Found
<1>4. \E m \in T : \A k \in T : m <= k
  <2> HIDE DEF T
  <2> QED
    BY <1>3, SmallestExists
<1>5. Lists!First(e) \in T
  BY <1>4 DEF Lists!First
<1>6. Lists!First(e) \in 0 .. n - 1 /\ name[p[Lists!First(e) + 1]] = e
  BY <1>2, <1>5
<1>7. \A i \in 0 .. Room : Lists!At[i] = IF i < n THEN p[i + 1] ELSE NoChunk
  BY ListReads
<1> QED
  BY <1>1, <1>6, <1>7

LEMMA ListInitially ==
  ASSUME Chunked, Lists!Init
  PROVE  ListInv
<1> DEFINE p == [i \in 1 .. 0 |-> NoChunk]
<1>1. Room \in Nat
  BY RoomCounts
<1>2. ListTypes
  BY DEF Lists!Init, ListTypes, Chunked
<1>3. Chain(0, p, head, next) /\ p \in [1 .. 0 -> live]
  BY <1>1 DEF Lists!Init, Chain
<1>4. SocketList(0, p)
  BY DEF Lists!Init, SocketList
<1>5. OneList(0, p)
  BY <1>3, <1>4 DEF OneList
<1> QED
  BY <1>2, <1>5 DEF ListInv

\* The chunk k is linked behind the last one.
Joined(n, p, k) == [i \in 1 .. n + 1 |-> IF i = n + 1 THEN k ELSE p[i]]

LEMMA ListJoins ==
  ASSUME Chunked, ListInv, NEW n, NEW p, OneList(n, p), n = 0 \/ tail = p[n],
         NEW e \in ListNames, NEW k \in Chunks \ live, Lists!AddBoth(e, k),
         name' = [name EXCEPT ![k] = e], live' = live \cup {k},
         e \notin held, held' = held \cup {e}, ~faulted, UNCHANGED <<list, failed, faulted>>
  PROVE  ListInv' /\ OneList(n + 1, Joined(n, p, k))'
<1>1. /\ n \in Nat /\ p \in [1 .. n -> live] /\ live \subseteq Chunks /\ n \in 0 .. Room
      /\ \A i, j \in 1 .. n : p[i] = p[j] => i = j
      /\ head = IF n = 0 THEN NoChunk ELSE p[1]
      /\ \A i \in 1 .. n : next[p[i]] = IF i = n THEN NoChunk ELSE p[i + 1]
      /\ \A i \in 1 .. n : tail = p[i] => i = n
  BY RoomCounts DEF OneList, Chain, ListInv, ListTypes
<1>2. /\ tail' = k
      /\ next' = IF n = 0 THEN [next EXCEPT ![k] = NoChunk]
                 ELSE [next EXCEPT ![tail] = k, ![k] = NoChunk]
      /\ head' = IF n = 0 THEN k ELSE head
      /\ n > 0 => tail # NoChunk
  BY <1>1 DEF Lists!AddBoth, Lists!AddFirst, Lists!AddLast, Chunked
<1>3. ListTypes'
  BY <1>2 DEF ListInv, ListTypes, Chunked
<1>4. /\ next \in [Chunks -> Chunks \cup {NoChunk}] /\ name \in [Chunks -> ListNames]
      /\ tail \in Chunks \cup {NoChunk}
  BY DEF ListInv, ListTypes
<1>5. /\ \A i \in 1 .. n : p[i] \in live /\ p[i] # k /\ p[i] \in Chunks
      /\ \A i \in 1 .. n : name'[p[i]] = name[p[i]]
      /\ name'[k] = e
      /\ next'[k] = NoChunk
      /\ n > 0 => tail \in Chunks
      /\ \A i \in 1 .. n : next'[p[i]] = IF p[i] = tail THEN k ELSE next[p[i]]
  BY <1>1, <1>2, <1>4
<1> DEFINE q == Joined(n, p, k)
<1>6. /\ q \in [1 .. n + 1 -> live'] /\ q \in [1 .. n + 1 -> Chunks]
      /\ \A i \in 1 .. n + 1 : i # n + 1 => i \in 1 .. n /\ q[i] = p[i]
      /\ q[n + 1] = k
  <2>1. \A i \in 1 .. n + 1 : i # n + 1 => i \in 1 .. n
    BY <1>1
  <2>2. \A i \in 1 .. n + 1 : (IF i = n + 1 THEN k ELSE p[i]) \in live' \cap Chunks
    BY <1>1, <1>5, <2>1
  <2>3. n + 1 \in 1 .. n + 1 /\ q[n + 1] = k
    BY <1>1 DEF Joined
  <2>4. q \in [1 .. n + 1 -> live' \cap Chunks]
    BY <2>2 DEF Joined
  <2>5. \A i \in 1 .. n + 1 : i # n + 1 => q[i] = p[i]
    BY DEF Joined
  <2> HIDE DEF q
  <2> QED
    BY <2>1, <2>3, <2>4, <2>5
<1> HIDE DEF q
<1>7. ASSUME NEW i \in 1 .. n + 1, NEW j \in 1 .. n + 1, q[i] = q[j]
      PROVE  i = j
  <2>1. CASE i # n + 1 /\ j # n + 1
    BY <1>1, <1>6, <1>7, <2>1
  <2>2. CASE i = n + 1 \/ j = n + 1
    BY <1>5, <1>6, <1>7, <2>2
  <2> QED
    BY <2>1, <2>2
<1>8. n + 1 \in 0 .. Room
  BY <1>1, <1>6, <1>7, ChainFits, RoomCounts
<1>9. head' = q[1]
  BY <1>1, <1>2, <1>6
<1>10. ASSUME NEW i \in 1 .. n + 1
      PROVE  next'[q[i]] = IF i = n + 1 THEN NoChunk ELSE q[i + 1]
  <2>1. CASE i = n + 1
    BY <1>5, <1>6, <2>1
  <2>2. CASE i = n
    BY <1>1, <1>5, <1>6, <2>2
  <2>3. CASE i \in 1 .. n - 1
    BY <1>1, <1>5, <1>6, <2>3
  <2> QED
    BY <1>1, <2>1, <2>2, <2>3
<1>11. Chain(n + 1, q, head', next')
  BY <1>1, <1>6, <1>7, <1>8, <1>9, <1>10 DEF Chain
<1>12. \A i \in 1 .. n + 1 : tail' = q[i] => i = n + 1
  BY <1>1, <1>2, <1>5, <1>6
<1>13. (list = "socket" /\ ~failed)' => SocketList(n + 1, q)'
  <2> SUFFICES ASSUME list = "socket", ~failed PROVE SocketList(n + 1, q)'
    OBVIOUS
  <2>1. SocketList(n, p)
    BY DEF OneList
  <2>2. live' = {q[i] : i \in 1 .. n + 1}
    BY <1>1, <1>6, <2>1 DEF SocketList
  <2>3. \A i \in 1 .. n + 1 : name'[q[i]] = IF i = n + 1 THEN e ELSE name[p[i]]
    BY <1>5, <1>6
  <2>4. held' = {name'[q[i]] : i \in 1 .. n + 1}
    BY <1>1, <1>6, <2>1, <2>3 DEF SocketList
  <2>5. \A i \in 1 .. n : name[p[i]] # e
    BY <2>1 DEF SocketList
  <2>6. \A i, j \in 1 .. n + 1 : name'[q[i]] = name'[q[j]] => i = j
    BY <1>1, <1>6, <2>1, <2>3, <2>5 DEF SocketList
  <2> QED
    BY <1>2, <1>6, <2>2, <2>4, <2>6 DEF SocketList
<1>14. OneList(n + 1, q)'
  BY <1>6, <1>11, <1>12, <1>13 DEF OneList
<1> QED
  BY <1>3, <1>14 DEF ListInv, q

\* The chunk that is added goes behind the last one, or is not linked at all.
LEMMA ListAdds ==
  ASSUME Chunked, ListInv, NEW e \in ListNames, Lists!Add(e)
  PROVE  ListInv'
<1>1. PICK k \in Chunks \ live : /\ Lists!AddBoth(e, k)
                                 /\ name' = [name EXCEPT ![k] = e]
                                 /\ live' = live \cup {k}
  BY DEF Lists!Add
<1>2. /\ e \notin held /\ held' = held \cup {e} /\ ~faulted
      /\ UNCHANGED <<list, failed, faulted>>
  BY DEF Lists!Add
<1>3. PICK n, p : OneList(n, p)
  BY DEF ListInv
<1>4. /\ n \in Nat /\ p \in [1 .. n -> live] /\ live \subseteq Chunks /\ n \in 0 .. Room
      /\ \A i, j \in 1 .. n : p[i] = p[j] => i = j
      /\ head = IF n = 0 THEN NoChunk ELSE p[1]
      /\ \A i \in 1 .. n : next[p[i]] = IF i = n THEN NoChunk ELSE p[i + 1]
      /\ \A i \in 1 .. n : tail = p[i] => i = n
  BY <1>3, RoomCounts DEF OneList, Chain, ListInv, ListTypes
<1>5. /\ tail' = k
      /\ next' = IF n = 0 THEN [next EXCEPT ![k] = NoChunk]
                 ELSE [next EXCEPT ![tail] = k, ![k] = NoChunk]
      /\ head' = IF n = 0 THEN k ELSE head
      /\ n > 0 => tail # NoChunk
  BY <1>1, <1>4 DEF Lists!AddBoth, Lists!AddFirst, Lists!AddLast, Chunked
<1>6. ListTypes'
  BY <1>1, <1>2, <1>5 DEF ListInv, ListTypes, Chunked
<1>7. /\ next \in [Chunks -> Chunks \cup {NoChunk}] /\ name \in [Chunks -> ListNames]
      /\ tail \in Chunks \cup {NoChunk}
  BY DEF ListInv, ListTypes
<1>8. /\ \A i \in 1 .. n : p[i] \in live /\ p[i] # k /\ p[i] \in Chunks
      /\ \A i \in 1 .. n : name'[p[i]] = name[p[i]]
      /\ name'[k] = e
      /\ next'[k] = NoChunk
      /\ n > 0 => tail \in Chunks
      /\ \A i \in 1 .. n : next'[p[i]] = IF p[i] = tail THEN k ELSE next[p[i]]
  BY <1>1, <1>4, <1>5, <1>7
<1>9. CASE n = 0 \/ tail = p[n]
  BY <1>1, <1>2, <1>3, <1>9, ListJoins
<1>10. CASE n > 0 /\ tail # p[n]
  <2>1. \A i \in 1 .. n : p[i] # tail
    BY <1>4, <1>10
  <2>2. Chain(n, p, head', next')
    <3>1. p \in [1 .. n -> Chunks] /\ n # 0
      BY <1>4, <1>10
    <3> QED
      BY <1>4, <1>5, <1>8, <2>1, <3>1 DEF Chain
  <2>3. ~(list = "socket" /\ ~failed)
    BY <1>3, <1>10 DEF OneList, SocketList
  <2>4. OneList(n, p)'
    BY <1>1, <1>2, <1>4, <1>5, <1>8, <2>2, <2>3 DEF OneList
  <2> QED
    BY <1>6, <2>4 DEF ListInv
<1> QED
  BY <1>4, <1>9, <1>10

\* The facts about a list that the steps need.
LEMMA ListFacts ==
  ASSUME Chunked, ListInv, NEW n, NEW p, OneList(n, p)
  PROVE  /\ n \in Nat /\ n \in 0 .. Room /\ p \in [1 .. n -> live] /\ p \in [1 .. n -> Chunks]
         /\ \A i, j \in 1 .. n : p[i] = p[j] => i = j
         /\ \A i \in 1 .. n : p[i] \in live /\ p[i] \in Chunks /\ p[i] # NoChunk
         /\ head = IF n = 0 THEN NoChunk ELSE p[1]
         /\ \A i \in 1 .. n : next[p[i]] = IF i = n THEN NoChunk ELSE p[i + 1]
         /\ \A i \in 1 .. n : tail = p[i] => i = n
         /\ tail \in Chunks \cup {NoChunk}
         /\ next \in [Chunks -> Chunks \cup {NoChunk}]
<1>1. n \in Nat /\ n \in 0 .. Room
  BY RoomCounts DEF OneList, Chain
<1>2. \A i \in 1 .. n : p[i] \in live /\ p[i] \in Chunks /\ p[i] # NoChunk
  BY DEF OneList, Chain, Chunked
<1> QED
  BY <1>1, <1>2 DEF OneList, Chain, ListInv, ListTypes

\* NULL is linked behind the last chunk, where it is already.
LEMMA ListFails ==
  ASSUME Chunked, ListInv, NEW e \in ListNames, Lists!AddFails(e)
  PROVE  ListInv'
<1>1. PICK n, p : OneList(n, p)
  BY DEF ListInv
<1>2. /\ failed' = TRUE /\ held' = held \cup {e} /\ UNCHANGED <<list, head, name, live, faulted>>
      /\ head # NoChunk => tail # NoChunk
      /\ head = NoChunk => UNCHANGED <<tail, next>>
      /\ head # NoChunk => tail' = NoChunk /\ next' = [next EXCEPT ![tail] = NoChunk]
  BY DEF Lists!AddFails
<1>3. ListTypes'
  BY <1>2 DEF ListInv, ListTypes
<1>4. \A i \in 1 .. n : next'[p[i]] = next[p[i]]
  BY <1>1, <1>2, ListFacts
<1>5. Chain(n, p, head', next')
  BY <1>1, <1>2, <1>4, ListFacts DEF OneList, Chain
<1>6. \A i \in 1 .. n : tail' = p[i] => i = n
  BY <1>1, <1>2, ListFacts
<1>7. OneList(n, p)'
  BY <1>1, <1>2, <1>5, <1>6, ListFacts DEF OneList
<1> QED
  BY <1>3, <1>7 DEF ListInv

\* What is dereferenced is no list of sockets, unless malloc has failed.
LEMMA ListFaults ==
  ASSUME Chunked, ListInv, NEW e \in ListNames, Lists!AddFaults(e) \/ Lists!DeleteFaults(e)
  PROVE  ListInv'
<1>1. PICK n, p : OneList(n, p)
  BY DEF ListInv
<1>2. /\ faulted' = TRUE /\ UNCHANGED <<list, head, tail, next, name, live, held, failed>>
      /\ (head # NoChunk /\ tail = NoChunk) \/ list = "device"
  BY DEF Lists!AddFaults, Lists!DeleteFaults
<1>3. ListTypes'
  BY <1>2 DEF ListInv, ListTypes
<1>4. ~(list = "socket" /\ ~failed)
  <2>1. list = "socket" /\ ~failed => (n > 0 => tail = p[n])
    BY <1>1 DEF OneList, SocketList
  <2>2. n > 0 => p[n] # NoChunk
    BY <1>1, ListFacts
  <2>3. head # NoChunk => n > 0
    BY <1>1, ListFacts
  <2> QED
    BY <1>2, <2>1, <2>2, <2>3
<1>5. OneList(n, p)'
  BY <1>1, <1>2, <1>4 DEF OneList
<1> QED
  BY <1>3, <1>5 DEF ListInv

\* The chunk in place m is unlinked.
Dropped(n, p, m) == [i \in 1 .. n - 1 |-> IF i < m THEN p[i] ELSE p[i + 1]]

LEMMA ListDrops ==
  ASSUME Chunked, ListInv, NEW n, NEW p, OneList(n, p), NEW m \in 1 .. n,
         head' = IF m = 1 THEN next[head] ELSE head,
         next' = IF m = 1 THEN next ELSE [next EXCEPT ![p[m - 1]] = next[p[m]]],
         tail' = IF m > 1 /\ list = "socket" /\ tail = p[m] THEN p[m - 1] ELSE tail,
         live' = live \ {p[m]}, held' = held \ {name[p[m]]},
         UNCHANGED <<list, name, failed, faulted>>
  PROVE  ListInv' /\ OneList(n - 1, Dropped(n, p, m))'
<1> DEFINE q == Dropped(n, p, m)
<1>1. /\ n \in Nat /\ n > 0 /\ n \in 0 .. Room
      /\ \A i, j \in 1 .. n : p[i] = p[j] => i = j
      /\ \A i \in 1 .. n : p[i] \in live /\ p[i] \in Chunks /\ p[i] # NoChunk
      /\ head = p[1]
      /\ \A i \in 1 .. n : next[p[i]] = IF i = n THEN NoChunk ELSE p[i + 1]
      /\ \A i \in 1 .. n : tail = p[i] => i = n
      /\ next \in [Chunks -> Chunks \cup {NoChunk}]
  BY ListFacts
<1>2. ListTypes'
  <2>1. tail' \in Chunks \cup {NoChunk} /\ (tail' = NoChunk => tail = NoChunk)
    BY <1>1, ListFacts
  <2>2. head' \in Chunks \cup {NoChunk} /\ next' \in [Chunks -> Chunks \cup {NoChunk}]
    BY <1>1
  <2> QED
    BY <2>1, <2>2 DEF ListInv, ListTypes
<1>3. ASSUME NEW i \in 1 .. n - 1
      PROVE  /\ q[i] = IF i < m THEN p[i] ELSE p[i + 1]
             /\ i \in 1 .. n /\ i + 1 \in 1 .. n
             /\ q[i] \in live' /\ q[i] \in Chunks
  <2>1. q[i] = IF i < m THEN p[i] ELSE p[i + 1]
    BY DEF Dropped
  <2>2. i \in 1 .. n /\ i + 1 \in 1 .. n
    BY <1>1
  <2>3. i < m => p[i] # p[m]
    BY <1>1, <2>2
  <2>4. ~(i < m) => p[i + 1] # p[m]
    BY <1>1, <2>2
  <2> QED
    BY <1>1, <2>1, <2>2, <2>3, <2>4
<1>4. q \in [1 .. n - 1 -> live'] /\ q \in [1 .. n - 1 -> Chunks]
  <2>1. q = [i \in 1 .. n - 1 |-> q[i]]
    BY DEF Dropped
  <2> HIDE DEF q
  <2> QED
    BY <1>3, <2>1
<1> HIDE DEF q
<1>5. ASSUME NEW i \in 1 .. n - 1, NEW j \in 1 .. n - 1, q[i] = q[j]
      PROVE  i = j
  BY <1>1, <1>3, <1>5
<1>6. head' = IF n - 1 = 0 THEN NoChunk ELSE q[1]
  <2>1. CASE n = 1
    BY <1>1, <2>1
  <2>2. CASE n > 1
    BY <1>1, <1>3, <2>2
  <2> QED
    BY <1>1, <2>1, <2>2
<1>7. ASSUME NEW i \in 1 .. n - 1
      PROVE  next'[q[i]] = IF i = n - 1 THEN NoChunk ELSE q[i + 1]
  <2>1. CASE i < m - 1
    <3>1. q[i] = p[i] /\ q[i + 1] = p[i + 1] /\ i # n - 1 /\ i # n /\ i # m - 1
      BY <1>1, <1>3, <2>1
    <3>2. m - 1 \in 1 .. n /\ i \in 1 .. n /\ m # 1
      BY <1>1, <2>1
    <3>3. p[i] # p[m - 1]
      BY <1>1, <3>1, <3>2
    <3>4. next'[p[i]] = next[p[i]]
      BY <1>1, <3>2, <3>3
    <3> QED
      BY <1>1, <3>1, <3>2, <3>4
  <2>2. CASE i = m - 1
    <3>1. q[i] = p[m - 1] /\ m # 1 /\ next'[q[i]] = next[p[m]]
      BY <1>1, <1>3, <2>2
    <3>2. i # n - 1 => q[i + 1] = p[m + 1]
      BY <1>1, <1>3, <2>2
    <3> QED
      BY <1>1, <2>2, <3>1, <3>2
  <2>3. CASE i > m - 1
    <3>1. q[i] = p[i + 1] /\ i + 1 \in 1 .. n /\ (i # n - 1 => q[i + 1] = p[i + 2])
      BY <1>1, <1>3, <2>3
    <3>2. m # 1 => p[i + 1] # p[m - 1]
      BY <1>1, <2>3, <3>1
    <3>3. next'[p[i + 1]] = next[p[i + 1]]
      BY <1>1, <3>1, <3>2
    <3> QED
      BY <1>1, <3>1, <3>3
  <2>4. i < m - 1 \/ i = m - 1 \/ i > m - 1
    BY <1>1
  <2> QED
    BY <2>1, <2>2, <2>3, <2>4
<1>8. Chain(n - 1, q, head', next')
  <2>1. n - 1 \in 0 .. Room
    BY <1>1, RoomCounts
  <2>2. \A i, j \in 1 .. n - 1 : q[i] = q[j] => i = j
    BY <1>5
  <2>3. \A i \in 1 .. n - 1 : next'[q[i]] = IF i = n - 1 THEN NoChunk ELSE q[i + 1]
    BY <1>7
  <2> QED
    BY <1>4, <1>6, <2>1, <2>2, <2>3 DEF Chain
<1>9. ASSUME NEW i \in 1 .. n - 1, tail' = q[i]
      PROVE  i = n - 1
  <2>1. CASE m > 1 /\ list = "socket" /\ tail = p[m]
    BY <1>1, <1>3, <1>9, <2>1
  <2>2. CASE ~(m > 1 /\ list = "socket" /\ tail = p[m])
    BY <1>1, <1>3, <1>9, <2>2
  <2> QED
    BY <2>1, <2>2
<1>10. (list = "socket" /\ ~failed)' => SocketList(n - 1, q)'
  <2> SUFFICES ASSUME list = "socket", ~failed PROVE SocketList(n - 1, q)'
    OBVIOUS
  <2>1. SocketList(n, p)
    BY DEF OneList
  <2>2. /\ ~faulted /\ live = {p[i] : i \in 1 .. n} /\ tail = p[n]
        /\ held = {name[p[i]] : i \in 1 .. n}
        /\ \A i, j \in 1 .. n : name[p[i]] = name[p[j]] => i = j
    BY <1>1, <2>1 DEF SocketList
  <2>3. ASSUME NEW i \in 1 .. n, i # m
        PROVE  \E j \in 1 .. n - 1 : q[j] = p[i]
    <3>1. i < m => i \in 1 .. n - 1 /\ q[i] = p[i]
      BY <1>1, <1>3
    <3>2. i > m => i - 1 \in 1 .. n - 1 /\ q[i - 1] = p[i]
      BY <1>1, <1>3
    <3> QED
      BY <1>1, <2>3, <3>1, <3>2
  <2>4. \A j \in 1 .. n - 1 : \E i \in 1 .. n : i # m /\ q[j] = p[i]
    <3> SUFFICES ASSUME NEW j \in 1 .. n - 1 PROVE \E i \in 1 .. n : i # m /\ q[j] = p[i]
      OBVIOUS
    <3>1. j < m => j \in 1 .. n /\ q[j] = p[j]
      BY <1>1, <1>3
    <3>2. ~(j < m) => j + 1 \in 1 .. n /\ j + 1 # m /\ q[j] = p[j + 1]
      BY <1>1, <1>3
    <3> QED
      BY <1>1, <3>1, <3>2
  <2>5. live' = {q[i] : i \in 1 .. n - 1}
    <3>1. ASSUME NEW k \in live' PROVE k \in {q[i] : i \in 1 .. n - 1}
      <4>1. PICK i \in 1 .. n : k = p[i] /\ i # m
        BY <2>2, <3>1
      <4> QED
        BY <2>3, <4>1
    <3>2. \A i \in 1 .. n - 1 : q[i] \in live'
      BY <1>3
    <3> QED
      BY <3>1, <3>2
  <2>6. held' = {name'[q[i]] : i \in 1 .. n - 1}
    <3>1. ASSUME NEW x \in held' PROVE x \in {name[q[i]] : i \in 1 .. n - 1}
      <4>1. PICK i \in 1 .. n : x = name[p[i]] /\ i # m
        BY <2>2, <3>1
      <4> QED
        BY <2>3, <4>1
    <3>2. ASSUME NEW j \in 1 .. n - 1 PROVE name[q[j]] \in held'
      BY <2>2, <2>4
    <3> QED
      BY <3>1, <3>2
  <2>7. n - 1 > 0 => tail' = q[n - 1]
    BY <1>1, <1>3, <2>2
  <2>8. ASSUME NEW i \in 1 .. n - 1, NEW j \in 1 .. n - 1, name[q[i]] = name[q[j]]
        PROVE  i = j
    BY <1>1, <1>3, <2>2, <2>8
  <2> QED
    BY <2>2, <2>5, <2>6, <2>7, <2>8 DEF SocketList
<1>11. OneList(n - 1, q)'
  BY <1>4, <1>8, <1>9, <1>10 DEF OneList
<1> QED
  BY <1>2, <1>11 DEF ListInv, q

\* The chunk that is freed is the first of its name.
LEMMA DropsFirst ==
  ASSUME Chunked, ListInv, NEW n, NEW p, OneList(n, p), NEW e,
         Lists!DeleteHead(e) \/ Lists!DeleteInner(e), held' = held \ {e},
         UNCHANGED <<list, name, failed, faulted>>
  PROVE  \E m \in 1 .. n : /\ name[p[m]] = e
                           /\ live' = live \ {p[m]}
                           /\ ListInv' /\ OneList(n - 1, Dropped(n, p, m))'
<1>1. Lists!Found(e)
  BY DEF Lists!DeleteHead, Lists!DeleteInner
<1>2. Chain(n, p, head, next)
  BY DEF OneList
<1>3. n \in Nat /\ head = IF n = 0 THEN NoChunk ELSE p[1]
  BY ListFacts
<1>4. PICK m \in 1 .. n : m = Lists!First(e) + 1
  BY <1>1, <1>2, <1>3, FirstIsFound
<1>5. /\ name[p[m]] = e /\ Lists!At[Lists!First(e)] = p[m]
      /\ Lists!First(e) \in Nat /\ m - 1 = Lists!First(e)
      /\ Lists!First(e) > 0 => Lists!At[Lists!First(e) - 1] = p[m - 1]
  BY <1>1, <1>2, <1>3, <1>4, FirstIsFound
<1>6. CASE Lists!DeleteHead(e)
  <2>1. m = 1 /\ head' = next[head] /\ live' = live \ {p[m]} /\ UNCHANGED <<tail, next>>
    BY <1>3, <1>5, <1>6 DEF Lists!DeleteHead
  <2> QED
    BY <1>5, <2>1, ListDrops
<1>7. CASE Lists!DeleteInner(e)
  <2>1. /\ Lists!First(e) > 0 /\ m > 1 /\ m # 1
        /\ Lists!At[Lists!First(e) - 1] = p[m - 1]
    BY <1>5, <1>7 DEF Lists!DeleteInner
  <2>2. /\ UNCHANGED head /\ live' = live \ {p[m]}
        /\ tail' = IF list = "socket" /\ tail = p[m] THEN p[m - 1] ELSE tail
        /\ next' = [next EXCEPT ![p[m - 1]] = next[p[m]]]
    BY <1>5, <1>7, <2>1 DEF Lists!DeleteInner
  <2> QED
    BY <1>5, <2>1, <2>2, ListDrops
<1> QED
  BY <1>5, <1>6, <1>7

LEMMA ListDeletes ==
  ASSUME Chunked, ListInv, NEW e \in ListNames, Lists!Delete(e)
  PROVE  ListInv'
<1>1. PICK n, p : OneList(n, p)
  BY DEF ListInv
<1>2. /\ held' = held \ {e} /\ UNCHANGED <<list, name, failed, faulted>> /\ e \in held
      /\ Lists!DeleteHead(e) \/ Lists!DeleteInner(e) \/ Lists!DeleteMisses(e)
  BY DEF Lists!Delete
<1>3. CASE Lists!DeleteHead(e) \/ Lists!DeleteInner(e)
  BY <1>1, <1>2, <1>3, DropsFirst
<1>4. CASE Lists!DeleteMisses(e)
  <2>1. UNCHANGED <<head, tail, next, live>> /\ ~Lists!Found(e)
    BY <1>4 DEF Lists!DeleteMisses
  <2>2. Lists!Matches(e) = {i \in 0 .. n - 1 : name[p[i + 1]] = e} /\ n \in Nat
    <3>1. Chain(n, p, head, next) /\ n \in Nat
      BY <1>1, ListFacts DEF OneList
    <3> QED
      BY <3>1, ListReads
  <2>3. \A i \in 1 .. n : name[p[i]] # e
    <3> SUFFICES ASSUME NEW i \in 1 .. n PROVE name[p[i]] # e
      OBVIOUS
    <3>1. i - 1 \in 0 .. n - 1 /\ (i - 1) + 1 = i
      BY <2>2
    <3>2. Lists!Matches(e) = {}
      BY <2>1 DEF Lists!Found
    <3> QED
      BY <2>2, <3>1, <3>2
  <2>4. ~(list = "socket" /\ ~failed)
    BY <1>1, <1>2, <2>3 DEF OneList, SocketList
  <2>5. OneList(n, p)'
    BY <1>1, <1>2, <2>1, <2>4 DEF OneList
  <2>6. ListTypes'
    BY <1>2, <2>1 DEF ListInv, ListTypes
  <2> QED
    BY <2>5, <2>6 DEF ListInv
<1> QED
  BY <1>2, <1>3, <1>4

LEMMA ListStep ==
  ASSUME Chunked, ListInv, Lists!Next \/ UNCHANGED Lists!vars
  PROVE  ListInv'
<1>1. CASE UNCHANGED Lists!vars
  <2>1. PICK n, p : OneList(n, p)
    BY DEF ListInv
  <2>2. OneList(n, p)' /\ ListTypes'
    BY <1>1, <2>1 DEF Lists!vars, ListInv, ListTypes, OneList, SocketList
  <2> QED
    BY <2>2 DEF ListInv
<1> QED
  BY <1>1, ListAdds, ListFails, ListFaults, ListDeletes DEF Lists!Next

LEMMA ListMeans ==
  ASSUME Chunked, ListInv
  PROVE  /\ Lists!TypeOK /\ Lists!SearchIsSafe /\ Lists!NothingLeaks
         /\ Lists!SocketsAreFound
<1>1. PICK n, p : OneList(n, p)
  BY DEF ListInv
<1>2. Chain(n, p, head, next)
  BY <1>1 DEF OneList
<1>3. /\ \A i \in 0 .. Room : Lists!At[i] = IF i < n THEN p[i + 1] ELSE NoChunk
      /\ Lists!Linked = {p[i] : i \in 1 .. n}
      /\ \A e : Lists!Matches(e) = {i \in 0 .. n - 1 : name[p[i + 1]] = e}
  BY <1>2, ListReads
<1>4. /\ n \in Nat /\ n \in 0 .. Room /\ Room \in Nat /\ Lists!Cardinality(Chunks) = Room
      /\ \A i \in 1 .. n : p[i] \in live /\ p[i] \in Chunks
      /\ head = IF n = 0 THEN NoChunk ELSE p[1]
  BY <1>1, ListFacts, RoomCounts
<1>5. Lists!TypeOK
  BY <1>4 DEF ListInv, ListTypes, Lists!TypeOK
<1>6. Lists!SearchIsSafe
  BY <1>3, <1>4 DEF Lists!SearchIsSafe
<1>7. list = "socket" /\ ~failed => live = Lists!Linked /\ ~faulted
  BY <1>1, <1>3 DEF OneList, SocketList
<1>8. ASSUME list = "socket", ~failed, NEW e \in held
      PROVE  Lists!Found(e)
  <2>1. PICK i \in 1 .. n : e = name[p[i]]
    BY <1>1, <1>8 DEF OneList, SocketList
  <2>2. i - 1 \in 0 .. n - 1 /\ (i - 1) + 1 = i
    BY <1>4
  <2> QED
    BY <1>3, <2>1, <2>2 DEF Lists!Found
<1> QED
  BY <1>5, <1>6, <1>7, <1>8 DEF Lists!NothingLeaks, Lists!SocketsAreFound, Lists!AllFound

\* What the service has: the names, from the head on.
Read(n, p, nm) == [i \in 1 .. n |-> nm[p[i]]]

LEMMA ChainCounts ==
  ASSUME Chunked, NEW n, NEW p, NEW h, NEW nx, Chain(n, p, h, nx)
  PROVE  Cardinality({Along(h, nx)[i] : i \in 0 .. Room - 1} \ {NoChunk}) = n
<1> DEFINE a == Along(h, nx)
           S == {a[i] : i \in 0 .. Room - 1} \ {NoChunk}
<1>1. Room \in Nat /\ n \in 0 .. Room
  BY RoomCounts DEF Chain
<1>2. \A i \in 0 .. Room : a[i] = IF i < n THEN p[i + 1] ELSE NoChunk
  BY ChainIsWalked
<1>3. \A i \in 1 .. n : p[i] # NoChunk
  BY DEF Chain, Chunked
<1> HIDE DEF a
<1>4. \A i \in 1 .. n : i - 1 \in 0 .. Room - 1 /\ a[i - 1] = p[i]
  BY <1>1, <1>2
<1>5. \A i \in 1 .. n : p[i] \in S
  BY <1>3, <1>4
<1>6. ASSUME NEW k \in S PROVE \E i \in 1 .. n : p[i] = k
  <2>1. PICK i \in 0 .. Room - 1 : k = a[i] /\ k # NoChunk
    BY <1>6
  <2>2. i < n /\ i + 1 \in 1 .. n /\ k = p[i + 1]
    BY <1>1, <1>2, <2>1
  <2> QED
    BY <2>2
<1> HIDE DEF S
<1>7. p = [i \in 1 .. n |-> p[i]] /\ \A i, j \in 1 .. n : p[i] = p[j] => i = j
  BY DEF Chain
<1>8. p \in [1 .. n -> S]
  BY <1>5, <1>7
<1>9. p \in Bijection(1 .. n, S)
  BY <1>6, <1>7, <1>8 DEF Bijection, Injection, IsInjective, Surjection
<1>10. IsFiniteSet(1 .. n) /\ Cardinality(1 .. n) = n
  BY <1>1, FS_Interval
<1>11. Cardinality(S) = n
  BY <1>9, <1>10, FS_Bijection DEF ExistsBijection
<1> QED
  BY <1>11 DEF a, S

LEMMA ListedNow ==
  ASSUME Chunked, NEW n, NEW p, Chain(n, p, head, next)
  PROVE  Lists!Listed = Read(n, p, name)
<1>1. Lists!Cardinality(Chunks) = Room
  BY RoomCounts
<1>2. Lists!At = Along(head, next)
  BY <1>1 DEF Lists!At, Along
<1> DEFINE S == {Along(head, next)[i] : i \in 0 .. Room - 1} \ {NoChunk}
<1>3. Lists!Linked = S
  BY <1>1, <1>2 DEF Lists!Linked, Lists!Hops
<1>4. Lists!Cardinality(Lists!Linked) = Cardinality(Lists!Linked)
  BY DEF Lists!Cardinality, Cardinality
<1>5. Lists!Cardinality(Lists!Linked) = n
  <2>1. Cardinality(S) = n
    BY ChainCounts
  <2> HIDE DEF S
  <2> QED
    BY <1>3, <1>4, <2>1
<1>6. \A i \in 1 .. n : Lists!At[i - 1] = p[i]
  <2>1. \A i \in 0 .. Room : Along(head, next)[i] = IF i < n THEN p[i + 1] ELSE NoChunk
    BY ChainIsWalked
  <2>2. Room \in Nat /\ n \in 0 .. Room
    BY RoomCounts DEF Chain
  <2> QED
    BY <1>2, <2>1, <2>2
<1> QED
  BY <1>5, <1>6 DEF Lists!Listed, Read

LEMMA ListedThen ==
  ASSUME Chunked, NEW n, NEW p, Chain(n, p, head', next')
  PROVE  Lists!Listed' = Read(n, p, name')
<1>1. Lists!Cardinality(Chunks) = Room
  BY RoomCounts
<1>2. Lists!At' = Along(head', next')
  BY <1>1 DEF Lists!At, Along
<1> DEFINE S == {Along(head', next')[i] : i \in 0 .. Room - 1} \ {NoChunk}
<1>3. Lists!Linked' = S
  BY <1>1, <1>2 DEF Lists!Linked, Lists!Hops
<1>4. Lists!Cardinality(Lists!Linked') = Cardinality(Lists!Linked')
  BY DEF Lists!Cardinality, Cardinality
<1>5. Lists!Cardinality(Lists!Linked') = n
  <2>1. Cardinality(S) = n
    BY ChainCounts
  <2> HIDE DEF S
  <2> QED
    BY <1>3, <1>4, <2>1
<1>6. \A i \in 1 .. n : Lists!At'[i - 1] = p[i]
  <2>1. \A i \in 0 .. Room : Along(head', next')[i] = IF i < n THEN p[i + 1] ELSE NoChunk
    BY ChainIsWalked
  <2>2. Room \in Nat /\ n \in 0 .. Room
    BY RoomCounts DEF Chain
  <2> QED
    BY <1>2, <2>1, <2>2
<1> QED
  BY <1>5, <1>6 DEF Lists!Listed, Read

\* The name that was dropped is read no more.
LEMMA ReadDropped ==
  ASSUME NEW n \in Nat, NEW p, NEW nm, NEW m \in 1 .. n
  PROVE  LET s == Read(n, p, nm) IN
         Read(n - 1, Dropped(n, p, m), nm) = SubSeq(s, 1, m - 1) \o SubSeq(s, m + 1, Len(s))
<1> DEFINE s == Read(n, p, nm)
           d == Read(n - 1, Dropped(n, p, m), nm)
           a == SubSeq(s, 1, m - 1)
           b == SubSeq(s, m + 1, Len(s))
           V == {nm[p[i]] : i \in 1 .. n}
<1>1. s \in Seq(V) /\ Len(s) = n /\ \A i \in 1 .. n : s[i] = nm[p[i]]
  BY DEF Read
<1>2. d \in Seq(V) /\ Len(d) = n - 1
      /\ \A i \in 1 .. n - 1 : d[i] = IF i < m THEN s[i] ELSE s[i + 1]
  BY DEF Read, Dropped
<1> HIDE DEF s, d
<1>3. /\ a \in Seq(V) /\ Len(a) = m - 1 /\ \A i \in 1 .. m - 1 : a[i] = s[i]
      /\ b \in Seq(V) /\ Len(b) = n - m /\ \A i \in 1 .. n - m : b[i] = s[m + i]
  BY <1>1
<1> HIDE DEF a, b, V
<1>4. a \o b \in Seq(V) /\ Len(a \o b) = n - 1
      /\ \A i \in 1 .. n - 1 : (a \o b)[i] = IF i < m THEN s[i] ELSE s[i + 1]
  <2>1. a \in Seq(V) /\ b \in Seq(V)
    BY <1>3
  <2>2. /\ a \o b \in Seq(V) /\ Len(a \o b) = Len(a) + Len(b)
        /\ \A i \in 1 .. Len(a) + Len(b) :
             (a \o b)[i] = IF i <= Len(a) THEN a[i] ELSE b[i - Len(a)]
    BY <2>1, ConcatProperties
  <2>3. Len(a) + Len(b) = n - 1
    BY <1>3
  <2>4. ASSUME NEW i \in 1 .. n - 1
        PROVE  (a \o b)[i] = IF i < m THEN s[i] ELSE s[i + 1]
    <3>1. (a \o b)[i] = IF i <= m - 1 THEN a[i] ELSE b[i - (m - 1)]
      BY <1>3, <2>2, <2>3
    <3>2. CASE i < m
      <4>1. i \in 1 .. m - 1
        BY <3>2
      <4> QED
        BY <1>3, <3>1, <3>2, <4>1
    <3>3. CASE ~(i < m)
      <4>1. i - (m - 1) \in 1 .. n - m /\ m + (i - (m - 1)) = i + 1 /\ ~(i <= m - 1)
        BY <3>3
      <4> QED
        BY <1>3, <3>1, <3>3, <4>1
    <3> QED
      BY <3>2, <3>3
  <2> QED
    BY <2>2, <2>3, <2>4
<1>5. d = a \o b
  BY <1>2, <1>4, SeqEqual
<1> QED
  BY <1>5 DEF s, d, a, b

\* A step of the list of sockets is one of the service, until malloc fails.
LEMMA ListServes ==
  ASSUME Chunked, ListInv, Lists!Next \/ UNCHANGED Lists!vars, list = "socket", ~failed'
  PROVE  Lists!Service!Next \/ UNCHANGED Lists!Listed
<1>1. PICK n, p : OneList(n, p)
  BY DEF ListInv
<1>2. Chain(n, p, head, next) /\ n \in Nat
  BY <1>1, ListFacts DEF OneList
<1>3. Lists!Listed = Read(n, p, name)
  BY <1>2, ListedNow
<1>4. CASE UNCHANGED <<head, next, name>>
  <2>1. Chain(n, p, head', next')
    BY <1>2, <1>4 DEF Chain
  <2>2. Lists!Listed' = Read(n, p, name')
    BY <2>1, ListedThen
  <2> QED
    BY <1>3, <1>4, <2>2
<1>5. ASSUME NEW e \in ListNames, Lists!Add(e) PROVE Lists!Service!Next
  <2>1. PICK k \in Chunks \ live : /\ Lists!AddBoth(e, k)
                                   /\ name' = [name EXCEPT ![k] = e]
                                   /\ live' = live \cup {k}
    BY <1>5 DEF Lists!Add
  <2>2. /\ e \notin held /\ held' = held \cup {e} /\ ~faulted
        /\ UNCHANGED <<list, failed, faulted>>
    BY <1>5 DEF Lists!Add
  <2>3. SocketList(n, p)
    BY <1>1, <2>2 DEF OneList
  <2>4. n = 0 \/ tail = p[n]
    BY <1>2, <2>3 DEF SocketList
  <2>5. OneList(n + 1, Joined(n, p, k))'
    BY <1>1, <2>1, <2>2, <2>4, ListJoins
  <2>6. Chain(n + 1, Joined(n, p, k), head', next')
    BY <2>5 DEF OneList
  <2>7. Lists!Listed' = Read(n + 1, Joined(n, p, k), name')
    BY <2>6, ListedThen
  <2>8. name \in [Chunks -> ListNames] /\ name'[k] = e
    BY <2>1 DEF ListInv, ListTypes
  <2>9. Read(n, p, name') = Read(n, p, name)
    <3>1. \A i \in 1 .. n : p[i] \in Chunks /\ p[i] # k
      BY <1>1, <2>1, ListFacts
    <3>2. \A i \in 1 .. n : name'[p[i]] = name[p[i]]
      BY <2>1, <2>8, <3>1
    <3> QED
      BY <3>2 DEF Read
  <2>10. Lists!Listed' = Append(Lists!Listed, e)
    <3>1. n \in Nat
      BY <1>2
    <3>2. Read(n + 1, Joined(n, p, k), name') = Append(Read(n, p, name'), name'[k])
      BY <3>1 DEF Read, Joined
    <3> QED
      BY <1>3, <2>7, <2>8, <2>9, <3>2
  <2>11. \A i \in 1 .. n : name[p[i]] # e
    BY <2>2, <2>3 DEF SocketList
  <2>12. e \notin Lists!Service!Range(Lists!Listed)
    BY <1>2, <1>3, <2>11 DEF Lists!Service!Range, Read
  <2> QED
    BY <2>10, <2>12 DEF Lists!Service!Next, Lists!Service!Add
<1>6. ASSUME NEW e \in ListNames, Lists!Delete(e) PROVE Lists!Service!Next
  <2>1. /\ held' = held \ {e} /\ UNCHANGED <<list, name, failed, faulted>> /\ e \in held
        /\ Lists!DeleteHead(e) \/ Lists!DeleteInner(e) \/ Lists!DeleteMisses(e)
    BY <1>6 DEF Lists!Delete
  <2>2. Lists!Found(e)
    BY <2>1, ListMeans DEF Lists!SocketsAreFound, Lists!AllFound
  <2>3. Lists!DeleteHead(e) \/ Lists!DeleteInner(e)
    BY <2>1, <2>2 DEF Lists!DeleteMisses
  <2>4. PICK m \in 1 .. n : name[p[m]] = e /\ OneList(n - 1, Dropped(n, p, m))'
    BY <1>1, <2>1, <2>3, DropsFirst
  <2>5. Chain(n - 1, Dropped(n, p, m), head', next')
    BY <2>4 DEF OneList
  <2>6. Lists!Listed' = Read(n - 1, Dropped(n, p, m), name)
    BY <2>1, <2>5, ListedThen
  <2>7. /\ Lists!Listed' = SubSeq(Lists!Listed, 1, m - 1)
                             \o SubSeq(Lists!Listed, m + 1, Len(Lists!Listed))
        /\ m \in DOMAIN Lists!Listed /\ Lists!Listed[m] = e
    <3>1. m \in DOMAIN Read(n, p, name) /\ Read(n, p, name)[m] = e
      BY <2>4 DEF Read
    <3> QED
      BY <1>2, <1>3, <2>6, <3>1, ReadDropped
  <2> QED
    BY <2>7 DEF Lists!Service!Next, Lists!Service!Delete, Lists!Service!RemoveAt
<1>7. ASSUME NEW e \in ListNames, Lists!AddFaults(e) \/ Lists!DeleteFaults(e)
      PROVE  UNCHANGED <<head, next, name>>
  BY <1>7 DEF Lists!AddFaults, Lists!DeleteFaults
<1>8. \A e \in ListNames : ~Lists!AddFails(e)
  BY DEF Lists!AddFails
<1>9. UNCHANGED Lists!vars => UNCHANGED <<head, next, name>>
  BY DEF Lists!vars
<1> QED
  BY <1>4, <1>5, <1>6, <1>7, <1>8, <1>9 DEF Lists!Next

-----------------------------------------------------------------------------
(* The composed program                                                      *)

\* A step of the program is one of its component, or leaves it alone.
LEMMA StepOfMgmt ==
  ASSUME [ProgramNext]_programVars
  PROVE  [Mgmt!Next]_(Mgmt!vars)
<1>1. CASE ProgramNext /\ part = "mgmt"
  BY <1>1 DEF ProgramNext
<1>2. CASE ProgramNext /\ part # "mgmt"
  BY <1>2 DEF ProgramNext, mgmtVars, Mgmt!vars, Mgmt!queues, Mgmt!threads, Mgmt!shared
<1>3. CASE UNCHANGED programVars
  BY <1>3 DEF programVars, mgmtVars, Mgmt!vars, Mgmt!queues, Mgmt!threads, Mgmt!shared
<1> QED
  BY <1>1, <1>2, <1>3

LEMMA StepOfFronts ==
  ASSUME [ProgramNext]_programVars
  PROVE  Fronts!Next \/ UNCHANGED Fronts!vars
<1>1. CASE ProgramNext /\ part = "fronts"
  BY <1>1 DEF ProgramNext
<1>2. CASE ProgramNext /\ part # "fronts"
  BY <1>2 DEF ProgramNext, frontVars, Fronts!vars
<1>3. CASE UNCHANGED programVars
  BY <1>3 DEF programVars, frontVars, Fronts!vars
<1> QED
  BY <1>1, <1>2, <1>3

LEMMA StepOfFile ==
  ASSUME [ProgramNext]_programVars
  PROVE  File!Next \/ UNCHANGED File!vars
<1>1. CASE ProgramNext /\ part = "file"
  BY <1>1 DEF ProgramNext
<1>2. CASE ProgramNext /\ part # "file"
  BY <1>2 DEF ProgramNext, fileVars, File!vars
<1>3. CASE UNCHANGED programVars
  BY <1>3 DEF programVars, fileVars, File!vars
<1> QED
  BY <1>1, <1>2, <1>3

LEMMA StepOfLwip ==
  ASSUME [ProgramNext]_programVars
  PROVE  Lwip!Next \/ UNCHANGED Lwip!vars
<1>1. CASE ProgramNext /\ part = "lwip"
  BY <1>1 DEF ProgramNext
<1>2. CASE ProgramNext /\ part # "lwip"
  BY <1>2 DEF ProgramNext, lwipVars, Lwip!vars
<1>3. CASE UNCHANGED programVars
  BY <1>3 DEF programVars, lwipVars, Lwip!vars
<1> QED
  BY <1>1, <1>2, <1>3

LEMMA StepOfBoxes ==
  ASSUME [ProgramNext]_programVars
  PROVE  Boxes!Next \/ UNCHANGED Boxes!vars
<1>1. CASE ProgramNext /\ part = "boxes"
  BY <1>1 DEF ProgramNext
<1>2. CASE ProgramNext /\ part # "boxes"
  BY <1>2 DEF ProgramNext, boxVars, Boxes!vars
<1>3. CASE UNCHANGED programVars
  BY <1>3 DEF programVars, boxVars, Boxes!vars
<1> QED
  BY <1>1, <1>2, <1>3

\* Whatever two threads write, when none is inside get_response nothing is left
\* on the socket to the switch that they share (management.py).
THEOREM ChannelIsQuiet == ProgramSpec => []QuietChannel
<1>1. ProgramInit => Mgmt!Init
  BY DEF ProgramInit
<1>2. [ProgramNext]_programVars => [Mgmt!Next]_(Mgmt!vars)
  BY StepOfMgmt
<1>3. Mgmt!Spec => []Mgmt!QuietChannel
  BY Mgmt!ChannelGoesQuiet
<1>4. Mgmt!QuietChannel => QuietChannel
  BY DEF QuietChannel
<1> QED
  BY <1>1, <1>2, <1>3, <1>4, PTL DEF ProgramSpec, Mgmt!Spec

\* The two histories keep the order of every call, whoever else calls
\* (management.py).
THEOREM HistoryIsOrdered == ProgramSpec => []HistoryInOrder
<1>1. ProgramInit => Mgmt!Init
  BY DEF ProgramInit
<1>2. [ProgramNext]_programVars => [Mgmt!Next]_(Mgmt!vars)
  BY StepOfMgmt
<1>3. Mgmt!Spec => []Mgmt!HistoryInOrder
  BY Mgmt!HistoriesAreOrdered
<1>4. Mgmt!HistoryInOrder => HistoryInOrder
  BY DEF HistoryInOrder
<1> QED
  BY <1>1, <1>2, <1>3, <1>4, PTL DEF ProgramSpec, Mgmt!Spec

\* No connection uses the login of another that had its place before, whoever
\* connects to either stack (telnet.py, web.py).
THEOREM NoLoginInProgram ==
  ASSUME Distinct
  PROVE  ProgramSpec => []OnlyAuthenticated
<1>1. ProgramInit => FrontInv
  BY FrontInitially DEF ProgramInit
<1>2. FrontInv /\ [ProgramNext]_programVars => FrontInv'
  BY StepOfFronts, FrontStep
<1>3. FrontInv => OnlyAuthenticated
  BY FrontMeans DEF OnlyAuthenticated
<1> QED
  BY <1>1, <1>2, <1>3, PTL DEF ProgramSpec

\* A listener has a thread that accepts, and what the front ends share is given
\* back only when the last of them has ended, if each of them could be started
\* (telnet.py, bin/pyvdetelweb).
THEOREM ThreadsAreServed ==
  ASSUME Distinct
  PROVE  ProgramSpec => []ThreadsKeepTheirs
<1>1. ProgramInit => FrontInv
  BY FrontInitially DEF ProgramInit
<1>2. FrontInv /\ [ProgramNext]_programVars => FrontInv'
  BY StepOfFronts, FrontStep
<1>3. FrontInv => ThreadsKeepTheirs
  BY FrontMeans DEF ThreadsKeepTheirs
<1> QED
  BY <1>1, <1>2, <1>3, PTL DEF ProgramSpec

\* For every stream, every cut of it by recv(), every size asked for and every
\* place of a newline: what read and readline return is the stream, and what is
\* written is sent (socket.py).
THEOREM StreamIsKept ==
  ASSUME Parameters
  PROVE  ProgramSpec => []StreamKept
<1>1. ProgramInit => FileInv
  BY FileInit DEF ProgramInit
<1>2. FileInv /\ [ProgramNext]_programVars => FileInv'
  BY StepOfFile, FileStep
<1>3. FileInv => StreamKept
  BY DEF FileInv, ReadInv, WriteInv, StreamKept
<1> QED
  BY <1>1, <1>2, <1>3, PTL DEF ProgramSpec

\* With one thread that opens sockets of LWIPv6, whatever their number, and with
\* every number of names and sockets of picoTCP: who has a socket has its own,
\* and nothing of a socket outlives it (lwipv6adapter.py, picotcpadapter.py).
THEOREM SocketsAreOwned ==
  ASSUME NEW t, Sole(t), Known
  PROVE  ProgramSpec => []OwnSocket
<1>1. ProgramInit => SoleInv(t) /\ BoxInv
  BY LwipInit, BoxInitially DEF ProgramInit
<1>2. SoleInv(t) /\ [ProgramNext]_programVars => SoleInv(t)'
  BY StepOfLwip, LwipStep
<1>3. BoxInv /\ [ProgramNext]_programVars => BoxInv'
  BY StepOfBoxes, BoxStep
<1>4. SoleInv(t) /\ BoxInv => OwnSocket
  BY SoleInvSuffices, BoxInvSuffices DEF OwnSocket
<1> QED
  BY <1>1, <1>2, <1>3, <1>4, PTL DEF ProgramSpec

LEMMA StepOfLists ==
  ASSUME [ProgramNext]_programVars
  PROVE  Lists!Next \/ UNCHANGED Lists!vars
<1>1. CASE ProgramNext /\ part = "lists"
  BY <1>1 DEF ProgramNext
<1>2. CASE ProgramNext /\ part # "lists"
  BY <1>2 DEF ProgramNext, listVars, Lists!vars
<1>3. CASE UNCHANGED programVars
  BY <1>3 DEF programVars, listVars, Lists!vars
<1> QED
  BY <1>1, <1>2, <1>3

\* However names are added and deleted, chunks reused and malloc fails: no search of a
\* list reads a freed chunk, and every search ends; until malloc fails, no chunk of the
\* list of sockets is lost and NULL is not dereferenced (pycoutils.c).
THEOREM SearchesAreSafe ==
  ASSUME Chunked
  PROVE  ProgramSpec => []ListsAreSafe
<1>1. ProgramInit => ListInv
  BY ListInitially DEF ProgramInit
<1>2. ListInv /\ [ProgramNext]_programVars => ListInv'
  BY StepOfLists, ListStep
<1>3. ListInv => ListsAreSafe
  BY ListMeans DEF ListsAreSafe
<1> QED
  BY <1>1, <1>2, <1>3, PTL DEF ProgramSpec

\* Until malloc fails, a socket that was added and not deleted is found.
THEOREM AddedIsFound ==
  ASSUME Chunked
  PROVE  ProgramSpec => []SocketsAreFound
<1>1. ProgramInit => ListInv
  BY ListInitially DEF ProgramInit
<1>2. ListInv /\ [ProgramNext]_programVars => ListInv'
  BY StepOfLists, ListStep
<1>3. ListInv => SocketsAreFound
  BY ListMeans DEF SocketsAreFound
<1> QED
  BY <1>1, <1>2, <1>3, PTL DEF ProgramSpec

\* The list of sockets of pycoutils.c is a plain list until malloc fails: the names that
\* are read from its head on are those added and not deleted, in their order.
THEOREM SocketListIsAList ==
  ASSUME Chunked
  PROVE  ProgramSpec => ImplementsList
<1>1. ProgramInit => ListInv /\ Lists!Service!Init
  <2> SUFFICES ASSUME ProgramInit PROVE ListInv /\ Lists!Service!Init
    OBVIOUS
  <2>1. ListInv
    BY ListInitially DEF ProgramInit
  <2>2. PICK n, p : OneList(n, p)
    BY <2>1 DEF ListInv
  <2>3. Chain(n, p, head, next) /\ n \in Nat
    BY <2>1, <2>2, ListFacts DEF OneList
  <2>4. head = NoChunk
    BY DEF ProgramInit, Lists!Init
  <2>5. n = 0
    BY <2>3, <2>4 DEF Chain, Chunked
  <2>6. Lists!Listed = Read(n, p, name)
    BY <2>3, ListedNow
  <2>7. Lists!Listed = <<>>
    BY <2>5, <2>6 DEF Read
  <2> QED
    BY <2>1, <2>7 DEF Lists!Service!Init
<1>2. ListInv /\ [ProgramNext]_programVars => ListInv'
  BY StepOfLists, ListStep
<1>3. ListInv /\ [ProgramNext]_programVars
        => [list = "socket" /\ ~failed' => Lists!Service!Next]_(Lists!Listed)
  BY StepOfLists, ListServes
<1> QED
  BY <1>1, <1>2, <1>3, PTL DEF ProgramSpec, ImplementsList, Lists!ImplementsList
=============================================================================
