--------------------------- MODULE Progress_proofs --------------------------
(***************************************************************************)
(* Proofs about MCProgress: the invariants of the translation, of pings,   *)
(* of the scores, of the handler, of the readers of LWIPv6, and those of   *)
(* the containers of the stack, its heap of timers, its queues and its     *)
(* trees, hold for every value of the constants, and so in the composition.*)
(***************************************************************************)
EXTENDS MCProgress, FiniteSetTheorems, SequenceTheorems,
        WellFoundedInduction, TLAPS

-----------------------------------------------------------------------------
(* Nat: the two tables of the translation agree, for any set of inner      *)
(* endpoints, any ports and any number of clean-up timers.                 *)

Tuples == [port : Nat, active : Nat, forward : BOOLEAN,
           ended : BOOLEAN, finIn : BOOLEAN, finOut : BOOLEAN]

\* An endpoint has its protocol in its second place; port 0 is the port of no
\* tuple.
Endpoints == /\ \A k \in Keys : k[2] \in Translation!Protocols
             /\ Translation!Nobody \notin Keys
             /\ NatPorts \subseteq Nat \ {0}

LEMMA SniffedIsTuple ==
  ASSUME NEW t \in Tuples, NEW proto, NEW flag, NEW dir
  PROVE  Translation!Sniffed(t, proto, flag, dir) \in Tuples /\ Translation!Sniffed(t, proto, flag, dir).port = t.port
BY DEF Translation!Sniffed, Tuples

LEMMA OlderIsTuple ==
  ASSUME NEW k, NEW t \in Tuples
  PROVE  Translation!Older(k, t) \in Tuples /\ Translation!Older(k, t).port = t.port
BY DEF Translation!Older, Tuples

LEMMA NewIsTuple ==
  ASSUME NEW port \in Nat, NEW forward \in BOOLEAN
  PROVE  Translation!Tuple(port, forward) \in Tuples /\ Translation!Tuple(port, forward).port = port
BY DEF Translation!Tuple, Translation!NoTuple, Tuples

Tables == /\ natOut \in [Keys -> Tuples]
          /\ natIn \in [NatPorts \X Translation!Protocols -> Keys \cup {Translation!Nobody}]

\* Every tuple has its entry in the other table, and every entry its tuple.
Paired ==
  /\ \A k \in Keys : natOut[k].port # 0 =>
       natOut[k].port \in NatPorts /\ natIn[<<natOut[k].port, k[2]>>] = k
  /\ \A port \in NatPorts, proto \in Translation!Protocols : natIn[<<port, proto>>] # Translation!Nobody =>
       /\ natOut[natIn[<<port, proto>>]].port = port
       /\ natIn[<<port, proto>>][2] = proto

NatInv == Tables /\ Paired

LEMMA InitPaired ==
  ASSUME Endpoints, Translation!Init
  PROVE  NatInv
<1>1. Translation!NoTuple \in Tuples /\ Translation!NoTuple.port = 0
  BY DEF Translation!NoTuple, Tuples
<1>2. Tables
  BY <1>1 DEF Translation!Init, Tables
<1>3. Paired
  BY <1>1 DEF Translation!Init, Paired
<1> QED
  BY <1>2, <1>3 DEF NatInv

\* A tuple that changes and keeps its port disturbs nothing.
LEMMA ChangeKeepsPaired ==
  ASSUME Endpoints, NatInv, NEW k \in Keys, NEW t \in Tuples, t.port = natOut[k].port,
         natOut' = [natOut EXCEPT ![k] = t], natIn' = natIn
  PROVE  NatInv'
<1>1. \A l \in Keys : natOut'[l].port = natOut[l].port
  BY DEF NatInv, Tables
<1>2. Tables'
  BY DEF NatInv, Tables
<1>3. Paired'
  BY <1>1 DEF NatInv, Tables, Paired
<1> QED
  BY <1>2, <1>3 DEF NatInv

\* pico_ipv4_nat_add: the endpoint had no tuple and the port no endpoint.
LEMMA AddKeepsPaired ==
  ASSUME Endpoints, NatInv, NEW k \in Keys, NEW port \in NatPorts, NEW t \in Tuples,
         t.port = port, Translation!CanAdd(k, port),
         natOut' = [natOut EXCEPT ![k] = t],
         natIn' = [natIn EXCEPT ![<<port, k[2]>>] = k]
  PROVE  NatInv'
<1>1. k[2] \in Translation!Protocols /\ port # 0 /\ k # Translation!Nobody
  BY DEF Endpoints
<1>2. natOut[k].port = 0 /\ natIn[<<port, k[2]>>] = Translation!Nobody
  BY DEF Translation!CanAdd, Translation!NoTuple
<1>3. Tables'
  BY <1>1 DEF NatInv, Tables
<1>4. ASSUME NEW l \in Keys, natOut'[l].port # 0
      PROVE  natOut'[l].port \in NatPorts /\ natIn'[<<natOut'[l].port, l[2]>>] = l
  <2>1. CASE l = k
    BY <2>1, <1>1 DEF NatInv, Tables
  <2>2. CASE l # k
    <3>1. natOut'[l] = natOut[l]
      BY <2>2 DEF NatInv, Tables
    <3>2. natOut[l].port \in NatPorts /\ natIn[<<natOut[l].port, l[2]>>] = l
      BY <3>1, <1>4 DEF NatInv, Paired
    <3>3. l # Translation!Nobody /\ l[2] \in Translation!Protocols
      BY DEF Endpoints
    <3>4. <<natOut[l].port, l[2]>> # <<port, k[2]>>
      BY <1>2, <3>2, <3>3
    <3> QED
      BY <3>1, <3>2, <3>3, <3>4, <1>1 DEF NatInv, Tables
  <2> QED
    BY <2>1, <2>2
<1>5. ASSUME NEW q \in NatPorts, NEW proto \in Translation!Protocols, natIn'[<<q, proto>>] # Translation!Nobody
      PROVE  /\ natOut'[natIn'[<<q, proto>>]].port = q
             /\ natIn'[<<q, proto>>][2] = proto
  <2>1. CASE q = port /\ proto = k[2]
    BY <2>1, <1>1 DEF NatInv, Tables
  <2>2. CASE ~(q = port /\ proto = k[2])
    <3>1. natIn'[<<q, proto>>] = natIn[<<q, proto>>]
      BY <2>2, <1>1 DEF NatInv, Tables
    <3>2. /\ natIn[<<q, proto>>] \in Keys
          /\ natOut[natIn[<<q, proto>>]].port = q /\ natIn[<<q, proto>>][2] = proto
      BY <3>1, <1>5 DEF NatInv, Tables, Paired
    <3>3. natIn[<<q, proto>>] # k
      BY <3>2, <1>2 DEF Endpoints
    <3> QED
      BY <3>1, <3>2, <3>3 DEF NatInv, Tables
  <2> QED
    BY <2>1, <2>2
<1>6. Paired'
  BY <1>4, <1>5 DEF Paired
<1> QED
  BY <1>3, <1>6 DEF NatInv

\* pico_ipv4_nat_del: a tuple leaves both tables; the others keep their ports.
LEMMA DeleteKeepsPaired ==
  ASSUME Endpoints, NatInv, NEW gone \in SUBSET Keys, NEW others \in [Keys -> Tuples],
         \A k \in Keys : others[k].port = natOut[k].port,
         Translation!Delete(gone, others)
  PROVE  NatInv'
<1>1. Translation!NoTuple \in Tuples /\ Translation!NoTuple.port = 0
  BY DEF Translation!NoTuple, Tuples
<1>2. natOut' = [k \in Keys |-> IF k \in gone THEN Translation!NoTuple ELSE others[k]]
  BY DEF Translation!Delete
<1>3. natIn' = [p \in NatPorts \X Translation!Protocols |-> IF natIn[p] \in gone THEN Translation!Nobody ELSE natIn[p]]
  BY DEF Translation!Delete, Translation!InWithout, NatInv, Tables
<1>4. Tables'
  BY <1>1, <1>2, <1>3 DEF NatInv, Tables
<1>5. ASSUME NEW l \in Keys, natOut'[l].port # 0
      PROVE  natOut'[l].port \in NatPorts /\ natIn'[<<natOut'[l].port, l[2]>>] = l
  <2>1. l \notin gone /\ natOut'[l].port = natOut[l].port
    BY <1>1, <1>2, <1>5
  <2>2. natOut[l].port \in NatPorts /\ natIn[<<natOut[l].port, l[2]>>] = l
    BY <2>1, <1>5 DEF NatInv, Paired
  <2>3. l[2] \in Translation!Protocols
    BY DEF Endpoints
  <2> QED
    BY <2>1, <2>2, <2>3, <1>3
<1>6. ASSUME NEW q \in NatPorts, NEW proto \in Translation!Protocols, natIn'[<<q, proto>>] # Translation!Nobody
      PROVE  /\ natOut'[natIn'[<<q, proto>>]].port = q
             /\ natIn'[<<q, proto>>][2] = proto
  <2>1. natIn'[<<q, proto>>] = natIn[<<q, proto>>] /\ natIn[<<q, proto>>] \notin gone
    BY <1>3, <1>6
  <2>2. /\ natIn[<<q, proto>>] \in Keys
        /\ natOut[natIn[<<q, proto>>]].port = q /\ natIn[<<q, proto>>][2] = proto
    BY <2>1, <1>6 DEF NatInv, Tables, Paired
  <2> QED
    BY <2>1, <2>2, <1>2
<1>7. Paired'
  BY <1>5, <1>6 DEF Paired
<1> QED
  BY <1>4, <1>7 DEF NatInv

LEMMA StepKeepsPaired ==
  ASSUME Endpoints, NatInv, (Translation!Next \/ UNCHANGED Translation!vars)
  PROVE  NatInv'
<1>1. ASSUME NEW k \in Keys, NEW flag \in Translation!Flags, Translation!Outbound(k, flag)
      PROVE  NatInv'
  <2> DEFINE t == Translation!Sniffed(natOut[k], k[2], flag, "out")
  <2>1. CASE natOut' = [natOut EXCEPT ![k] = t] /\ natIn' = natIn
    <3>1. t \in Tuples /\ t.port = natOut[k].port
      BY SniffedIsTuple DEF NatInv, Tables
    <3> HIDE DEF t
    <3> QED
      BY <2>1, <3>1, ChangeKeepsPaired
  <2>2. ASSUME NEW port \in NatPorts, Translation!NewPort(k, flag, port)
        PROVE  NatInv'
    <3> DEFINE u == Translation!Sniffed(Translation!Tuple(port, FALSE), k[2], flag, "out")
    <3>1. u \in Tuples /\ u.port = port
      <4>1. Translation!Tuple(port, FALSE) \in Tuples /\ Translation!Tuple(port, FALSE).port = port
        BY NewIsTuple DEF Endpoints
      <4> QED
        BY <4>1, SniffedIsTuple
    <3>2. /\ Translation!CanAdd(k, port) /\ natOut' = [natOut EXCEPT ![k] = u]
          /\ natIn' = [natIn EXCEPT ![<<port, k[2]>>] = k]
      BY <2>2 DEF Translation!NewPort
    <3> HIDE DEF u
    <3> QED
      BY <3>1, <3>2, AddKeepsPaired
  <2> QED
    BY <1>1, <2>1, <2>2 DEF Translation!Outbound
<1>2. ASSUME NEW port \in NatPorts, NEW proto \in Translation!Protocols, NEW flag \in Translation!Flags,
             Translation!Inbound(port, proto, flag)
      PROVE  NatInv'
  <2> DEFINE k == natIn[<<port, proto>>]
             t == Translation!Sniffed(natOut[k], proto, flag, "in")
  <2>1. k \in Keys
    BY <1>2 DEF Translation!Inbound, NatInv, Tables
  <2>2. t \in Tuples /\ t.port = natOut[k].port
    BY <2>1, SniffedIsTuple DEF NatInv, Tables
  <2>3. natOut' = [natOut EXCEPT ![k] = t] /\ natIn' = natIn
    BY <1>2 DEF Translation!Inbound
  <2> HIDE DEF k, t
  <2> QED
    BY <2>1, <2>2, <2>3, ChangeKeepsPaired
<1>3. ASSUME NEW k \in Keys, NEW port \in NatPorts, Translation!PortForwardAdd(k, port)
      PROVE  NatInv'
  <2>1. CASE Translation!CanAdd(k, port)
    <3>1. Translation!Tuple(port, TRUE) \in Tuples /\ Translation!Tuple(port, TRUE).port = port
      BY NewIsTuple DEF Endpoints
    <3>2. /\ natOut' = [natOut EXCEPT ![k] = Translation!Tuple(port, TRUE)]
          /\ natIn' = [natIn EXCEPT ![<<port, k[2]>>] = k]
      BY <1>3, <2>1 DEF Translation!PortForwardAdd
    <3> QED
      BY <2>1, <3>1, <3>2, AddKeepsPaired
  <2>2. CASE ~Translation!CanAdd(k, port)
    BY <1>3, <2>2 DEF Translation!PortForwardAdd, NatInv, Tables, Paired
  <2> QED
    BY <2>1, <2>2
<1>4. ASSUME NEW k \in Keys, Translation!PortForwardDel(k)
      PROVE  NatInv'
  <2>1. Translation!Delete({k}, natOut)
    BY <1>4 DEF Translation!PortForwardDel
  <2> QED
    BY <2>1, DeleteKeepsPaired DEF NatInv, Tables
<1>5. ASSUME NEW i \in DOMAIN cleanups, Translation!Cleanup(i)
      PROVE  NatInv'
  <2> DEFINE gone == {k \in Keys : Translation!TooOld(k, natOut[k])}
             others == [k \in Keys |-> Translation!Older(k, natOut[k])]
  <2>1. \A k \in Keys : Translation!Older(k, natOut[k]) \in Tuples
                        /\ Translation!Older(k, natOut[k]).port = natOut[k].port
    BY OlderIsTuple DEF NatInv, Tables
  <2>2. gone \in SUBSET Keys /\ others \in [Keys -> Tuples]
    BY <2>1
  <2>3. \A k \in Keys : others[k].port = natOut[k].port
    BY <2>1
  <2>4. Translation!Delete(gone, others)
    BY <1>5 DEF Translation!Cleanup
  <2> HIDE DEF gone, others
  <2> QED
    BY <2>2, <2>3, <2>4, DeleteKeepsPaired
<1>6. CASE Translation!Enable \/ Translation!Disable \/ Translation!Clock \/ UNCHANGED Translation!vars
  BY <1>6 DEF Translation!Enable, Translation!Disable, Translation!Clock, Translation!vars, NatInv, Tables, Paired
<1> QED
  BY <1>1, <1>2, <1>3, <1>4, <1>5, <1>6 DEF Translation!Next, Translation!CleanupDue

LEMMA NatInvSuffices ==
  ASSUME Endpoints, NatInv
  PROVE  Translation!TablesAgree
<1> SUFFICES ASSUME NEW k \in Keys, NEW port \in NatPorts
             PROVE  natIn[<<port, k[2]>>] = k <=> natOut[k].port = port
  BY DEF Translation!TablesAgree
<1>1. k[2] \in Translation!Protocols /\ k # Translation!Nobody /\ port # 0
  BY DEF Endpoints
<1> QED
  BY <1>1 DEF NatInv, Paired

\* There is one timer at most, and when it has made a tuple of UDP old it runs as long
\* as the tuple was not used.
Ages == Period \in Nat /\ MaxEnables \in 0 .. 1
AgeInv ==
  /\ cleanups \in Seq(0 .. Period) /\ Len(cleanups) <= MaxEnables
  /\ unused \in [Keys -> 0 .. Period]
  /\ \A k \in Keys : k[2] = "udp" /\ ~natOut[k].forward /\ natOut[k].active > 1 =>
       \A i \in DOMAIN cleanups : Period - cleanups[i] <= unused[k]

\* A tuple that is used is young again.
LEMMA UseKeepsAge ==
  ASSUME Ages, NatInv, AgeInv, NEW k \in Keys, NEW t \in Tuples,
         k[2] = "udp" => t.active <= 1 \/ t.forward,
         natOut' = [natOut EXCEPT ![k] = t], unused' = [unused EXCEPT ![k] = 0],
         cleanups' = cleanups
  PROVE  AgeInv'
<1>1. /\ \A n \in Keys : natOut'[n] = IF n = k THEN t ELSE natOut[n]
      /\ \A n \in Keys : unused'[n] = IF n = k THEN 0 ELSE unused[n]
  BY DEF NatInv, Tables, AgeInv
<1>2. unused' \in [Keys -> 0 .. Period]
  BY DEF AgeInv, Ages
<1>3. ASSUME NEW n \in Keys, n[2] = "udp", ~natOut'[n].forward, natOut'[n].active > 1,
             NEW i \in DOMAIN cleanups
      PROVE  Period - cleanups[i] <= unused'[n]
  <2>1. n # k
    BY <1>1, <1>3 DEF Tuples
  <2> QED
    BY <1>1, <1>3, <2>1 DEF AgeInv
<1> QED
  BY <1>2, <1>3 DEF AgeInv

LEMMA SniffedIsYoung ==
  ASSUME NEW t \in Tuples, NEW flag, NEW dir
  PROVE  Translation!Sniffed(t, "udp", flag, dir).active = 1
BY DEF Translation!Sniffed, Tuples

LEMMA ClockKeepsAge ==
  ASSUME Ages, AgeInv, Translation!Clock
  PROVE  AgeInv'
<1>1. /\ cleanups' = [i \in DOMAIN cleanups |-> cleanups[i] - 1] /\ natOut' = natOut
      /\ \A i \in DOMAIN cleanups : cleanups[i] > 0
      /\ unused' = [k \in Keys |-> IF unused[k] < Period THEN unused[k] + 1 ELSE Period]
  BY DEF Translation!Clock
<1>2. /\ DOMAIN cleanups = 1 .. Len(cleanups) /\ Len(cleanups) \in Nat
      /\ \A i \in DOMAIN cleanups : cleanups[i] \in 0 .. Period
  <2> DEFINE Times == 0 .. Period
  <2>1. cleanups \in Seq(Times)
    BY DEF AgeInv
  <2> HIDE DEF Times
  <2>2. DOMAIN cleanups = 1 .. Len(cleanups) /\ Len(cleanups) \in Nat
        /\ \A i \in DOMAIN cleanups : cleanups[i] \in Times
    BY <2>1
  <2> QED
    BY <2>2 DEF Times
<1>3. \A i \in DOMAIN cleanups : cleanups'[i] = cleanups[i] - 1 /\ cleanups'[i] \in 0 .. Period
  BY <1>1, <1>2 DEF Ages
<1>4. cleanups' \in Seq(0 .. Period) /\ Len(cleanups') = Len(cleanups)
      /\ DOMAIN cleanups' = DOMAIN cleanups
  BY <1>1, <1>2, <1>3
<1>5. unused' \in [Keys -> 0 .. Period]
  BY <1>1 DEF AgeInv, Ages
<1>6. ASSUME NEW k \in Keys, k[2] = "udp", ~natOut[k].forward, natOut[k].active > 1,
             NEW i \in DOMAIN cleanups
      PROVE  Period - cleanups'[i] <= unused'[k]
  BY <1>1, <1>2, <1>3, <1>6 DEF AgeInv, Ages
<1> QED
  BY <1>1, <1>4, <1>5, <1>6 DEF AgeInv

\* The timer that was due starts again.
LEMMA CleanupKeepsAge ==
  ASSUME Ages, NatInv, AgeInv, NEW i \in DOMAIN cleanups, Translation!Cleanup(i)
  PROVE  AgeInv'
<1>1. cleanups' = [cleanups EXCEPT ![i] = Period] /\ unused' = unused
  BY DEF Translation!Cleanup
<1>2. cleanups \in Seq(0 .. Period) /\ Len(cleanups) \in Nat /\ Len(cleanups) <= 1
      /\ DOMAIN cleanups = 1 .. Len(cleanups)
  BY DEF AgeInv, Ages
<1>3. i = 1 /\ DOMAIN cleanups = 1 .. 1
  BY <1>2
<1>4. cleanups' \in Seq(0 .. Period) /\ Len(cleanups') = Len(cleanups)
      /\ DOMAIN cleanups' = 1 .. 1 /\ cleanups'[1] = Period
  BY <1>1, <1>2, <1>3 DEF Ages
<1> QED
  BY <1>1, <1>4 DEF AgeInv, Ages

LEMMA StepKeepsAge ==
  ASSUME Endpoints, Ages, NatInv, AgeInv, (Translation!Next \/ UNCHANGED Translation!vars)
  PROVE  AgeInv'
<1>1. ASSUME NEW k \in Keys, NEW flag \in Translation!Flags, Translation!Outbound(k, flag)
      PROVE  AgeInv'
  <2>1. unused' = [unused EXCEPT ![k] = 0] /\ cleanups' = cleanups
    BY <1>1 DEF Translation!Outbound
  <2>2. CASE natOut' = [natOut EXCEPT ![k] = Translation!Sniffed(@, k[2], flag, "out")]
    <3> DEFINE t == Translation!Sniffed(natOut[k], k[2], flag, "out")
    <3>1. t \in Tuples /\ (k[2] = "udp" => t.active <= 1 \/ t.forward)
      BY SniffedIsTuple, SniffedIsYoung DEF NatInv, Tables
    <3>2. natOut' = [natOut EXCEPT ![k] = t]
      BY <2>2
    <3> HIDE DEF t
    <3> QED
      BY <2>1, <3>1, <3>2, UseKeepsAge
  <2>3. ASSUME NEW port \in NatPorts, Translation!NewPort(k, flag, port)
        PROVE  AgeInv'
    <3> DEFINE u == Translation!Tuple(port, FALSE)
               t == Translation!Sniffed(u, k[2], flag, "out")
    <3>1. u \in Tuples
      BY NewIsTuple DEF Endpoints
    <3>2. t \in Tuples /\ (k[2] = "udp" => t.active <= 1 \/ t.forward)
      <4> HIDE DEF u
      <4>1. t \in Tuples
        BY <3>1, SniffedIsTuple
      <4>2. k[2] = "udp" => t.active = 1
        BY <3>1, SniffedIsYoung
      <4> HIDE DEF t
      <4> QED
        BY <4>1, <4>2
    <3>3. natOut' = [natOut EXCEPT ![k] = t]
      BY <2>3 DEF Translation!NewPort
    <3> HIDE DEF t
    <3> QED
      BY <2>1, <3>2, <3>3, UseKeepsAge
  <2> QED
    BY <1>1, <2>2, <2>3 DEF Translation!Outbound
<1>2. ASSUME NEW port \in NatPorts, NEW proto \in Translation!Protocols,
             NEW flag \in Translation!Flags, Translation!Inbound(port, proto, flag)
      PROVE  AgeInv'
  <2> DEFINE k == natIn[<<port, proto>>]
             t == Translation!Sniffed(natOut[k], proto, flag, "in")
  <2>1. k \in Keys /\ k[2] = proto
    BY <1>2 DEF Translation!Inbound, NatInv, Tables, Paired
  <2>2. t \in Tuples /\ (k[2] = "udp" => t.active <= 1 \/ t.forward)
    BY <2>1, SniffedIsTuple, SniffedIsYoung DEF NatInv, Tables
  <2>3. /\ natOut' = [natOut EXCEPT ![k] = t] /\ unused' = [unused EXCEPT ![k] = 0]
        /\ cleanups' = cleanups
    BY <1>2 DEF Translation!Inbound
  <2> HIDE DEF k, t
  <2> QED
    BY <2>1, <2>2, <2>3, UseKeepsAge
<1>3. ASSUME NEW k \in Keys, NEW port \in NatPorts, Translation!PortForwardAdd(k, port)
      PROVE  AgeInv'
  <2>1. CASE Translation!CanAdd(k, port)
    <3>1. Translation!Tuple(port, TRUE) \in Tuples /\ Translation!Tuple(port, TRUE).forward = TRUE
      BY NewIsTuple DEF Endpoints, Translation!Tuple, Translation!NoTuple
    <3>2. /\ natOut' = [natOut EXCEPT ![k] = Translation!Tuple(port, TRUE)]
          /\ unused' = [unused EXCEPT ![k] = 0] /\ cleanups' = cleanups
      BY <1>3, <2>1 DEF Translation!PortForwardAdd
    <3> QED
      BY <3>1, <3>2, UseKeepsAge
  <2>2. CASE ~Translation!CanAdd(k, port)
    BY <1>3, <2>2 DEF Translation!PortForwardAdd, AgeInv
  <2> QED
    BY <2>1, <2>2
<1>4. ASSUME NEW k \in Keys, Translation!PortForwardDel(k)
      PROVE  AgeInv'
  <2>1. /\ natOut' = [n \in Keys |-> IF n \in {k} THEN Translation!NoTuple ELSE natOut[n]]
        /\ UNCHANGED <<cleanups, unused>> /\ Translation!NoTuple.active = 0
    BY <1>4 DEF Translation!PortForwardDel, Translation!Delete, Translation!NoTuple
  <2> QED
    BY <2>1 DEF AgeInv
<1>5. CASE Translation!CleanupDue
  BY <1>5, CleanupKeepsAge DEF Translation!CleanupDue
<1>6. CASE Translation!Enable
  <2>1. /\ cleanups' = Append(cleanups, Period) /\ Len(cleanups) < MaxEnables
        /\ natOut' = natOut /\ unused' = unused
    BY <1>6 DEF Translation!Enable
  <2>2. cleanups = <<>> /\ cleanups' \in Seq(0 .. Period) /\ Len(cleanups') = 1 /\ MaxEnables = 1
        /\ DOMAIN cleanups' = 1 .. 1 /\ cleanups'[1] = Period
    BY <2>1 DEF AgeInv, Ages
  <2> QED
    BY <2>1, <2>2 DEF AgeInv, Ages
<1>7. CASE Translation!Clock
  BY <1>7, ClockKeepsAge
<1>8. CASE Translation!Disable \/ UNCHANGED Translation!vars
  BY <1>8 DEF Translation!Disable, Translation!vars, AgeInv
<1> QED
  BY <1>1, <1>2, <1>3, <1>4, <1>5, <1>6, <1>7, <1>8 DEF Translation!Next

\* What a step of the tables takes away of UDP was not used for a period.
LEMMA OnlyUnusedGo ==
  ASSUME Endpoints, Ages, NatInv, AgeInv, Translation!Next
  PROVE  \A k \in Keys :
           (k[2] = "udp" /\ natOut[k] # Translation!NoTuple /\ ~natOut[k].forward
              /\ natOut'[k] = Translation!NoTuple) => unused[k] >= Period
<1> SUFFICES ASSUME NEW n \in Keys, n[2] = "udp", natOut[n] # Translation!NoTuple,
                    ~natOut[n].forward, natOut'[n] = Translation!NoTuple
             PROVE  unused[n] >= Period
  OBVIOUS
<1>1. natOut[n] \in Tuples /\ Translation!NoTuple.active = 0 /\ ~Translation!NoTuple.forward
      /\ natOut'[n] # natOut[n] /\ natOut'[n].active = 0
  BY DEF NatInv, Tables, Translation!NoTuple
<1>2. ASSUME NEW i \in DOMAIN cleanups, Translation!Cleanup(i)
      PROVE  unused[n] >= Period
  <2>1. CASE Translation!TooOld(n, natOut[n])
    <3>1. natOut[n].active > 1
      BY <2>1 DEF Translation!TooOld
    <3>2. cleanups[i] = 0
      BY <1>2 DEF Translation!Cleanup
    <3>3. Period - 0 <= unused[n] /\ unused[n] \in 0 .. Period
      BY <3>1, <3>2 DEF AgeInv
    <3> QED
      BY <3>3 DEF Ages
  <2>2. CASE ~Translation!TooOld(n, natOut[n])
    <3>1. natOut'[n] = Translation!Older(n, natOut[n])
      BY <1>2, <2>2 DEF Translation!Cleanup, Translation!Delete
    <3>2. Translation!Older(n, natOut[n]) = [natOut[n] EXCEPT !.active = @ + 1]
      BY DEF Translation!Older
    <3>3. natOut'[n].active = natOut[n].active + 1 /\ natOut[n].active \in Nat
      BY <1>1, <3>1, <3>2 DEF Tuples
    <3> QED
      BY <1>1, <3>3
  <2> QED
    BY <2>1, <2>2
<1>3. ASSUME NEW k \in Keys, NEW flag \in Translation!Flags, Translation!Outbound(k, flag)
      PROVE  FALSE
  <2>1. CASE natOut' = [natOut EXCEPT ![k] = Translation!Sniffed(@, k[2], flag, "out")]
    BY <1>1, <2>1, SniffedIsYoung DEF NatInv, Tables
  <2>2. CASE \E port \in NatPorts : Translation!NewPort(k, flag, port)
    BY <1>1, <2>2 DEF Translation!NewPort, Translation!CanAdd, NatInv, Tables
  <2> QED
    BY <1>3, <2>1, <2>2 DEF Translation!Outbound
<1>4. ASSUME NEW port \in NatPorts, NEW proto \in Translation!Protocols,
             NEW flag \in Translation!Flags, Translation!Inbound(port, proto, flag)
      PROVE  FALSE
  <2> DEFINE k == natIn[<<port, proto>>]
  <2>1. k \in Keys /\ k[2] = proto
        /\ natOut' = [natOut EXCEPT ![k] = Translation!Sniffed(natOut[k], proto, flag, "in")]
    BY <1>4 DEF Translation!Inbound, NatInv, Tables, Paired
  <2> HIDE DEF k
  <2> QED
    BY <1>1, <2>1, SniffedIsYoung DEF NatInv, Tables
<1>5. ASSUME NEW k \in Keys, NEW port \in NatPorts, Translation!PortForwardAdd(k, port)
      PROVE  FALSE
  BY <1>1, <1>5 DEF Translation!PortForwardAdd, Translation!CanAdd, NatInv, Tables
<1>6. ASSUME NEW k \in Keys, Translation!PortForwardDel(k)
      PROVE  FALSE
  <2>1. k # n
    BY <1>6 DEF Translation!PortForwardDel
  <2> QED
    BY <1>1, <1>6, <2>1 DEF Translation!PortForwardDel, Translation!Delete
<1>7. CASE Translation!Enable \/ Translation!Disable \/ Translation!Clock
  BY <1>1, <1>7 DEF Translation!Enable, Translation!Disable, Translation!Clock
<1> QED
  BY <1>2, <1>3, <1>4, <1>5, <1>6, <1>7 DEF Translation!Next, Translation!CleanupDue

-----------------------------------------------------------------------------
(* LwipWait: a reader that waits will be woken, for any number of          *)
(* characters and any bound on them.                                       *)

Characters == Initial \in Nat

WaitTypes == /\ pipe \in Nat /\ written \in Nat
           /\ reader.pc \in {"idle", "count", "read", "reset", "recv"} /\ reader.n \in Nat
           /\ reader = [pc |-> reader.pc, n |-> reader.n]
           /\ callback.pc \in {"idle", "write", "load", "store"} /\ callback.n \in Nat
           /\ callback = [pc |-> callback.pc, n |-> callback.n]

\* From its subscription to its read the reader has one of three: the stack
\* still knows it, the callback is about to write, or the character is there.
\* Whatever the count says does not matter for it.
Expects == reader.pc \in {"count", "read"} =>
             subscribed \/ callback.pc = "write" \/ pipe > 0

WaitInv == WaitTypes /\ Expects

LEMMA InitExpects ==
  ASSUME Characters, Wait!Init
  PROVE  WaitInv
BY DEF Characters, Wait!Init, WaitInv, WaitTypes, Expects

LEMMA ReaderStep ==
  ASSUME WaitInv, Wait!Reader
  PROVE  WaitInv'
<1>1. CASE Wait!Subscribe
  <2>1. CASE ready
    <3>1. reader' = [pc |-> "recv", n |-> reader.n]
      BY <1>1, <2>1 DEF Wait!Subscribe, WaitInv, WaitTypes
    <3> QED
      BY <1>1, <3>1 DEF Wait!Subscribe, WaitInv, WaitTypes, Expects
  <2>2. CASE ~ready
    <3>1. reader' = [pc |-> "count", n |-> reader.n]
      BY <1>1, <2>2 DEF Wait!Subscribe, WaitInv, WaitTypes
    <3> QED
      BY <1>1, <2>2, <3>1 DEF Wait!Subscribe, WaitInv, WaitTypes, Expects
  <2> QED
    BY <2>1, <2>2
<1>2. CASE Wait!Count
  BY <1>2 DEF Wait!Count, Wait!At, WaitInv, WaitTypes, Expects
<1>3. CASE Wait!ReadPipe
  <2>1. reader' = [pc |-> "reset", n |-> reader.n]
    BY <1>3 DEF Wait!ReadPipe, WaitInv, WaitTypes
  <2>2. pipe' \in Nat
    BY <1>3 DEF Wait!ReadPipe, WaitInv, WaitTypes
  <2> QED
    BY <1>3, <2>1, <2>2 DEF Wait!ReadPipe, WaitInv, WaitTypes, Expects
<1>4. CASE Wait!Reset
  BY <1>4 DEF Wait!Reset, WaitInv, WaitTypes, Expects
<1>5. CASE Wait!lwip_recv
  BY <1>5 DEF Wait!lwip_recv, WaitInv, WaitTypes, Expects
<1> QED
  BY <1>1, <1>2, <1>3, <1>4, <1>5 DEF Wait!Reader

LEMMA CallbackStep ==
  ASSUME WaitInv, Wait!Callback
  PROVE  WaitInv'
<1>1. CASE Wait!Write
  BY <1>1 DEF Wait!Write, WaitInv, WaitTypes, Expects
<1>2. CASE Wait!Load
  BY <1>2 DEF Wait!Load, Wait!At, WaitInv, WaitTypes, Expects
<1>3. CASE Wait!Store
  BY <1>3 DEF Wait!Store, Wait!At, WaitInv, WaitTypes, Expects
<1> QED
  BY <1>1, <1>2, <1>3 DEF Wait!Callback

LEMMA StackStep ==
  ASSUME WaitInv, Wait!Arrive \/ Wait!Event
  PROVE  WaitInv'
BY DEF Wait!Arrive, Wait!Event, WaitInv, WaitTypes, Expects

LEMMA WaitStep ==
  ASSUME WaitInv, (Wait!Next \/ UNCHANGED Wait!vars)
  PROVE  WaitInv'
<1>1. CASE UNCHANGED Wait!vars
  BY <1>1 DEF Wait!vars, WaitInv, WaitTypes, Expects
<1>2. CASE Wait!Next
  BY <1>2, ReaderStep, CallbackStep, StackStep DEF Wait!Next
<1> QED
  BY <1>1, <1>2

LEMMA WaitInvSuffices ==
  ASSUME WaitInv
  PROVE  Wait!WaiterIsSubscribed
BY DEF WaitInv, WaitTypes, Expects, Wait!WaiterIsSubscribed, Wait!At

-----------------------------------------------------------------------------
(* PycoHandler                                                             *)

\* Where the application waits, the one thread that may be alive is the one it
\* knows, and there is none when it starts another.
OnlyKnown ==
  /\ thread \in [Handler!Threads -> {"new", "create", "while", "stackTick", "on_tick", "destroy", "ended"}]
  /\ careful => /\ \A t \in Handler!Threads : Handler!Alive(t) => t = handler_thread
                /\ caller = "start" => handler_thread = Handler!None
DeviceKnown == device \in [created : BOOLEAN, device : BOOLEAN, link : BOOLEAN] /\ Handler!AddressHasDevice
HandlerInv == OnlyKnown /\ DeviceKnown

LEMMA HandlerInit == ASSUME Handler!Init PROVE HandlerInv
BY DEF Handler!Init, HandlerInv, OnlyKnown, DeviceKnown, Handler!AddressHasDevice, Handler!Alive

LEMMA HandlerTurn ==
  ASSUME HandlerInv, NEW t \in Handler!Threads, Handler!handler(t) PROVE HandlerInv'
<1>1. PICK from, to : /\ Handler!Go(t, from, to)
                      /\ from \notin {"new", "ended"}
                      /\ to \in {"create", "while", "stackTick", "on_tick", "destroy", "ended"}
  BY DEF Handler!handler, Handler!on_create, Handler!While, Handler!stackTick, Handler!on_tick, Handler!on_destroy
<1>2. /\ thread[t] = from /\ thread' = [thread EXCEPT ![t] = to]
      /\ UNCHANGED <<handler_thread, caller, device, careful>>
  BY <1>1 DEF Handler!Go
<1>3. \A u \in Handler!Threads : Handler!Alive(u)' => Handler!Alive(u)
  BY <1>1, <1>2 DEF HandlerInv, OnlyKnown, Handler!Alive
<1>4. thread' \in [Handler!Threads -> {"new", "create", "while", "stackTick", "on_tick", "destroy", "ended"}]
  BY <1>1, <1>2 DEF HandlerInv, OnlyKnown
<1>5. DeviceKnown'
  BY <1>2 DEF HandlerInv, DeviceKnown, Handler!AddressHasDevice
<1> QED
  BY <1>2, <1>3, <1>4, <1>5 DEF HandlerInv, OnlyKnown

LEMMA HandlerStep ==
  ASSUME MaxStarts \in Nat, HandlerInv, (Handler!Next \/ UNCHANGED Handler!vars) PROVE HandlerInv'
<1>1. ASSUME NEW wait \in IF careful THEN {TRUE} ELSE BOOLEAN, Handler!stop_handler(wait)
      PROVE  HandlerInv'
  BY <1>1 DEF Handler!stop_handler, Handler!Stop, HandlerInv, OnlyKnown, DeviceKnown, Handler!AddressHasDevice, Handler!Alive
<1>2. CASE Handler!Joined
  BY <1>2 DEF Handler!Joined, Handler!Join, HandlerInv, OnlyKnown, DeviceKnown, Handler!AddressHasDevice, Handler!Alive
<1>3. CASE Handler!start_handler
  BY <1>3 DEF Handler!start_handler, Handler!Stop, HandlerInv, OnlyKnown, DeviceKnown, Handler!AddressHasDevice, Handler!Alive
<1>4. CASE Handler!Started
  <2>1. PICK t \in Handler!Threads : /\ caller = "start" /\ handler_thread' = t
                             /\ thread' = [thread EXCEPT ![t] = "create"] /\ caller' = "idle"
                             /\ UNCHANGED <<device, careful>>
    BY <1>4 DEF Handler!Started
  <2>2. careful => \A u \in Handler!Threads : ~Handler!Alive(u)
    BY <2>1 DEF HandlerInv, OnlyKnown, Handler!None, Handler!Threads
  <2>3. \A u \in Handler!Threads : u # t => thread'[u] = thread[u]
    BY <2>1 DEF HandlerInv, OnlyKnown
  <2>4. thread' \in [Handler!Threads -> {"new", "create", "while", "stackTick", "on_tick", "destroy", "ended"}]
    BY <2>1 DEF HandlerInv, OnlyKnown
  <2>5. DeviceKnown'
    BY <2>1 DEF HandlerInv, DeviceKnown, Handler!AddressHasDevice
  <2> QED
    BY <2>1, <2>2, <2>3, <2>4, <2>5 DEF HandlerInv, OnlyKnown, Handler!Alive
<1>5. CASE Handler!create \/ Handler!destroy
  <2>1. UNCHANGED <<thread, handler_thread, caller, careful>>
    BY <1>5 DEF Handler!create, Handler!destroy
  <2>2. DeviceKnown'
    <3>1. device \in [created : BOOLEAN, device : BOOLEAN, link : BOOLEAN] /\ Handler!AddressHasDevice
      BY DEF HandlerInv, DeviceKnown
    <3>2. PICK b \in BOOLEAN : device' = [created |-> b, device |-> b, link |-> b]
                               \/ device' = [device EXCEPT !.device = TRUE]
                               \/ device' = [device EXCEPT !.link = FALSE]
      BY <1>5 DEF Handler!create, Handler!destroy
    <3>3. device' \in [created : BOOLEAN, device : BOOLEAN, link : BOOLEAN]
      <4>1. CASE device' = [created |-> b, device |-> b, link |-> b]
        BY <4>1
      <4>2. CASE device' = [device EXCEPT !.device = TRUE]
        BY <3>1, <4>2
      <4>3. CASE device' = [device EXCEPT !.link = FALSE]
        BY <3>1, <4>3
      <4> QED
        BY <3>2, <4>1, <4>2, <4>3
    <3>4. /\ [device EXCEPT !.device = TRUE].device = TRUE
          /\ [device EXCEPT !.link = FALSE].link = FALSE
      BY <3>1
    <3>5. Handler!AddressHasDevice'
      BY <3>1, <3>2, <3>4 DEF Handler!AddressHasDevice
    <3> QED
      BY <3>3, <3>5 DEF DeviceKnown
  <2> QED
    BY <2>1, <2>2 DEF HandlerInv, OnlyKnown, Handler!Alive
<1>6. CASE UNCHANGED Handler!vars
  BY <1>6 DEF Handler!vars, HandlerInv, OnlyKnown, DeviceKnown, Handler!AddressHasDevice, Handler!Alive
<1> QED
  BY <1>1, <1>2, <1>3, <1>4, <1>5, <1>6, HandlerTurn DEF Handler!Next

LEMMA SameCardinality ==
  ASSUME NEW S
  PROVE  Handler!Cardinality(S) = Cardinality(S)
BY DEF Handler!Cardinality, Cardinality

LEMMA HandlerSuffices ==
  ASSUME MaxStarts \in Nat, HandlerInv PROVE Handler!OneHandler /\ Handler!AddressHasDevice
<1>1. ASSUME careful PROVE Cardinality({t \in Handler!Threads : Handler!Alive(t)}) <= 1
  <2>1. {t \in Handler!Threads : Handler!Alive(t)} \subseteq {handler_thread}
    BY <1>1 DEF HandlerInv, OnlyKnown
  <2>2. IsFiniteSet({handler_thread}) /\ Cardinality({handler_thread}) = 1
    BY FS_Singleton
  <2> QED
    BY <2>1, <2>2, FS_Subset
<1> QED
  BY <1>1, SameCardinality DEF Handler!OneHandler, HandlerInv, DeviceKnown

-----------------------------------------------------------------------------
(* Ping                                                                    *)

\* The numbers that pico_icmp4_ping is given; a count of none is refused.
Numbers == Pings \in Nat /\ PingCount \in Nat \ {0} /\ Interval \in Nat /\ Timeout \in Nat

Requests == (1..Pings) \X (1..PingCount)
Records == [kind : {"timeout", "next"}, request : Requests, left : Int]

\* What was not sent yet has neither a cookie nor a report.
Unborn(r) == cookies[r] = "none" /\ \A c \in reported : c.request # r

PingTypes == /\ cookies \in [Requests -> {"none", "pending", "aborted", "replied"}]
             /\ pingTimers \subseteq Records
             /\ pingsStarted \in Nat
             /\ \A c \in reported : c.request \in Requests /\ c.err \in {"timeout", "replied"}
\* One timer of an operation stands for all the requests that it did not send.
OneNext == \A t, u \in pingTimers :
             t.kind = "next" /\ u.kind = "next" /\ t.request[1] = u.request[1] => t = u
NextUnborn == \A t \in pingTimers : t.kind = "next" =>
                \A r \in Requests : r[1] = t.request[1] /\ r[2] > t.request[2] => Unborn(r)
NewUnborn == /\ \A r \in Requests : r[1] > pingsStarted => Unborn(r)
             /\ \A t \in pingTimers : t.request[1] <= pingsStarted
\* The cookie knows what was reported.
CookieKnows == \A c \in reported : /\ c.err = "timeout" => cookies[c.request] = "none"
                                   /\ c.err = "replied" => cookies[c.request] # "pending"
PingInv == PingTypes /\ OneNext /\ NextUnborn /\ NewUnborn /\ CookieKnows /\ Echo!OneAnswer

LEMMA PingInit == ASSUME Numbers, Echo!Init PROVE PingInv
<1>1. PingTypes
  BY DEF Echo!Init, PingTypes, Requests
<1>2. OneNext /\ NextUnborn /\ CookieKnows /\ Echo!OneAnswer
  BY DEF Echo!Init, OneNext, NextUnborn, CookieKnows, Echo!OneAnswer
<1>3. NewUnborn
  BY DEF Echo!Init, NewUnborn, Unborn, Requests
<1> QED
  BY <1>1, <1>2, <1>3 DEF PingInv

\* A request is sent that was not sent before: s is the state of its cookie.
LEMMA SendStep ==
  ASSUME Numbers, PingInv, NEW r \in Requests, NEW s \in {"pending", "replied"},
         NEW timers \in SUBSET pingTimers, NEW n \in Nat, pingsStarted' = n,
         Unborn(r), n >= pingsStarted, r[1] <= n,
         \A t \in timers : t.kind = "next" => t.request[1] # r[1],
         \A q \in Requests : q[1] = r[1] /\ q[2] > r[2] => Unborn(q),
         cookies' = [cookies EXCEPT ![r] = s],
         Echo!SendPing(r, timers), UNCHANGED reported
  PROVE  PingInv'
<1>1. /\ cookies'[r] = s /\ \A q \in Requests : q # r => cookies'[q] = cookies[q]
      /\ cookies' \in [Requests -> {"none", "pending", "aborted", "replied"}]
  BY DEF PingInv, PingTypes
<1>2. PICK new : new = {Echo!Due("timeout", r, Timeout)}
                       \cup (IF r[2] < PingCount THEN {Echo!Due("next", r, Interval)} ELSE {})
  OBVIOUS
<1>3. pingTimers' = timers \cup new
  BY <1>2 DEF Echo!SendPing
<1>4. /\ new \subseteq Records
      /\ \A t \in new : t.request = r
      /\ \A t, u \in new : t.kind = "next" /\ u.kind = "next" => t = u
  BY <1>2 DEF Echo!Due, Records, Numbers
<1>5. \A q \in Requests : q # r => (Unborn(q) <=> Unborn(q)')
  BY <1>1 DEF Unborn
<1>6. PingTypes'
  BY <1>1, <1>3, <1>4 DEF PingInv, PingTypes
<1>7. OneNext'
  <2> SUFFICES ASSUME NEW t \in pingTimers', NEW u \in pingTimers',
                      t.kind = "next", u.kind = "next", t.request[1] = u.request[1]
               PROVE  t = u
    BY DEF OneNext
  <2>1. CASE t \in timers /\ u \in timers
    BY <2>1 DEF PingInv, OneNext
  <2>2. CASE t \in new /\ u \in new
    BY <1>4, <2>2
  <2>3. CASE (t \in timers /\ u \in new) \/ (t \in new /\ u \in timers)
    BY <1>4, <2>3
  <2> QED
    BY <1>3, <2>1, <2>2, <2>3
<1>8. NextUnborn'
  <2> SUFFICES ASSUME NEW t \in pingTimers', t.kind = "next",
                      NEW q \in Requests, q[1] = t.request[1], q[2] > t.request[2]
               PROVE  Unborn(q)'
    BY DEF NextUnborn
  <2>1. CASE t \in timers
    BY <1>5, <2>1 DEF PingInv, NextUnborn
  <2>2. CASE t \in new
    <3>1. q # r
      BY <1>4, <2>2 DEF Requests
    <3> QED
      BY <1>4, <1>5, <2>2, <3>1
  <2> QED
    BY <1>3, <2>1, <2>2
<1>9. NewUnborn'
  <2>1. ASSUME NEW q \in Requests, q[1] > n PROVE Unborn(q)'
    <3>1. q # r /\ q[1] > pingsStarted
      BY <2>1 DEF Requests, Numbers, PingInv, PingTypes
    <3> QED
      BY <1>5, <3>1 DEF PingInv, NewUnborn
  <2>2. ASSUME NEW t \in timers PROVE t.request[1] <= n
    <3>1. t.request[1] <= pingsStarted /\ t.request \in Requests
      BY DEF PingInv, NewUnborn, PingTypes, Records
    <3> QED
      BY <3>1 DEF Requests, Numbers, PingInv, PingTypes
  <2> QED
    BY <1>3, <1>4, <2>1, <2>2 DEF NewUnborn
<1>10. CookieKnows' /\ Echo!OneAnswer'
  BY <1>1 DEF PingInv, PingTypes, CookieKnows, Echo!OneAnswer, Unborn
<1> QED
  BY <1>6, <1>7, <1>8, <1>9, <1>10 DEF PingInv

LEMMA StartStep == ASSUME Numbers, PingInv, Echo!PingStart PROVE PingInv'
<1> DEFINE r == Echo!Request(pingsStarted + 1, 1)
<1>1. r \in Requests /\ r[1] = pingsStarted + 1 /\ pingsStarted \in Nat
  BY DEF Echo!PingStart, Requests, Echo!Request, Numbers, PingInv, PingTypes
<1>2. /\ pingsStarted' = pingsStarted + 1 /\ cookies' = [cookies EXCEPT ![r] = "pending"]
      /\ Echo!SendPing(r, pingTimers) /\ UNCHANGED reported
  BY DEF Echo!PingStart, Echo!history
<1> HIDE DEF r
<1>3. \A q \in Requests : q[1] = r[1] => Unborn(q)
  BY <1>1 DEF PingInv, NewUnborn
<1>4. \A t \in pingTimers : t.request[1] # r[1]
  <2> TAKE t \in pingTimers
  <2>1. t.request[1] <= pingsStarted /\ t.request[1] \in Int
    BY DEF PingInv, NewUnborn, PingTypes, Records, Requests
  <2> QED
    BY <1>1, <2>1
<1>5. pingsStarted + 1 \in Nat /\ pingsStarted + 1 >= pingsStarted /\ r[1] <= pingsStarted + 1
  BY <1>1
<1> QED
  BY <1>1, <1>2, <1>3, <1>4, <1>5, SendStep

\* Timers go, and cookies are freed or marked.
LEMMA LessStep ==
  ASSUME Numbers, PingInv, pingTimers' \subseteq pingTimers, UNCHANGED pingsStarted,
         cookies' \in [Requests -> {"none", "pending", "aborted", "replied"}],
         \A r \in Requests : cookies'[r] = cookies[r] \/ cookies'[r] = "none"
                             \/ (cookies[r] # "none" /\ cookies'[r] # "pending"),
         \A c \in reported' : c \in reported
           \/ /\ c.request \in Requests /\ c.err \in {"timeout", "replied"}
              /\ cookies[c.request] # "none"
              /\ c.err = "timeout" => cookies[c.request] = "pending" /\ cookies'[c.request] = "none"
              /\ c.err = "replied" => cookies'[c.request] # "pending"
              /\ \A d \in reported' \ reported : d.request = c.request => d.err = c.err
  PROVE  PingInv'
<1>1. \A r \in Requests : Unborn(r) => Unborn(r)'
  <2> SUFFICES ASSUME NEW r \in Requests, Unborn(r), NEW c \in reported', c.request = r
               PROVE  FALSE
    <3>1. \A r \in Requests : Unborn(r) => cookies'[r] = "none"
      BY DEF Unborn
    <3> QED
      BY <3>1 DEF Unborn
  <2> QED
    BY DEF Unborn
<1>2. PingTypes'
  BY DEF PingInv, PingTypes
<1>3. OneNext'
  BY DEF PingInv, OneNext
<1>4. NextUnborn' /\ NewUnborn'
  BY <1>1 DEF PingInv, NextUnborn, NewUnborn
<1>5. CookieKnows'
  BY DEF PingInv, CookieKnows, PingTypes
<1>6. Echo!OneAnswer'
  BY DEF PingInv, CookieKnows, Echo!OneAnswer, PingTypes
<1> QED
  BY <1>2, <1>3, <1>4, <1>5, <1>6 DEF PingInv

LEMMA FiresStep == ASSUME Numbers, PingInv, Echo!Fires PROVE PingInv'
<1>1. PICK t \in pingTimers : Echo!TimerFires(t)
  BY DEF Echo!Fires
<1>2. t.request \in Requests /\ t \in Records /\ UNCHANGED pingsStarted
  BY <1>1 DEF Echo!TimerFires, PingInv, PingTypes, Records
<1> DEFINE r == t.request
<1>3. CASE t.kind = "timeout" /\ Echo!PingTimeout(r) /\ pingTimers' = pingTimers \ {t}
  <2>1. /\ cookies' = [cookies EXCEPT ![r] = "none"]
        /\ reported' = IF cookies[r] = "pending" THEN reported \cup {Echo!Report(r, "timeout")} ELSE reported
    BY <1>3 DEF Echo!PingTimeout
  <2>2. /\ cookies' \in [Requests -> {"none", "pending", "aborted", "replied"}]
        /\ cookies'[r] = "none" /\ \A q \in Requests : q # r => cookies'[q] = cookies[q]
    BY <1>2, <2>1 DEF PingInv, PingTypes
  <2>3. \A c \in reported' : c \in reported
           \/ (c.request = r /\ c.err = "timeout" /\ cookies[r] = "pending")
    BY <2>1 DEF Echo!Report
  <2> HIDE DEF r
  <2> QED
    BY <1>2, <1>3, <2>2, <2>3, LessStep DEF r
<1>4. CASE t.kind = "next" /\ Echo!NextPing(r, pingTimers \ {t}) /\ UNCHANGED reported
  <2>1. CASE Echo!More(r)
    <3> DEFINE q == Echo!Request(r[1], r[2] + 1)
               s == cookies[r]
    <3>1. q \in Requests /\ q[1] = r[1] /\ q[2] = r[2] + 1
      BY <1>2, <2>1 DEF Echo!More, Requests, Echo!Request, Numbers
    <3>2. s \in {"pending", "replied"}
      BY <1>2, <2>1 DEF Echo!More, PingInv, PingTypes
    <3>3. cookies' = [cookies EXCEPT ![q] = s] /\ Echo!SendPing(q, pingTimers \ {t})
      BY <1>4, <2>1 DEF Echo!NextPing
    <3>4. \A p \in Requests : p[1] = q[1] /\ p[2] >= q[2] => Unborn(p)
      BY <1>2, <1>4, <3>1 DEF PingInv, NextUnborn, Requests
    <3>5. Unborn(q) /\ \A p \in Requests : p[1] = q[1] /\ p[2] > q[2] => Unborn(p)
      BY <3>1, <3>4 DEF Requests
    <3>6. q[1] <= pingsStarted /\ pingsStarted \in Nat /\ pingsStarted' = pingsStarted
          /\ pingsStarted >= pingsStarted
      BY <1>2, <3>1 DEF PingInv, NewUnborn, PingTypes
    <3>7. \A u \in pingTimers \ {t} : u.kind = "next" => u.request[1] # q[1]
      BY <1>4, <3>1 DEF PingInv, OneNext
    <3>8. pingTimers \ {t} \in SUBSET pingTimers
      OBVIOUS
    <3> HIDE DEF q, s, r
    <3> QED
      BY <1>4, <3>1, <3>2, <3>3, <3>5, <3>6, <3>7, <3>8, SendStep
  <2>2. CASE ~Echo!More(r)
    <3>1. UNCHANGED <<cookies, reported>> /\ pingTimers' = pingTimers \ {t}
      BY <1>4, <2>2 DEF Echo!NextPing
    <3>2. cookies' \in [Requests -> {"none", "pending", "aborted", "replied"}]
      BY <3>1 DEF PingInv, PingTypes
    <3> QED
      BY <1>2, <3>1, <3>2, LessStep
  <2> QED
    BY <2>1, <2>2
<1> QED
  BY <1>1, <1>3, <1>4 DEF Echo!TimerFires

LEMMA TickStep == ASSUME Numbers, PingInv, Echo!ClockTicks PROVE PingInv'
<1>1. /\ pingTimers' = {[t EXCEPT !.left = @ - 1] : t \in pingTimers}
      /\ UNCHANGED <<cookies, pingsStarted, reported>>
  BY DEF Echo!ClockTicks, Echo!history
<1>2. \A u \in pingTimers' : \E t \in pingTimers :
        /\ u = [t EXCEPT !.left = @ - 1]
        /\ u.kind = t.kind /\ u.request = t.request /\ u \in Records
  <2> TAKE u \in pingTimers'
  <2>1. PICK t \in pingTimers : u = [t EXCEPT !.left = @ - 1]
    BY <1>1
  <2>2. t \in Records
    BY DEF PingInv, PingTypes
  <2>3. u.kind = t.kind /\ u.request = t.request /\ u \in Records
    BY <2>1, <2>2 DEF Records
  <2> QED
    BY <2>1, <2>3
<1>3. PingTypes'
  BY <1>1, <1>2 DEF PingInv, PingTypes
<1>4. OneNext'
  <2> SUFFICES ASSUME NEW u \in pingTimers', NEW v \in pingTimers',
                      u.kind = "next", v.kind = "next", u.request[1] = v.request[1]
               PROVE  u = v
    BY DEF OneNext
  <2>1. PICK t \in pingTimers : u = [t EXCEPT !.left = @ - 1] /\ u.kind = t.kind /\ u.request = t.request
    BY <1>2
  <2>2. PICK s \in pingTimers : v = [s EXCEPT !.left = @ - 1] /\ v.kind = s.kind /\ v.request = s.request
    BY <1>2
  <2>3. t = s
    BY <2>1, <2>2 DEF PingInv, OneNext
  <2> QED
    BY <2>1, <2>2, <2>3
<1>5. \A r \in Requests : Unborn(r) <=> Unborn(r)'
  BY <1>1 DEF Unborn
<1>6. NextUnborn'
  BY <1>2, <1>5 DEF PingInv, NextUnborn
<1>7. NewUnborn'
  BY <1>1, <1>2, <1>5 DEF PingInv, NewUnborn
<1>8. CookieKnows' /\ Echo!OneAnswer'
  BY <1>1 DEF PingInv, CookieKnows, Echo!OneAnswer
<1> QED
  BY <1>3, <1>4, <1>6, <1>7, <1>8 DEF PingInv

LEMMA PingStep == ASSUME Numbers, PingInv, (Echo!Next \/ UNCHANGED Echo!vars) PROVE PingInv'
<1>1. ASSUME NEW id \in 1..Pings, Echo!Abort(id) PROVE PingInv'
  <2>1. /\ cookies' = [r \in Requests |-> IF Echo!Cancelled(id, r) THEN "aborted" ELSE cookies[r]]
        /\ UNCHANGED <<pingTimers, pingsStarted, reported>>
    BY <1>1 DEF Echo!Abort, PingInv, PingTypes
  <2>2. cookies' \in [Requests -> {"none", "pending", "aborted", "replied"}]
    BY <2>1 DEF PingInv, PingTypes
  <2>3. \A r \in Requests : cookies'[r] = cookies[r] \/ (cookies[r] # "none" /\ cookies'[r] # "pending")
    BY <2>1 DEF Echo!Cancelled
  <2> QED
    BY <2>1, <2>2, <2>3, LessStep
<1>2. ASSUME NEW r \in DOMAIN cookies, Echo!RecvReply(r) PROVE PingInv'
  <2>1. r \in Requests /\ UNCHANGED <<pingTimers, pingsStarted>>
    BY <1>2 DEF Echo!RecvReply, PingInv, PingTypes
  <2>2. CASE Echo!Listening(r)
    <3>1. /\ cookies' = [cookies EXCEPT ![r] = "replied"]
          /\ reported' = reported \cup {Echo!Report(r, "replied")}
          /\ cookies[r] # "none"
      BY <1>2, <2>2 DEF Echo!RecvReply, Echo!Listening
    <3>2. /\ cookies' \in [Requests -> {"none", "pending", "aborted", "replied"}]
          /\ cookies'[r] = "replied" /\ \A q \in Requests : q # r => cookies'[q] = cookies[q]
      BY <2>1, <3>1 DEF PingInv, PingTypes
    <3>3. \A c \in reported' : c \in reported \/ (c.request = r /\ c.err = "replied")
      BY <3>1 DEF Echo!Report
    <3> QED
      BY <2>1, <3>1, <3>2, <3>3, LessStep
  <2>3. CASE ~Echo!Listening(r)
    <3>1. UNCHANGED <<cookies, reported>>
      BY <1>2, <2>3 DEF Echo!RecvReply
    <3>2. cookies' \in [Requests -> {"none", "pending", "aborted", "replied"}]
      BY <3>1 DEF PingInv, PingTypes
    <3> QED
      BY <2>1, <3>1, <3>2, LessStep
  <2> QED
    BY <2>2, <2>3
<1>3. ASSUME UNCHANGED <<cookies, pingTimers, pingsStarted, reported>> PROVE PingInv'
  <2>1. cookies' \in [Requests -> {"none", "pending", "aborted", "replied"}]
    BY <1>3 DEF PingInv, PingTypes
  <2> QED
    BY <1>3, <2>1, LessStep
<1>4. ASSUME NEW r, Echo!Echo(r) PROVE PingInv'
  BY <1>3, <1>4 DEF Echo!Echo, Echo!history
<1>5. ASSUME NEW m, Echo!Lost(m) PROVE PingInv'
  BY <1>3, <1>5 DEF Echo!Lost, Echo!history
<1>6. CASE UNCHANGED Echo!vars
  BY <1>3, <1>6 DEF Echo!vars
<1> QED
  BY <1>1, <1>2, <1>4, <1>5, <1>6, StartStep, FiresStep, TickStep DEF Echo!Next

\* An operation that was aborted had begun, and has no cookie that could report.
AbortInv == \A id \in aborted :
  id <= pingsStarted /\ \A r \in Requests : r[1] = id => cookies[r] \in {"none", "aborted"}

LEMMA AbortStep ==
  ASSUME Numbers, PingInv, AbortInv, aborted \subseteq Nat,
         (Echo!Next \/ UNCHANGED Echo!vars)
  PROVE  /\ AbortInv' /\ aborted' \subseteq Nat
         /\ \A id \in aborted : {c \in reported' : c.request[1] = id}
                                = {c \in reported : c.request[1] = id}
<1> DEFINE Silent == \A id \in aborted : {c \in reported' : c.request[1] = id}
                                         = {c \in reported : c.request[1] = id}
<1>0. cookies \in [Requests -> {"none", "pending", "aborted", "replied"}] /\ pingsStarted \in Nat
  BY DEF PingInv, PingTypes
<1>1. CASE Echo!PingStart
  <2>1. /\ cookies' = [cookies EXCEPT ![<<pingsStarted + 1, 1>>] = "pending"]
        /\ pingsStarted' = pingsStarted + 1 /\ UNCHANGED <<aborted, reported>>
    BY <1>1 DEF Echo!PingStart, Echo!Request, Echo!history
  <2>2. \A id \in aborted : id <= pingsStarted' /\ id # pingsStarted + 1
    BY <1>0, <2>1 DEF AbortInv
  <2>3. \A r \in Requests : r[1] # pingsStarted + 1 => cookies'[r] = cookies[r]
    BY <1>0, <2>1
  <2> QED
    BY <2>1, <2>2, <2>3 DEF AbortInv
<1>2. ASSUME NEW id \in 1..Pings, Echo!Abort(id) PROVE AbortInv' /\ aborted' \subseteq Nat /\ Silent
  <2>1. /\ cookies' = [r \in Requests |-> IF Echo!Cancelled(id, r) THEN "aborted" ELSE cookies[r]]
        /\ aborted' = aborted \cup {id} /\ UNCHANGED <<pingsStarted, reported>>
    BY <1>0, <1>2 DEF Echo!Abort
  <2>2. id <= pingsStarted
    <3>1. PICK r \in Requests : r[1] = id /\ cookies[r] # "none"
      BY <1>0, <1>2 DEF Echo!Abort, Echo!Cancelled
    <3> QED
      BY <1>0, <3>1 DEF PingInv, NewUnborn, Unborn
  <2>3. \A r \in Requests : r[1] = id => cookies'[r] \in {"none", "aborted"}
    BY <1>0, <2>1 DEF Echo!Cancelled
  <2>4. \A r \in Requests : cookies[r] \in {"none", "aborted"} => cookies'[r] \in {"none", "aborted"}
    BY <2>1
  <2> QED
    BY <2>1, <2>2, <2>3, <2>4 DEF AbortInv
\* A change of one cookie that does not report for an operation that was aborted.
<1>3. ASSUME NEW r \in Requests, NEW s, r[1] \notin aborted \/ s \in {"none", "aborted"},
             cookies' = [cookies EXCEPT ![r] = s] \/ cookies' = cookies,
             \A c \in reported' : c \in reported \/ (c.request = r /\ r[1] \notin aborted),
             reported \subseteq reported', UNCHANGED <<aborted, pingsStarted>>
      PROVE  AbortInv' /\ aborted' \subseteq Nat /\ Silent
  <2>1. \A q \in Requests : cookies'[q] = cookies[q] \/ (q = r /\ cookies'[q] = s)
    BY <1>0, <1>3
  <2>2. AbortInv'
    BY <1>3, <2>1 DEF AbortInv
  <2>3. Silent
    BY <1>3
  <2> QED
    BY <1>3, <2>2, <2>3
<1>4. ASSUME NEW r \in DOMAIN cookies, Echo!RecvReply(r)
      PROVE  AbortInv' /\ aborted' \subseteq Nat /\ Silent
  <2>1. CASE Echo!Listening(r)
    <3>1. /\ cookies' = [cookies EXCEPT ![r] = "replied"] /\ UNCHANGED <<aborted, pingsStarted>>
          /\ reported' = reported \cup {Echo!Report(r, "replied")}
          /\ cookies[r] \notin {"none", "aborted"} /\ r \in Requests
      BY <1>0, <1>4, <2>1 DEF Echo!RecvReply, Echo!Listening
    <3>2. r[1] \notin aborted
      BY <3>1 DEF AbortInv
    <3>3. Echo!Report(r, "replied").request = r
      BY DEF Echo!Report
    <3> QED
      BY <1>3, <3>1, <3>2, <3>3
  <2>2. CASE ~Echo!Listening(r)
    BY <1>4, <2>2 DEF Echo!RecvReply, AbortInv
  <2> QED
    BY <2>1, <2>2
<1>5. CASE Echo!Fires
  <2>1. PICK t \in pingTimers : Echo!TimerFires(t)
    BY <1>5 DEF Echo!Fires
  <2>2. t.request \in Requests /\ UNCHANGED <<aborted, pingsStarted>>
    BY <2>1 DEF Echo!TimerFires, PingInv, PingTypes, Records
  <2>3. CASE Echo!PingTimeout(t.request)
    <3> DEFINE r == t.request
    <3>1. /\ cookies' = [cookies EXCEPT ![r] = "none"]
          /\ reported' = IF cookies[r] = "pending"
                         THEN reported \cup {Echo!Report(r, "timeout")} ELSE reported
      BY <2>3 DEF Echo!PingTimeout
    <3>2. cookies[r] = "pending" => r[1] \notin aborted
      BY <2>2 DEF AbortInv
    <3>3. Echo!Report(r, "timeout").request = r
      BY DEF Echo!Report
    <3> HIDE DEF r
    <3>4. r \in Requests
      BY <2>2 DEF r
    <3> QED
      BY <1>3, <2>2, <3>1, <3>2, <3>3, <3>4
  <2>4. CASE Echo!NextPing(t.request, pingTimers \ {t}) /\ UNCHANGED <<reported, expired>>
    <3>1. CASE Echo!More(t.request)
      <4> DEFINE r == <<t.request[1], t.request[2] + 1>>
      <4>1. /\ cookies' = [cookies EXCEPT ![r] = cookies[t.request]]
            /\ cookies[t.request] \notin {"none", "aborted"} /\ t.request[2] < PingCount
        BY <2>4, <3>1 DEF Echo!NextPing, Echo!More, Echo!Request
      <4>2. r \in Requests /\ r[1] = t.request[1]
        BY <2>2, <4>1 DEF Requests, Numbers
      <4>3. r[1] \notin aborted
        BY <2>2, <4>1, <4>2 DEF AbortInv
      <4> HIDE DEF r
      <4> QED
        BY <1>3, <2>2, <2>4, <4>1, <4>2, <4>3
    <3>2. CASE ~Echo!More(t.request)
      BY <2>2, <2>4, <3>2 DEF Echo!NextPing, AbortInv
    <3> QED
      BY <3>1, <3>2
  <2> QED
    BY <2>1, <2>3, <2>4 DEF Echo!TimerFires
<1>6. ASSUME UNCHANGED <<cookies, aborted, pingsStarted, reported>>
      PROVE  AbortInv' /\ aborted' \subseteq Nat /\ Silent
  BY <1>6 DEF AbortInv
<1>7. CASE Echo!ClockTicks
  BY <1>6, <1>7 DEF Echo!ClockTicks, Echo!history
<1>8. ASSUME NEW r, Echo!Echo(r) PROVE AbortInv' /\ aborted' \subseteq Nat /\ Silent
  BY <1>6, <1>8 DEF Echo!Echo, Echo!history
<1>9. ASSUME NEW m, Echo!Lost(m) PROVE AbortInv' /\ aborted' \subseteq Nat /\ Silent
  BY <1>6, <1>9 DEF Echo!Lost, Echo!history
<1>10. CASE UNCHANGED Echo!vars
  BY <1>6, <1>10 DEF Echo!vars
<1> QED
  BY <1>1, <1>2, <1>4, <1>5, <1>7, <1>8, <1>9, <1>10 DEF Echo!Next

-----------------------------------------------------------------------------
(* The composed components                                                  *)

\* A step of the composition is one of its component, or leaves it alone.
LEMMA StepOfNat ==
  ASSUME [Next]_vars
  PROVE  Translation!Next \/ UNCHANGED Translation!vars
<1>1. CASE Next /\ part = "nat"
  BY <1>1 DEF Next
<1>2. CASE Next /\ part # "nat"
  BY <1>2 DEF Next, natVars, Translation!vars
<1>3. CASE UNCHANGED vars
  BY <1>3 DEF vars, natVars, Translation!vars
<1> QED
  BY <1>1, <1>2, <1>3

LEMMA StepOfPing ==
  ASSUME [Next]_vars
  PROVE  Echo!Next \/ UNCHANGED Echo!vars
<1>1. CASE Next /\ part = "ping"
  BY <1>1 DEF Next
<1>2. CASE Next /\ part # "ping"
  BY <1>2 DEF Next, pingVars, Echo!vars
<1>3. CASE UNCHANGED vars
  BY <1>3 DEF vars, pingVars, Echo!vars
<1> QED
  BY <1>1, <1>2, <1>3

LEMMA StepOfHandler ==
  ASSUME [Next]_vars
  PROVE  Handler!Next \/ UNCHANGED Handler!vars
<1>1. CASE Next /\ part = "handler"
  BY <1>1 DEF Next
<1>2. CASE Next /\ part # "handler"
  BY <1>2 DEF Next, handlerVars, Handler!vars
<1>3. CASE UNCHANGED vars
  BY <1>3 DEF vars, handlerVars, Handler!vars
<1> QED
  BY <1>1, <1>2, <1>3

LEMMA StepOfWait ==
  ASSUME [Next]_vars
  PROVE  Wait!Next \/ UNCHANGED Wait!vars
<1>1. CASE Next /\ part = "wait"
  BY <1>1 DEF Next
<1>2. CASE Next /\ part # "wait"
  BY <1>2 DEF Next, waitVars, Wait!vars
<1>3. CASE UNCHANGED vars
  BY <1>3 DEF vars, waitVars, Wait!vars
<1> QED
  BY <1>1, <1>2, <1>3

\* For any endpoints, ports and clean-up timers the two tables of the
\* translation agree (pico_nat.c), and for any number of pings, requests,
\* interval and timeout no request is reported both as answered and as lost
\* (pico_icmp4.c).
THEOREM TablesAndAnswersAgree ==
  ASSUME Endpoints, Numbers
  PROVE  Spec => []TablesAgree
<1>1. Init => NatInv /\ PingInv
  BY InitPaired, PingInit DEF Init
<1>2. NatInv /\ [Next]_vars => NatInv'
  BY StepOfNat, StepKeepsPaired
<1>3. PingInv /\ [Next]_vars => PingInv'
  BY StepOfPing, PingStep
<1>4. NatInv /\ PingInv => TablesAgree
  BY NatInvSuffices DEF PingInv, TablesAgree
<1> QED
  BY <1>1, <1>2, <1>3, <1>4, PTL DEF Spec

\* However many handlers the application starts, as long as it waits for the
\* one that it stops no two run together, and no address outlives its device
\* (pycotcp.py); a reader at an empty pipe is one that the stack will call back
\* for (lwipv6adapter.py).
THEOREM OneHandlerAtATime ==
  ASSUME MaxStarts \in Nat, Characters
  PROVE  Spec => []OneHandler
<1>1. Init => HandlerInv /\ WaitInv
  BY HandlerInit, InitExpects DEF Init
<1>2. HandlerInv /\ [Next]_vars => HandlerInv'
  BY StepOfHandler, HandlerStep
<1>3. WaitInv /\ [Next]_vars => WaitInv'
  BY StepOfWait, WaitStep
<1>4. HandlerInv /\ WaitInv => OneHandler
  BY HandlerSuffices, WaitInvSuffices DEF OneHandler
<1> QED
  BY <1>1, <1>2, <1>3, <1>4, PTL DEF Spec

\* While one timer runs, a tuple of UDP is not taken away before it was left unused for
\* a whole period, for any endpoints, ports and period (pico_nat.c).
THEOREM UsedTuplesAreKept ==
  ASSUME Endpoints, Ages
  PROVE  Spec => Translation!UsedTuplesStay
<1> DEFINE Kept == NatInv /\ AgeInv
<1>1. Init => Kept
  <2>1. ASSUME Translation!Init PROVE AgeInv
    <3>1. cleanups = <<>> /\ cleanups \in Seq(0 .. Period) /\ Len(cleanups) = 0
          /\ unused \in [Keys -> 0 .. Period] /\ \A k \in Keys : natOut[k].active = 0
      BY <2>1 DEF Translation!Init, Translation!NoTuple, Ages
    <3> QED
      BY <3>1 DEF AgeInv, Ages
  <2> QED
    BY <2>1, InitPaired DEF Init
<1>2. Kept /\ [Next]_vars => Kept'
  BY StepOfNat, StepKeepsPaired, StepKeepsAge
<1>3. Kept /\ [Next]_vars =>
        [\A k \in Keys :
           (k[2] = "udp" /\ natOut[k] # Translation!NoTuple /\ ~natOut[k].forward
              /\ natOut'[k] = Translation!NoTuple) => unused[k] >= Period]_(Translation!vars)
  BY StepOfNat, OnlyUnusedGo
<1> QED
  BY <1>1, <1>2, <1>3, PTL DEF Spec, Translation!UsedTuplesStay

\* However replies, timeouts and the requests that follow cross with an abort: the
\* operation reports nothing more after it (pico_icmp4.c).
THEOREM AbortedStaysSilent ==
  ASSUME Numbers
  PROVE  Spec => Echo!AbortIsFinal
<1> DEFINE Kept == PingInv /\ AbortInv /\ aborted \subseteq Nat
<1>1. Init => Kept
  <2>1. Echo!Init => AbortInv /\ aborted \subseteq Nat
    BY DEF Echo!Init, AbortInv
  <2> QED
    BY <2>1, PingInit DEF Init
<1>2. Kept /\ [Next]_vars => Kept'
  BY StepOfPing, PingStep, AbortStep
<1>3. Kept /\ [Next]_vars =>
        [\A id \in aborted : {c \in reported' : c.request[1] = id}
                             = {c \in reported : c.request[1] = id}]_(Echo!vars)
  BY StepOfPing, AbortStep
<1> QED
  BY <1>1, <1>2, <1>3, PTL DEF Spec, Echo!AbortIsFinal
-----------------------------------------------------------------------------
(* LoopScore                                                               *)

\* There are limits, and they do not cross.
Limits == /\ Loops \in Nat /\ MinScore \in Nat /\ MaxScore \in Nat /\ MinScore <= MaxScore
IsLoop(l) == /\ DOMAIN l = {"score", "index", "idle", "avg"}
             /\ l.score \in MinScore .. MaxScore
Scored(all) == /\ all = [i \in 1 .. Loops |-> all[i]]
               /\ \A i \in 1 .. Loops : IsLoop(all[i])

\* A loop that doubles or halves its score was asked first whether it can.
LEMMA LoopKeepsScore ==
  ASSUME Limits, NEW l, IsLoop(l), NEW used, NEW total
  PROVE  IsLoop(Load!Idle(l)) /\ IsLoop(Load!Busy(l, used, total))
<1> DEFINE m == Load!Sampled(l, used)
           z == Load!Sampled(l, 0)
<1>1. IsLoop(m) /\ m.score = l.score /\ IsLoop(z) /\ z.score = l.score
  <2>1. ASSUME NEW u
        PROVE  IsLoop(Load!Sampled(l, u)) /\ Load!Sampled(l, u).score = l.score
    BY DEF Load!Sampled, IsLoop
  <2> QED
    BY <2>1
<1> HIDE DEF m, z
<1>2. ASSUME NEW k, IsLoop(k), k.score = l.score
      PROVE  /\ Load!CanDouble(l) => IsLoop(Load!Doubled(k))
             /\ Load!CanHalve(l) => IsLoop(Load!Halved(k))
             /\ Load!CanHalve(l) => \A a : IsLoop([Load!Halved(k) EXCEPT !.avg = a])
  <2>1. ASSUME NEW x \in MinScore .. MaxScore
        PROVE  IsLoop([k EXCEPT !.score = x]) /\ \A a : IsLoop([[k EXCEPT !.score = x] EXCEPT !.avg = a])
    BY <1>2 DEF IsLoop
  <2>2. k.score \in MinScore .. MaxScore
    BY <1>2 DEF IsLoop
  <2>3. Load!CanDouble(l) => k.score * 2 \in MinScore .. MaxScore
    BY <1>2, <2>2 DEF Limits, Load!CanDouble
  <2>4. Load!CanHalve(l) => k.score \div 2 \in MinScore .. MaxScore
    BY <1>2, <2>2 DEF Limits, Load!CanHalve
  <2> QED
    BY <2>1, <2>3, <2>4 DEF Load!Doubled, Load!Halved
<1>3. IsLoop(Load!Idle(l))
  BY <1>1, <1>2, Zenon DEF Load!Idle, z
<1>4. IsLoop(Load!Busy(l, used, total))
  BY <1>1, <1>2, Zenon DEF Load!Busy, m
<1> QED
  BY <1>3, <1>4

\* One round of calc_score, for the loop i, after the loops before it came to s.
Round(used, s, i) ==
  LET l == load[i]
      m == IF used[i] = 0 THEN Load!Idle(l) ELSE Load!Busy(l, used[i], s.total)
  IN [all |-> [s.all EXCEPT ![i] = m],
      total |-> IF used[i] = 0 /\ m.score = l.score THEN s.total ELSE s.total + m.score]
FirstRound == [all |-> load, total |-> 0]
\* The function g is calc_score up to the loop n.
Rounds(g, n, used) ==
  g = [i \in 0 .. n |-> IF i = 0 THEN FirstRound ELSE Round(used, g[i - 1], i)]

LEMMA RoundsExist ==
  ASSUME Limits, NEW used
  PROVE  \E g : Rounds(g, Loops, used)
<1> DEFINE T == {n \in 0 .. Loops : ~\E g : Rounds(g, n, used)}
<1> SUFFICES ASSUME T # {} PROVE FALSE
  BY DEF Limits
<1>1. PICK n \in T : \A k \in T : ~(k < n)
  <2>1. IsWellFoundedOn(OpToRel(<, Nat), Nat)
    BY NatLessThanWellFounded
  <2>2. T \in SUBSET Nat
    BY DEF Limits
  <2> HIDE DEF T
  <2>3. PICK n \in T : \A k \in T : ~(<<k, n>> \in OpToRel(<, Nat))
    BY <2>1, <2>2, WFMin
  <2> QED
    BY <2>2, <2>3 DEF OpToRel
<1>2. n \in 0 .. Loops /\ n \in Nat
  BY DEF Limits
<1>3. n # 0
  <2> DEFINE g == [i \in 0 .. 0 |-> FirstRound]
  <2>1. Rounds(g, 0, used)
    BY DEF Rounds
  <2> QED
    BY <2>1
<1>4. PICK g : Rounds(g, n - 1, used)
  BY <1>1, <1>2, <1>3 DEF Limits
<1> DEFINE h == [i \in 0 .. n |-> IF i = n THEN Round(used, g[n - 1], n) ELSE g[i]]
<1>5. \A i \in 0 .. n - 1 : g[i] = IF i = 0 THEN FirstRound ELSE Round(used, g[i - 1], i)
  BY <1>4 DEF Rounds
<1>6. \A i \in 0 .. n : h[i] = IF i = 0 THEN FirstRound ELSE Round(used, h[i - 1], i)
  <2> SUFFICES ASSUME NEW i \in 0 .. n
               PROVE  h[i] = IF i = 0 THEN FirstRound ELSE Round(used, h[i - 1], i)
    OBVIOUS
  <2>1. CASE i = n
    <3>1. h[i - 1] = g[n - 1] /\ h[i] = Round(used, g[n - 1], n)
      BY <1>2, <1>3, <2>1
    <3> QED
      BY <1>3, <2>1, <3>1
  <2>2. CASE i # n
    <3>1. i \in 0 .. n - 1 /\ h[i] = g[i] /\ (i # 0 => h[i - 1] = g[i - 1])
      BY <1>2, <1>3, <2>2
    <3> QED
      BY <1>5, <3>1
  <2> QED
    BY <2>1, <2>2
<1>7. Rounds(h, n, used)
  BY <1>6 DEF Rounds
<1> QED
  BY <1>1, <1>7

LEMMA ScoresAreKept ==
  ASSUME Limits, Scored(load), NEW used
  PROVE  Scored(Load!CalcScore(used))
<1> DEFINE go == CHOOSE g : Rounds(g, Loops, used)
<1>1. Rounds(go, Loops, used)
  BY RoundsExist
<1>2. Load!CalcScore(used) = go[Loops].all
  BY DEF Load!CalcScore, Rounds, Round, FirstRound
<1> HIDE DEF go
<1>3. \A i \in 0 .. Loops : go[i] = IF i = 0 THEN FirstRound ELSE Round(used, go[i - 1], i)
  BY <1>1 DEF Rounds
<1> DEFINE T == {n \in 0 .. Loops : ~Scored(go[n].all)}
<1>4. T = {}
  <2> SUFFICES ASSUME T # {} PROVE FALSE
    OBVIOUS
  <2>1. PICK n \in T : \A k \in T : ~(k < n)
    <3>1. IsWellFoundedOn(OpToRel(<, Nat), Nat)
      BY NatLessThanWellFounded
    <3>2. T \in SUBSET Nat
      BY DEF Limits
    <3> HIDE DEF T
    <3>3. PICK n \in T : \A k \in T : ~(<<k, n>> \in OpToRel(<, Nat))
      BY <3>1, <3>2, WFMin
    <3> QED
      BY <3>2, <3>3 DEF OpToRel
  <2>2. n # 0
    BY <1>3, <2>1 DEF FirstRound
  <2>3. n - 1 \in 0 .. Loops /\ n \in 1 .. Loops /\ ~(n - 1 \in T) /\ n - 1 < n
    BY <2>1, <2>2 DEF Limits
  <2>4. Scored(go[n - 1].all) /\ go[n] = Round(used, go[n - 1], n)
    BY <1>3, <2>2, <2>3
  <2> DEFINE m == IF used[n] = 0 THEN Load!Idle(load[n]) ELSE Load!Busy(load[n], used[n], go[n - 1].total)
  <2>5. IsLoop(m)
    BY <2>3, LoopKeepsScore DEF Scored
  <2>6. go[n].all = [go[n - 1].all EXCEPT ![n] = m]
    BY <2>4 DEF Round
  <2> HIDE DEF m
  <2>7. Scored(go[n].all)
    BY <2>3, <2>4, <2>5, <2>6 DEF Scored
  <2> QED
    BY <2>1, <2>7
<1>5. Loops \in 0 .. Loops
  BY DEF Limits
<1> QED
  BY <1>2, <1>4, <1>5

LEMMA ScoresInitially ==
  ASSUME Limits, Load!Init
  PROVE  Scored(load)
<1> DEFINE l == [score |-> MinScore, index |-> 1, idle |-> FALSE, avg |-> [j \in 1 .. Samples |-> 0]]
<1>1. DOMAIN l = {"score", "index", "idle", "avg"} /\ l.score = MinScore
  OBVIOUS
<1>2. load = [i \in 1 .. Loops |-> l]
  BY DEF Load!Init
<1> HIDE DEF l
<1>3. IsLoop(l)
  BY <1>1 DEF Limits, IsLoop
<1> QED
  BY <1>2, <1>3 DEF Scored

LEMMA StepOfLoad ==
  ASSUME [Next]_vars
  PROVE  Load!Next \/ UNCHANGED load
<1>1. CASE Next /\ part = "load"
  BY <1>1 DEF Next
<1>2. CASE Next /\ part # "load"
  BY <1>2 DEF Next, loadVars
<1>3. CASE UNCHANGED vars
  BY <1>3 DEF vars, loadVars
<1> QED
  BY <1>1, <1>2, <1>3

LEMMA ScoreStep ==
  ASSUME Limits, Scored(load), Load!Next \/ UNCHANGED load
  PROVE  Scored(load)'
<1>1. CASE UNCHANGED load
  BY <1>1 DEF Scored, IsLoop
<1>2. CASE Load!Next
  <2>1. PICK used : load' = Load!CalcScore(used)
    BY <1>2 DEF Load!Next, Load!Tick
  <2>2. Scored(Load!CalcScore(used))
    BY ScoresAreKept
  <2> QED
    BY <2>1, <2>2 DEF Scored, IsLoop
<1> QED
  BY <1>1, <1>2

\* However busy or idle the loops of the stack are, none has ever less than the least
\* score or more than the largest (pico_stack.c: calc_score), for any number of loops and
\* samples and any limits.
THEOREM ScoresStayWithin ==
  ASSUME Limits
  PROVE  Spec => []Load!ScoresInRange
<1>1. Init => Scored(load)
  BY ScoresInitially DEF Init
<1>2. Scored(load) /\ [Next]_vars => Scored(load)'
  BY StepOfLoad, ScoreStep
<1>3. Scored(load) => Load!ScoresInRange
  BY DEF Scored, IsLoop, Load!ScoresInRange
<1> QED
  BY <1>1, <1>2, <1>3, PTL DEF Spec

-----------------------------------------------------------------------------
(* Numbers                                                                 *)

LEMMA LeastOne ==
  ASSUME NEW S \in SUBSET Nat, S # {}
  PROVE  \E n \in S : \A m \in S : ~(m < n)
<1>1. IsWellFoundedOn(OpToRel(<, Nat), Nat)
  BY NatLessThanWellFounded
<1>2. PICK n \in S : \A m \in S : ~(<<m, n>> \in OpToRel(<, Nat))
  BY <1>1, WFMin
<1> QED
  BY <1>2 DEF OpToRel

LEMMA RemainderBelow ==
  ASSUME NEW a \in Nat, NEW b \in Nat, a < b
  PROVE  a % b = a
OBVIOUS

-----------------------------------------------------------------------------
(* StackTimers: the heap of timers                                         *)

\* f is defined by recursion where x is in Going.
Recurs(f, S, Going, Step, Val, Base) ==
  f = [x \in S |-> IF x \in Going THEN [f[Step[x]] EXCEPT ![x] = Val[x]] ELSE Base[x]]

\* It exists if the recursion ends, as a rank falls with every step.
LEMMA RecursionEnds ==
  ASSUME NEW S, NEW bound \in Nat, NEW rank \in [S -> 0 .. bound], NEW Going, NEW Step,
         \A x \in S \cap Going : Step[x] \in S /\ rank[Step[x]] < rank[x],
         NEW Val, NEW Base
  PROVE  \E f : Recurs(f, S, Going, Step, Val, Base)
<1> DEFINE Low(k) == {x \in S : rank[x] < k}
           Body(f, x) == IF x \in Going THEN [f[Step[x]] EXCEPT ![x] = Val[x]] ELSE Base[x]
           Solved(k) == \E f : f = [x \in Low(k) |-> Body(f, x)]
           Open == {k \in Nat : ~Solved(k)}
<1>1. Solved(0)
  <2>1. Low(0) = {}
    OBVIOUS
  <2> DEFINE f == [x \in Low(0) |-> 0]
  <2>2. f = [x \in Low(0) |-> Body(f, x)]
    BY <2>1
  <2> QED
    BY <2>2
<1>2. ASSUME NEW k \in Nat, Solved(k) PROVE Solved(k + 1)
  <2>1. PICK f : f = [x \in Low(k) |-> Body(f, x)]
    BY <1>2
  <2> DEFINE g == [x \in Low(k + 1) |-> Body(f, x)]
  <2>2. \A x \in Low(k) : x \in Low(k + 1) /\ f[x] = g[x]
    <3>1. \A x \in Low(k) : f[x] = Body(f, x)
      BY <2>1
    <3>2. \A x \in Low(k) : x \in Low(k + 1)
      BY <1>2
    <3>3. \A x \in Low(k + 1) : g[x] = Body(f, x)
      OBVIOUS
    <3> HIDE DEF g, Body, Low
    <3> QED
      BY <3>1, <3>2, <3>3
  <2>3. \A x \in Low(k + 1) : x \in Going => Step[x] \in Low(k)
    BY <1>2
  <2>4. \A x \in Low(k + 1) : Body(f, x) = Body(g, x)
    <3> HIDE DEF g, Low
    <3> QED
      BY <2>2, <2>3
  <2>5. g = [x \in Low(k + 1) |-> Body(g, x)]
    <3>1. \A x \in Low(k + 1) : g[x] = Body(g, x)
      BY <2>4
    <3>2. g = [x \in Low(k + 1) |-> g[x]]
      OBVIOUS
    <3> HIDE DEF g, Body, Low
    <3> QED
      BY <3>1, <3>2
  <2> HIDE DEF g
  <2> QED
    BY <2>5
<1>3. Open = {}
  <2> SUFFICES ASSUME Open # {} PROVE FALSE
    OBVIOUS
  <2>1. PICK m \in Open : \A k \in Open : ~(k < m)
    <3>1. Open \in SUBSET Nat
      OBVIOUS
    <3> HIDE DEF Open
    <3> QED
      BY <3>1, LeastOne
  <2>2. m \in Nat /\ ~Solved(m)
    <3> HIDE DEF Solved
    <3> QED
      BY <2>1
  <2> HIDE DEF Solved
  <2>3. m # 0
    BY <1>1, <2>2
  <2>4. m - 1 \in Nat /\ m - 1 < m
    BY <2>2, <2>3
  <2>5. Solved(m - 1)
    BY <2>1, <2>4
  <2>6. Solved(m - 1 + 1)
    BY <1>2, <2>4, <2>5
  <2>7. m - 1 + 1 = m
    BY <2>2
  <2> QED
    BY <2>2, <2>6, <2>7
<1>4. Solved(bound + 1)
  <2> HIDE DEF Solved
  <2> QED
    BY <1>3
<1>5. Low(bound + 1) = S
  OBVIOUS
<1> QED
  BY <1>4, <1>5 DEF Recurs

Refs == [expire : Int, id : Nat, tmr : BOOLEAN]
\* No reference is in two places of 1 .. n.
Apart(n, S) == \A j, k \in 1 .. n : S[j] = S[k] => j = k
\* The first n places of G hold what those of S hold, but el instead of S[i].
Filled(n, G, S, i, el) ==
  /\ \A j \in 1 .. n : G[j] = el \/ \E k \in 1 .. n : k # i /\ G[j] = S[k]
  /\ \E j \in 1 .. n : G[j] = el
  /\ \A k \in 1 .. n : k # i => \E j \in 1 .. n : G[j] = S[k]
  /\ Apart(n, G)

LEMMA FillsPlace ==
  ASSUME NEW n \in Nat, NEW S, Apart(n, S), NEW i \in 1 .. n, NEW el,
         \A j \in 1 .. n : j # i => S[j] # el,
         NEW F, F[i] = el, \A j \in 1 .. n : j # i => F[j] = S[j]
  PROVE  Filled(n, F, S, i, el)
BY DEF Filled, Apart

LEMMA MovesPlace ==
  ASSUME NEW n \in Nat, NEW S, Apart(n, S), NEW i \in 1 .. n, NEW q \in 1 .. n, i # q,
         NEW el, \A j \in 1 .. n : S[j] # el,
         NEW G, Filled(n, G, S, q, el), G[i] = S[i],
         NEW F, F[i] = S[q], \A j \in 1 .. n : j # i => F[j] = G[j]
  PROVE  Filled(n, F, S, i, el)
<1>1. F[i] = S[q] /\ \A j \in 1 .. n : j # i => F[j] = G[j]
  OBVIOUS
<1>2. \A j \in 1 .. n : F[j] = el \/ \E k \in 1 .. n : k # i /\ F[j] = S[k]
  <2> SUFFICES ASSUME NEW j \in 1 .. n, j # i, F[j] # el
               PROVE  \E k \in 1 .. n : k # i /\ F[j] = S[k]
    BY <1>1
  <2>1. PICK k \in 1 .. n : k # q /\ G[j] = S[k]
    BY <1>1 DEF Filled
  <2>2. k # i
    BY <2>1 DEF Filled, Apart
  <2> QED
    BY <1>1, <2>1, <2>2
<1>3. \E j \in 1 .. n : F[j] = el
  BY <1>1 DEF Filled
<1>4. ASSUME NEW k \in 1 .. n, k # i PROVE \E j \in 1 .. n : F[j] = S[k]
  BY <1>1, <1>4 DEF Filled, Apart
<1>5. Apart(n, F)
  <2>1. \A j \in 1 .. n : j # i => F[j] # S[q]
    BY <1>1 DEF Filled, Apart
  <2> QED
    BY <1>1, <2>1 DEF Filled, Apart
<1>6. \A k \in 1 .. n : k # i => \E j \in 1 .. n : F[j] = S[k]
  BY <1>4
<1> QED
  BY <1>2, <1>3, <1>5, <1>6 DEF Filled

\* No reference expires before the one above it.
Layered(n, S) == \A j \in 2 .. n : S[j \div 2].expire <= S[j].expire

LEMMA Halves ==
  ASSUME NEW j \in Nat
  PROVE  /\ j \div 2 \in Nat /\ (j \div 2 = 0 <=> j < 2)
         /\ j > 0 => j \div 2 < j
         /\ \A i \in Nat : j \div 2 = i <=> j = 2 * i \/ j = 2 * i + 1
OBVIOUS

LEMMA TopIsFirst ==
  ASSUME NEW n \in Nat, NEW S, \A j \in 1 .. n : S[j] \in Refs, Layered(n, S)
  PROVE  \A j \in 1 .. n : S[1].expire <= S[j].expire
<1> DEFINE T == {j \in 1 .. n : ~(S[1].expire <= S[j].expire)}
<1> SUFFICES ASSUME T # {} PROVE FALSE
  OBVIOUS
<1>1. PICK m \in T : \A k \in T : ~(k < m)
  <2>1. T \in SUBSET Nat
    OBVIOUS
  <2> HIDE DEF T
  <2> QED
    BY <2>1, LeastOne
<1>2. m \in 1 .. n /\ ~(S[1].expire <= S[m].expire)
  BY <1>1
<1>3. m # 1
  BY <1>2 DEF Refs
<1>4. m \div 2 \in 1 .. n /\ m \div 2 < m
  BY <1>2, <1>3, Halves
<1>5. S[1].expire <= S[m \div 2].expire
  BY <1>1, <1>4
<1>6. S[m \div 2].expire <= S[m].expire
  BY <1>2, <1>3 DEF Layered
<1> QED
  BY <1>2, <1>4, <1>5, <1>6 DEF Refs

IsRising(up, h, el) ==
  up = [i \in 1..Len(h) + 1 |->
          IF i > 1 /\ Append(h, el)[i \div 2].expire > el.expire
          THEN [up[i \div 2] EXCEPT ![i] = h[i \div 2]]
          ELSE [Append(h, el) EXCEPT ![i] = el]]

LEMMA Rises ==
  ASSUME NEW h \in Seq(Refs), NEW el \in Refs
  PROVE  IsRising(Heap!Rising(h, el), h, el)
<1> DEFINE S == 1 .. Len(h) + 1
           H == Append(h, el)
           Going == {i \in S : i > 1 /\ H[i \div 2].expire > el.expire}
           Step == [i \in S |-> i \div 2]
           Val == [i \in S |-> h[i \div 2]]
           Base == [i \in S |-> [H EXCEPT ![i] = el]]
           rank == [i \in S |-> i]
<1>1. Len(h) + 1 \in Nat /\ rank \in [S -> 0 .. Len(h) + 1]
  OBVIOUS
<1>2. \A x \in S \cap Going : Step[x] \in S /\ rank[Step[x]] < rank[x]
  BY Halves
<1>3. \E f : Recurs(f, S, Going, Step, Val, Base)
  <2> HIDE DEF S, Going, Step, Val, Base, rank
  <2> QED
    BY <1>1, <1>2, RecursionEnds
<1>4. PICK f : f = [x \in S |-> IF x \in Going THEN [f[Step[x]] EXCEPT ![x] = Val[x]] ELSE Base[x]]
  BY <1>3 DEF Recurs
<1>5. IsRising(f, h, el)
  BY <1>4 DEF IsRising
<1>6. Heap!Rising(h, el) = CHOOSE up : IsRising(up, h, el)
  BY DEF Heap!Rising, IsRising
<1> QED
  BY <1>5, <1>6

\* What is known of up[i] when el does go above i: it has taken the place of a
\* reference that went down, and nothing below i has moved.
Risen(up, i, h, el) ==
  LET n == Len(h)
      H == Append(h, el)
  IN /\ up[i] \in [1 .. n + 1 -> Refs]
     /\ \A j \in 1 .. n + 1 : j > i => up[i][j] = H[j]
     /\ Filled(n, up[i], H, i, el)
     /\ Layered(n, up[i])
     /\ \A j \in 1 .. n : up[i][j].expire <= H[j].expire
     /\ H[1].expire <= el.expire => up[i][1] = H[1]

Fresh(h, el) == \A j \in 1 .. Len(h) : h[j] # el

LEMMA Appended ==
  ASSUME NEW R, NEW h \in Seq(R), NEW el \in R
  PROVE  /\ Append(h, el) \in [1 .. Len(h) + 1 -> R]
         /\ \A j \in 1 .. Len(h) : Append(h, el)[j] = h[j]
         /\ Append(h, el)[Len(h) + 1] = el
<1>1. Len(h) \in Nat /\ Append(h, el) \in Seq(R) /\ Len(Append(h, el)) = Len(h) + 1
  OBVIOUS
<1>2. Append(h, el) \in [1 .. Len(h) + 1 -> R]
  <2> DEFINE H == Append(h, el)
  <2> HIDE DEF H
  <2>1. H \in Seq(R) /\ Len(H) = Len(h) + 1
    BY <1>1 DEF H
  <2>2. H \in [1 .. Len(h) + 1 -> R]
    BY <2>1
  <2> QED
    BY <2>2 DEF H
<1>3. \A j \in 1 .. Len(h) : Append(h, el)[j] = h[j]
  BY <1>1
<1>4. Append(h, el)[Len(h) + 1] = el
  BY <1>1
<1> QED
  BY <1>2, <1>3, <1>4

LEMMA RisesTo ==
  ASSUME NEW h \in Seq(Refs), NEW el \in Refs, Apart(Len(h), h), Layered(Len(h), h),
         Fresh(h, el), NEW up, IsRising(up, h, el), NEW i \in 1 .. Len(h),
         h[i].expire > el.expire,
         \A k \in 1 .. Len(h) : k < i /\ h[k].expire > el.expire => Risen(up, k, h, el)
  PROVE  Risen(up, i, h, el)
<1> DEFINE n == Len(h)
           H == Append(h, el)
           p == i \div 2
<1>0. n \in Nat /\ i \in 1 .. n + 1 /\ i \in 1 .. n /\ \A j \in 1 .. n : j \in 1 .. n + 1
  OBVIOUS
<1>1. /\ H \in [1 .. n + 1 -> Refs] /\ \A j \in 1 .. n : H[j] = h[j] /\ H[j] # el
      /\ n \in Nat /\ i \in 1 .. n + 1 /\ i \in 1 .. n /\ \A j \in 1 .. n : j \in 1 .. n + 1
  BY <1>0, Appended DEF Fresh
<1>2. up[i] = IF i > 1 /\ H[p].expire > el.expire
              THEN [up[p] EXCEPT ![i] = h[p]] ELSE [H EXCEPT ![i] = el]
  <2> HIDE DEF H
  <2> QED
    BY <1>0 DEF IsRising, H
<1>3. Apart(n, H) /\ Layered(n, H)
  <2>1. \A j \in 2 .. n : j \in 1 .. n /\ j \div 2 \in 1 .. n
    BY <1>1, Halves
  <2> HIDE DEF H
  <2> QED
    BY <1>1, <2>1 DEF Apart, Layered
<1>4. i > 1 => p \in 1 .. n /\ p < i /\ H[p].expire <= H[i].expire
  <2>1. i > 1 => p \in 1 .. n /\ p < i
    BY <1>1, Halves
  <2> HIDE DEF H
  <2> QED
    BY <1>3, <2>1 DEF Layered
<1>5. \A j \in 2 .. n : /\ j \in 1 .. n /\ j \div 2 \in 1 .. n /\ H[j \div 2].expire <= H[j].expire
                        /\ j \div 2 < j
  <2>1. \A j \in 2 .. n : j \in 1 .. n /\ j \div 2 \in 1 .. n /\ j \div 2 < j
    BY <1>1, Halves
  <2> HIDE DEF H
  <2> QED
    BY <1>3, <2>1 DEF Layered
<1>6. \A j \in 1 .. n : H[j] \in Refs /\ H[j].expire \in Int
  <2> HIDE DEF H
  <2> QED
    BY <1>1 DEF Refs
<1>7. el.expire \in Int /\ H[i].expire > el.expire
  BY <1>1 DEF Refs
<1>8. CASE ~(i > 1 /\ H[p].expire > el.expire)
  <2> DEFINE G == [H EXCEPT ![i] = el]
  <2>0. up[i] = G
    BY <1>2, <1>8
  <2> HIDE DEF H, p
  <2>1. G \in [1 .. n + 1 -> Refs] /\ G[i] = el /\ \A j \in 1 .. n + 1 : j # i => G[j] = H[j]
    BY <1>1
  <2>2. Filled(n, G, H, i, el)
    <3> HIDE DEF n
    <3> QED
      BY <1>1, <1>3, FillsPlace
  <2> HIDE DEF G
  <2>3. \A j \in 1 .. n : G[j].expire <= H[j].expire
    BY <1>1, <1>6, <1>7, <2>1
  <2>4. Layered(n, G)
    <3> SUFFICES ASSUME NEW j \in 2 .. n PROVE G[j \div 2].expire <= G[j].expire
      BY DEF Layered
    <3>1. j \in 1 .. n /\ j \div 2 \in 1 .. n /\ H[j \div 2].expire <= H[j].expire
      BY <1>5
    <3>2. CASE j = i
      <4>1. j \div 2 = p /\ i > 1 /\ ~(H[p].expire > el.expire) /\ p \in 1 .. n /\ p # i
        BY <1>1, <1>4, <1>8, <3>2 DEF p
      <4>2. G[p] = H[p] /\ H[p].expire \in Int
        BY <1>1, <1>6, <2>1, <4>1
      <4> QED
        BY <1>7, <2>1, <3>2, <4>1, <4>2
    <3>3. CASE j # i
      <4>1. G[j] = H[j] /\ G[j \div 2].expire <= H[j \div 2].expire
        BY <1>1, <2>1, <2>3, <3>1, <3>3
      <4>2. /\ G[j \div 2].expire \in Int /\ H[j \div 2].expire \in Int
            /\ H[j].expire \in Int
        BY <1>1, <1>6, <2>1, <3>1 DEF Refs
      <4> QED
        BY <3>1, <4>1, <4>2
    <3> QED
      BY <3>2, <3>3
  <2>5. H[1].expire <= el.expire => G[1] = H[1]
    <3>1. 1 \in 1 .. n /\ 1 \in 1 .. n + 1 /\ H[1].expire \in Int
      BY <1>1, <1>6
    <3> QED
      BY <1>7, <2>1, <3>1
  <2>6. \A j \in 1 .. n + 1 : j > i => G[j] = H[j]
    BY <1>1, <2>1
  <2> QED
    BY <2>0, <2>1, <2>2, <2>3, <2>4, <2>5, <2>6, <1>1 DEF Risen, H
<1>9. CASE i > 1 /\ H[p].expire > el.expire
  <2> DEFINE F == up[p]
             G == [F EXCEPT ![i] = H[p]]
  <2>0. p \in 1 .. n /\ p < i /\ up[i] = G /\ i # p
    BY <1>1, <1>2, <1>4, <1>9
  <2>1. Risen(up, p, h, el)
    BY <1>1, <1>9, <2>0
  <2>2. /\ F \in [1 .. n + 1 -> Refs]
        /\ \A j \in 1 .. n + 1 : j > p => F[j] = H[j]
        /\ Filled(n, F, H, p, el)
        /\ Layered(n, F)
        /\ \A j \in 1 .. n : F[j].expire <= H[j].expire
        /\ H[1].expire <= el.expire => F[1] = H[1]
    BY <2>1 DEF Risen
  <2> HIDE DEF H, p, F
  <2>3. /\ G \in [1 .. n + 1 -> Refs] /\ G[i] = H[p] /\ \A j \in 1 .. n + 1 : j # i => G[j] = F[j]
        /\ F[i] = H[i]
    BY <1>1, <2>0, <2>2
  <2>4. Filled(n, G, H, i, el)
    <3> HIDE DEF n
    <3> QED
      BY <1>1, <1>3, <2>0, <2>2, <2>3, MovesPlace
  <2> HIDE DEF G
  <2>5. \A j \in 1 .. n : G[j].expire <= H[j].expire
    BY <1>1, <1>4, <1>6, <1>9, <2>2, <2>3
  <2>6. Layered(n, G)
    <3> SUFFICES ASSUME NEW j \in 2 .. n PROVE G[j \div 2].expire <= G[j].expire
      BY DEF Layered
    <3>1. j \in 1 .. n /\ j \div 2 \in 1 .. n /\ H[j \div 2].expire <= H[j].expire /\ j \div 2 < j
      BY <1>5
    <3>2. CASE j = i
      <4>1. j \div 2 = p /\ G[p].expire <= H[p].expire
        BY <2>0, <2>5, <3>2 DEF p
      <4> QED
        BY <2>3, <3>2, <4>1
    <3>3. CASE j \div 2 = i
      <4>0. j > p /\ j # i /\ j \in 1 .. n + 1
        BY <1>1, <2>0, <3>1, <3>3
      <4>1. G[j] = H[j] /\ H[p].expire <= H[i].expire
        BY <1>4, <1>9, <2>2, <2>3, <4>0
      <4>2. H[i].expire <= H[j].expire /\ G[j \div 2] = H[p]
        BY <2>3, <3>1, <3>3
      <4>3. H[i].expire \in Int /\ H[j].expire \in Int /\ H[p].expire \in Int
        BY <1>1, <1>6, <2>0, <3>1
      <4> QED
        BY <4>1, <4>2, <4>3
    <3>4. CASE j # i /\ j \div 2 # i
      BY <1>1, <2>2, <2>3, <3>1, <3>4 DEF Layered
    <3> QED
      BY <3>2, <3>3, <3>4
  <2>7. \A j \in 1 .. n + 1 : j > i => G[j] = H[j]
    BY <1>1, <2>0, <2>2, <2>3
  <2>8. H[1].expire <= el.expire => G[1] = H[1]
    <3>1. 1 \in 1 .. n /\ 1 \in 1 .. n + 1 /\ 1 # i
      BY <1>1, <1>9
    <3> QED
      BY <2>2, <2>3, <3>1
  <2> QED
    BY <2>0, <2>3, <2>4, <2>5, <2>6, <2>7, <2>8 DEF Risen, H
<1> QED
  BY <1>8, <1>9

LEMMA RisesEverywhere ==
  ASSUME NEW h \in Seq(Refs), NEW el \in Refs, Apart(Len(h), h), Layered(Len(h), h),
         Fresh(h, el), NEW up, IsRising(up, h, el)
  PROVE  \A i \in 1 .. Len(h) : h[i].expire > el.expire => Risen(up, i, h, el)
<1> DEFINE T == {i \in 1 .. Len(h) : h[i].expire > el.expire /\ ~Risen(up, i, h, el)}
<1> SUFFICES ASSUME T # {} PROVE FALSE
  OBVIOUS
<1>1. PICK m \in T : \A k \in T : ~(k < m)
  <2>1. T \in SUBSET Nat
    OBVIOUS
  <2> HIDE DEF T
  <2> QED
    BY <2>1, LeastOne
<1>2. m \in 1 .. Len(h) /\ h[m].expire > el.expire /\ ~Risen(up, m, h, el)
  BY <1>1
<1>3. \A k \in 1 .. Len(h) : k < m /\ h[k].expire > el.expire => Risen(up, k, h, el)
  BY <1>1
<1> QED
  BY <1>2, <1>3, RisesTo

\* An insertion into a heap: the reference is added, and the heap stays one; the top
\* stays unless the new reference expires before it.
Inserted(G, h, el) ==
  /\ G \in Seq(Refs) /\ Len(G) = Len(h) + 1
  /\ \A r : (\E j \in 1 .. Len(G) : G[j] = r) <=> r = el \/ \E j \in 1 .. Len(h) : h[j] = r
  /\ Apart(Len(G), G) /\ Layered(Len(G), G)
  /\ Len(h) > 0 /\ h[1].expire <= el.expire => G[1] = h[1]

LEMMA Inserts ==
  ASSUME NEW h \in Seq(Refs), NEW el \in Refs, Apart(Len(h), h), Layered(Len(h), h),
         Fresh(h, el), NEW G, G = Heap!Insert(h, el)
  PROVE  Inserted(G, h, el)
<1> SUFFICES
      /\ G \in Seq(Refs) /\ Len(G) = Len(h) + 1
      /\ \A r : (\E j \in 1 .. Len(G) : G[j] = r) <=> r = el \/ \E j \in 1 .. Len(h) : h[j] = r
      /\ Apart(Len(G), G) /\ Layered(Len(G), G)
      /\ Len(h) > 0 /\ h[1].expire <= el.expire => G[1] = h[1]
  BY DEF Inserted
<1> DEFINE n == Len(h)
           H == Append(h, el)
           p == (n + 1) \div 2
<1>1. PICK up : IsRising(up, h, el) /\ G = up[n + 1]
  BY Rises DEF Heap!Insert
<1>2. /\ n \in Nat /\ n + 1 \in 1 .. n + 1 /\ \A j \in 1 .. n : j \in 1 .. n + 1 /\ j # n + 1
      /\ \A j \in 1 .. n + 1 : j \in 1 .. n \/ j = n + 1
  OBVIOUS
<1>3. /\ H \in [1 .. n + 1 -> Refs] /\ \A j \in 1 .. n : H[j] = h[j] /\ H[j] # el
      /\ H[n + 1] = el
  BY Appended DEF Fresh
<1>4. G = IF n + 1 > 1 /\ H[p].expire > el.expire
          THEN [up[p] EXCEPT ![n + 1] = h[p]] ELSE [H EXCEPT ![n + 1] = el]
  <2> HIDE DEF H
  <2> QED
    BY <1>1, <1>2 DEF IsRising, H
<1>5. n + 1 > 1 => p \in 1 .. n /\ p < n + 1
  BY <1>2, Halves
<1>6. SUFFICES /\ G \in [1 .. n + 1 -> Refs]
               /\ \A r : (\E j \in 1 .. n + 1 : G[j] = r)
                           <=> r = el \/ \E j \in 1 .. n : h[j] = r
               /\ Apart(n + 1, G) /\ Layered(n + 1, G)
               /\ n > 0 /\ h[1].expire <= el.expire => G[1] = h[1]
  <2>1. ASSUME G \in [1 .. n + 1 -> Refs] PROVE G \in Seq(Refs) /\ Len(G) = n + 1
    BY <1>2, <2>1
  <2> HIDE DEF n
  <2> QED
    BY <2>1 DEF n
<1>7. CASE ~(n + 1 > 1 /\ H[p].expire > el.expire)
  <2> HIDE DEF H, p
  <2>1. G = H
    BY <1>2, <1>3, <1>4, <1>7
  <2>2. \A r : (\E j \in 1 .. n + 1 : G[j] = r) <=> r = el \/ \E j \in 1 .. n : h[j] = r
    BY <1>2, <1>3, <2>1
  <2>3. Apart(n + 1, G)
    BY <1>2, <1>3, <2>1 DEF Apart
  <2>4. Layered(n + 1, G)
    <3> SUFFICES ASSUME NEW j \in 2 .. n + 1 PROVE H[j \div 2].expire <= H[j].expire
      BY <2>1 DEF Layered
    <3>1. CASE j = n + 1
      <4>1. n + 1 > 1 /\ p \in 1 .. n /\ H[p] \in Refs /\ j \div 2 = p
        BY <1>2, <1>3, <1>5, <3>1 DEF p
      <4>2. H[p].expire \in Int /\ el.expire \in Int /\ ~(H[p].expire > el.expire)
        BY <1>7, <4>1 DEF Refs
      <4> QED
        BY <1>3, <3>1, <4>1, <4>2
    <3>2. CASE j # n + 1
      <4>1. j \in 2 .. n /\ j \in 1 .. n /\ j \div 2 \in 1 .. n
        BY <1>2, <3>2, Halves
      <4> QED
        BY <1>3, <4>1 DEF Layered
    <3> QED
      BY <3>1, <3>2
  <2> QED
    BY <1>2, <1>3, <2>1, <2>2, <2>3, <2>4
<1>8. CASE n + 1 > 1 /\ H[p].expire > el.expire
  <2> DEFINE F == up[p]
  <2>1. p \in 1 .. n /\ h[p].expire > el.expire /\ H[p] = h[p]
    BY <1>3, <1>5, <1>8
  <2>2. Risen(up, p, h, el)
    BY <1>1, <2>1, RisesEverywhere
  <2>3. /\ F \in [1 .. n + 1 -> Refs]
        /\ Filled(n, F, H, p, el)
        /\ Layered(n, F)
        /\ \A j \in 1 .. n : F[j].expire <= H[j].expire
        /\ H[1].expire <= el.expire => F[1] = H[1]
    BY <2>2 DEF Risen
  <2> HIDE DEF H, p, F
  <2>4. /\ G \in [1 .. n + 1 -> Refs] /\ G[n + 1] = H[p]
        /\ \A j \in 1 .. n : G[j] = F[j]
    BY <1>2, <1>4, <1>8, <2>1, <2>3 DEF F
  <2>5. \A j \in 1 .. n : h[j] = h[p] => j = p
    BY <2>1 DEF Apart
  <2>6. \A r : (\E j \in 1 .. n + 1 : G[j] = r) <=> r = el \/ \E j \in 1 .. n : h[j] = r
    <3>1. ASSUME NEW j \in 1 .. n + 1 PROVE G[j] = el \/ \E k \in 1 .. n : h[k] = G[j]
      <4>1. CASE j = n + 1
        BY <2>1, <2>4, <4>1
      <4>2. CASE j \in 1 .. n
        <5>1. F[j] = el \/ \E k \in 1 .. n : F[j] = H[k]
          BY <2>3, <4>2 DEF Filled
        <5> QED
          BY <1>3, <2>4, <4>2, <5>1
      <4> QED
        BY <1>2, <4>1, <4>2
    <3>2. \E j \in 1 .. n + 1 : G[j] = el
      BY <1>2, <2>3, <2>4 DEF Filled
    <3>3. ASSUME NEW k \in 1 .. n PROVE \E j \in 1 .. n + 1 : G[j] = h[k]
      <4>1. CASE k = p
        BY <1>2, <2>1, <2>4, <4>1
      <4>2. CASE k # p
        <5>1. PICK j \in 1 .. n : F[j] = H[k]
          BY <2>3, <4>2 DEF Filled
        <5> QED
          BY <1>2, <1>3, <2>4, <5>1
      <4> QED
        BY <4>1, <4>2
    <3> QED
      BY <3>1, <3>2, <3>3
  <2>7. Apart(n + 1, G)
    <3>1. \A j \in 1 .. n : F[j] # H[p]
      BY <1>3, <2>1, <2>3, <2>5 DEF Filled
    <3> QED
      BY <1>2, <2>3, <2>4, <3>1 DEF Apart, Filled
  <2>8. Layered(n + 1, G)
    <3> SUFFICES ASSUME NEW j \in 2 .. n + 1 PROVE G[j \div 2].expire <= G[j].expire
      BY DEF Layered
    <3>1. CASE j = n + 1
      <4>1. j \div 2 = p
        BY <3>1 DEF p
      <4> QED
        BY <2>1, <2>3, <2>4, <3>1, <4>1
    <3>2. CASE j # n + 1
      <4>1. j \in 2 .. n /\ j \in 1 .. n /\ j \div 2 \in 1 .. n
        BY <1>2, <3>2, Halves
      <4> QED
        BY <2>3, <2>4, <4>1 DEF Layered
    <3> QED
      BY <3>1, <3>2
  <2>9. h[1].expire <= el.expire => G[1] = h[1]
    <3>1. 1 \in 1 .. n
      BY <1>2, <2>1
    <3> QED
      BY <1>3, <2>3, <2>4, <3>1
  <2> QED
    BY <2>4, <2>6, <2>7, <2>8, <2>9
<1> QED
  BY <1>7, <1>8

IsSinking(down, h) ==
  down = [i \in 1..Len(h) - 1 |->
            IF 2 * i <= Len(h) - 1 /\ h[Len(h) - 1 + 1].expire > h[Heap!Child(h, i)].expire
            THEN [down[Heap!Child(h, i)] EXCEPT ![i] = h[Heap!Child(h, i)]]
            ELSE [SubSeq(h, 1, Len(h) - 1) EXCEPT ![i] = h[Len(h) - 1 + 1]]]

\* The child that is looked at is the one that expires first.
LEMMA FirstChild ==
  ASSUME NEW h \in Seq(Refs), NEW i \in 1 .. Len(h) - 1, 2 * i <= Len(h) - 1
  PROVE  /\ Heap!Child(h, i) \in 1 .. Len(h) - 1 /\ Heap!Child(h, i) > i
         /\ Heap!Child(h, i) \in 2 .. Len(h) - 1 /\ Heap!Child(h, i) \div 2 = i
         /\ \A j \in 1 .. Len(h) - 1 :
              j \div 2 = i => h[Heap!Child(h, i)].expire <= h[j].expire
<1> DEFINE c == Heap!Child(h, i)
<1>1. Len(h) \in Nat /\ (2 * i # Len(h) - 1 => 2 * i + 1 <= Len(h) - 1)
  OBVIOUS
<1>2. /\ c \in 1 .. Len(h) - 1 /\ c > i /\ c \in 2 .. Len(h) - 1 /\ c \div 2 = i
      /\ (c = 2 * i \/ c = 2 * i + 1)
  BY <1>1 DEF Heap!Child
<1>3. ASSUME NEW j \in 1 .. Len(h) - 1, j \div 2 = i PROVE h[c].expire <= h[j].expire
  <2>1. j = 2 * i \/ j = 2 * i + 1
    BY <1>3, Halves
  <2>2. \A k \in 1 .. Len(h) - 1 : h[k].expire \in Int
    <3>1. \A k \in 1 .. Len(h) - 1 : h[k] \in Refs
      BY <1>1
    <3> QED
      BY <3>1 DEF Refs
  <2>3. c = j \/ h[c].expire <= h[j].expire
    <3>1. CASE j = 2 * i
      <4>1. c = j \/ (c = 2 * i + 1 /\ h[2 * i + 1].expire < h[2 * i].expire)
        BY <3>1 DEF Heap!Child
      <4> QED
        BY <1>2, <2>2, <3>1, <4>1
    <3>2. CASE j = 2 * i + 1
      <4>1. 2 * i # Len(h) - 1 /\ 2 * i \in 1 .. Len(h) - 1
        BY <1>1, <3>2
      <4>2. c = j \/ (c = 2 * i /\ ~(h[2 * i + 1].expire < h[2 * i].expire))
        BY <3>2, <4>1 DEF Heap!Child
      <4> QED
        BY <2>2, <3>2, <4>1, <4>2
    <3> QED
      BY <2>1, <3>1, <3>2
  <2>4. c \in 1 .. Len(h) - 1 /\ h[c].expire \in Int
    BY <1>2, <2>2
  <2> HIDE DEF c
  <2> QED
    BY <2>3, <2>4
<1> QED
  BY <1>2, <1>3

LEMMA Sinks ==
  ASSUME NEW h \in Seq(Refs), Len(h) > 0
  PROVE  IsSinking(Heap!Sinking(h), h)
<1> DEFINE n == Len(h) - 1
           S == 1 .. n
           Going == {i \in S : 2 * i <= n /\ h[n + 1].expire > h[Heap!Child(h, i)].expire}
           Step == [i \in S |-> Heap!Child(h, i)]
           Val == [i \in S |-> h[Heap!Child(h, i)]]
           Base == [i \in S |-> [SubSeq(h, 1, n) EXCEPT ![i] = h[n + 1]]]
           rank == [i \in S |-> n - i]
<1>1. n \in Nat /\ rank \in [S -> 0 .. n]
  OBVIOUS
<1>2. \A x \in S \cap Going : Step[x] \in S /\ rank[Step[x]] < rank[x]
  <2> SUFFICES ASSUME NEW x \in S \cap Going PROVE Step[x] \in S /\ rank[Step[x]] < rank[x]
    OBVIOUS
  <2>1. x \in S /\ 2 * x <= n
    OBVIOUS
  <2>2. Heap!Child(h, x) \in S /\ Heap!Child(h, x) > x
    BY <2>1, FirstChild
  <2> HIDE DEF Going
  <2> QED
    BY <2>1, <2>2
<1>3. \E f : Recurs(f, S, Going, Step, Val, Base)
  <2> HIDE DEF S, Going, Step, Val, Base, rank, n
  <2> QED
    BY <1>1, <1>2, RecursionEnds
<1>4. PICK f : f = [x \in S |-> IF x \in Going THEN [f[Step[x]] EXCEPT ![x] = Val[x]] ELSE Base[x]]
  BY <1>3 DEF Recurs
<1>5. IsSinking(f, h)
  BY <1>4 DEF IsSinking
<1>6. Heap!Sinking(h) = CHOOSE down : IsSinking(down, h)
  BY DEF Heap!Sinking, IsSinking
<1> QED
  BY <1>5, <1>6

\* What is known of down[i]: the last reference has taken the place of one that went
\* up, and nothing above i has moved.
Sunk(down, i, h) ==
  LET n == Len(h) - 1
  IN /\ down[i] \in [1 .. n -> Refs]
     /\ Filled(n, down[i], h, i, h[n + 1])
     /\ \A j \in 2 .. n : j # i => down[i][j \div 2].expire <= down[i][j].expire
     /\ \A j \in 1 .. n : h[j].expire <= down[i][j].expire
     /\ \A j \in 1 .. n : j < i => down[i][j] = h[j]

LEMMA Shortened ==
  ASSUME NEW R, NEW h \in Seq(R), NEW n \in 0 .. Len(h)
  PROVE  /\ SubSeq(h, 1, n) \in [1 .. n -> R]
         /\ \A j \in 1 .. n : SubSeq(h, 1, n)[j] = h[j]
<1>1. SubSeq(h, 1, n) = [j \in 1 .. n |-> h[j]]
  <2>1. 1 .. n - 1 + 1 = 1 .. n
    OBVIOUS
  <2> QED
    BY <2>1
<1>2. \A j \in 1 .. n : h[j] \in R
  OBVIOUS
<1> QED
  BY <1>1, <1>2

LEMMA SinksTo ==
  ASSUME NEW h \in Seq(Refs), Len(h) > 0, Apart(Len(h), h), Layered(Len(h), h),
         NEW down, IsSinking(down, h), NEW i \in 1 .. Len(h) - 1,
         h[i].expire <= h[Len(h)].expire,
         \A k \in 1 .. Len(h) - 1 : k > i /\ h[k].expire <= h[Len(h)].expire => Sunk(down, k, h)
  PROVE  Sunk(down, i, h)
<1>0. PICK n \in Nat : Len(h) = n + 1 /\ Len(h) - 1 = n
  OBVIOUS
<1> DEFINE S == SubSeq(h, 1, n)
           el == h[n + 1]
           c == Heap!Child(h, i)
<1>1. /\ i \in 1 .. n /\ h \in [1 .. n + 1 -> Refs] /\ n + 1 \in 1 .. n + 1
      /\ \A j \in 1 .. n : j \in 1 .. n + 1 /\ j # n + 1
  BY <1>0
<1>2. S \in [1 .. n -> Refs] /\ \A j \in 1 .. n : S[j] = h[j]
  <2>1. n \in 0 .. Len(h)
    BY <1>0
  <2> QED
    BY <2>1, Shortened
<1>3. /\ h[i].expire <= el.expire /\ el \in Refs /\ el.expire \in Int
      /\ \A j \in 1 .. n : h[j] \in Refs /\ h[j].expire \in Int /\ h[j] # el
  <2>1. \A j \in 1 .. n + 1 : h[j] \in Refs /\ h[j].expire \in Int
    BY <1>1 DEF Refs
  <2>2. \A j \in 1 .. n : h[j] # el
    BY <1>0, <1>1 DEF Apart
  <2>3. h[i].expire <= el.expire
    BY <1>0
  <2> QED
    BY <1>1, <2>1, <2>2, <2>3
<1>4. Apart(n, h) /\ \A j \in 2 .. n : /\ j \in 1 .. n /\ j \div 2 \in 1 .. n
                                       /\ h[j \div 2].expire <= h[j].expire
  <2>1. ASSUME NEW j \in 2 .. n PROVE j \in 1 .. n /\ j \div 2 \in 1 .. n /\ j \in 2 .. Len(h)
    BY <1>0, Halves
  <2>2. Apart(n, h)
    BY <1>0, <1>1 DEF Apart
  <2> QED
    BY <2>1, <2>2 DEF Layered
<1>5. down[i] = IF 2 * i <= n /\ el.expire > h[c].expire
                THEN [down[c] EXCEPT ![i] = h[c]] ELSE [S EXCEPT ![i] = el]
  BY <1>0, <1>1 DEF IsSinking
<1>6. 2 * i <= n => /\ c \in 1 .. n /\ c > i /\ c \in 2 .. n /\ c \div 2 = i
                    /\ \A j \in 1 .. n : j \div 2 = i => h[c].expire <= h[j].expire
  BY <1>0, FirstChild
<1>7. CASE ~(2 * i <= n /\ el.expire > h[c].expire)
  <2> DEFINE G == [S EXCEPT ![i] = el]
  <2>0. down[i] = G
    BY <1>5, <1>7
  <2> HIDE DEF S, c, el
  <2>1. G \in [1 .. n -> Refs] /\ G[i] = el /\ \A j \in 1 .. n : j # i => G[j] = h[j]
    BY <1>1, <1>2, <1>3
  <2> HIDE DEF G
  <2>2. Filled(n, G, h, i, el)
    BY <1>1, <1>3, <1>4, <2>1, FillsPlace
  <2>3. ASSUME NEW j \in 1 .. n PROVE h[j].expire <= G[j].expire
    <3>1. CASE j = i
      BY <1>3, <2>1, <3>1
    <3>2. CASE j # i
      <4>1. G[j] = h[j] /\ h[j].expire \in Int
        BY <1>3, <2>1, <3>2
      <4> QED
        BY <4>1
    <3> QED
      BY <3>1, <3>2
  <2>4. ASSUME NEW j \in 2 .. n, j # i PROVE G[j \div 2].expire <= G[j].expire
    <3>1. j \in 1 .. n /\ G[j] = h[j] /\ j \div 2 \in 1 .. n /\ h[j \div 2].expire <= h[j].expire
      BY <1>4, <2>1, <2>4
    <3>2. CASE j \div 2 = i
      <4>1. 2 * i <= n
        BY <1>1, <3>1, <3>2, Halves
      <4>2. c \in 1 .. n /\ h[c].expire <= h[j].expire /\ ~(el.expire > h[c].expire)
        BY <1>6, <1>7, <3>1, <3>2, <4>1
      <4>3. h[c].expire \in Int /\ h[j].expire \in Int
        BY <1>3, <3>1, <4>2
      <4> QED
        BY <1>3, <2>1, <3>1, <3>2, <4>2, <4>3
    <3>3. CASE j \div 2 # i
      BY <2>1, <3>1, <3>3
    <3> QED
      BY <3>2, <3>3
  <2>5. \A j \in 1 .. n : j < i => G[j] = h[j]
    BY <1>1, <2>1
  <2> QED
    BY <1>0, <2>0, <2>1, <2>2, <2>3, <2>4, <2>5 DEF Sunk, el
<1>8. CASE 2 * i <= n /\ el.expire > h[c].expire
  <2> DEFINE F == down[c]
             G == [F EXCEPT ![i] = h[c]]
  <2>0. /\ down[i] = G /\ c \in 1 .. n /\ c > i /\ c # i /\ c \in 2 .. n /\ c \div 2 = i
        /\ \A j \in 1 .. n : j \div 2 = i => h[c].expire <= h[j].expire
    <3>1. down[i] = G
      BY <1>5, <1>8
    <3>2. c > i => c # i
      BY <1>1
    <3> HIDE DEF c, G, el
    <3> QED
      BY <1>6, <1>8, <3>1, <3>2
  <2>1. Sunk(down, c, h)
    <3>1. h[c].expire <= el.expire
      <4> HIDE DEF c, el
      <4> QED
        BY <1>3, <1>8, <2>0
    <3>2. el = h[Len(h)]
      BY <1>0
    <3> HIDE DEF c, el
    <3> QED
      BY <1>0, <2>0, <3>1, <3>2
  <2>2. /\ F \in [1 .. n -> Refs]
        /\ Filled(n, F, h, c, el)
        /\ \A j \in 2 .. n : j # c => F[j \div 2].expire <= F[j].expire
        /\ \A j \in 1 .. n : h[j].expire <= F[j].expire
        /\ \A j \in 1 .. n : j < c => F[j] = h[j]
    BY <1>0, <2>1 DEF Sunk
  <2> HIDE DEF S, c, el, F
  <2>3. /\ G \in [1 .. n -> Refs] /\ G[i] = h[c] /\ \A j \in 1 .. n : j # i => G[j] = F[j]
        /\ F[i] = h[i]
    BY <1>1, <1>3, <2>0, <2>2
  <2> HIDE DEF G
  <2>4. Filled(n, G, h, i, el)
    <3>1. /\ Apart(n, h) /\ i \in 1 .. n /\ c \in 1 .. n /\ i # c
          /\ \A j \in 1 .. n : h[j] # el
      BY <1>1, <1>3, <1>4, <2>0
    <3>2. Filled(n, F, h, c, el)
      BY <2>2
    <3> QED
      BY <2>3, <3>1, <3>2, MovesPlace
  <2>5. \A j \in 1 .. n : h[j].expire <= G[j].expire
    <3>1. h[i].expire <= h[c].expire
      BY <1>4, <2>0
    <3> QED
      BY <2>2, <2>3, <3>1
  <2>6. ASSUME NEW j \in 2 .. n, j # i PROVE G[j \div 2].expire <= G[j].expire
    <3>1. j \in 1 .. n /\ G[j] = F[j] /\ j \div 2 \in 1 .. n
      BY <1>4, <2>3, <2>6
    <3>2. CASE j \div 2 = i
      <4>1. h[c].expire <= h[j].expire /\ h[j].expire <= G[j].expire /\ G[j \div 2] = h[c]
        BY <2>0, <2>3, <2>5, <3>1, <3>2
      <4>2. h[c].expire \in Int /\ h[j].expire \in Int /\ G[j].expire \in Int
        BY <1>3, <2>0, <2>3, <3>1 DEF Refs
      <4> QED
        BY <4>1, <4>2
    <3>3. CASE j \div 2 # i
      <4>1. j # c
        BY <2>0, <3>3
      <4> QED
        BY <2>2, <2>3, <3>1, <3>3, <4>1
    <3> QED
      BY <3>2, <3>3
  <2>7. \A j \in 1 .. n : j < i => G[j] = h[j]
    BY <1>1, <2>0, <2>2, <2>3
  <2> QED
    BY <1>0, <2>0, <2>3, <2>4, <2>5, <2>6, <2>7 DEF Sunk, el
<1> QED
  BY <1>7, <1>8

LEMMA SinksEverywhere ==
  ASSUME NEW h \in Seq(Refs), Len(h) > 0, Apart(Len(h), h), Layered(Len(h), h),
         NEW down, IsSinking(down, h)
  PROVE  \A i \in 1 .. Len(h) - 1 : h[i].expire <= h[Len(h)].expire => Sunk(down, i, h)
<1>0. PICK n \in Nat : Len(h) = n + 1 /\ Len(h) - 1 = n
  OBVIOUS
<1> DEFINE T == {d \in 0 .. n - 1 : /\ h[n - d].expire <= h[n + 1].expire
                                    /\ ~Sunk(down, n - d, h)}
<1>1. T = {}
  <2> SUFFICES ASSUME T # {} PROVE FALSE
    OBVIOUS
  <2>1. PICK m \in T : \A k \in T : ~(k < m)
    <3>1. T \in SUBSET Nat
      OBVIOUS
    <3> HIDE DEF T
    <3> QED
      BY <3>1, LeastOne
  <2>2. /\ m \in 0 .. n - 1 /\ n - m \in 1 .. n /\ h[n - m].expire <= h[n + 1].expire
        /\ ~Sunk(down, n - m, h)
    BY <2>1
  <2>3. ASSUME NEW k \in 1 .. n, k > n - m, h[k].expire <= h[n + 1].expire
        PROVE  Sunk(down, k, h)
    <3>1. n - k \in 0 .. n - 1 /\ n - k < m /\ n - (n - k) = k
      BY <2>2, <2>3
    <3>2. n - k \notin T
      <4> HIDE DEF T
      <4> QED
        BY <2>1, <3>1
    <3> QED
      BY <2>3, <3>1, <3>2
  <2> QED
    BY <1>0, <2>2, <2>3, SinksTo
<1>2. ASSUME NEW i \in 1 .. n, h[i].expire <= h[n + 1].expire PROVE Sunk(down, i, h)
  <2>1. n - i \in 0 .. n - 1 /\ n - (n - i) = i
    OBVIOUS
  <2>2. n - i \notin T
    BY <1>1
  <2> QED
    BY <1>2, <2>1, <2>2
<1> QED
  BY <1>0, <1>2

\* The top of a heap is taken off: the others are left, and the heap stays one.
Peeked(G, h) ==
  /\ G \in Seq(Refs) /\ Len(G) = Len(h) - 1
  /\ \A r : (\E j \in 1 .. Len(G) : G[j] = r)
              <=> r # h[1] /\ \E j \in 1 .. Len(h) : h[j] = r
  /\ Apart(Len(G), G) /\ Layered(Len(G), G)

LEMMA Peeks ==
  ASSUME NEW h \in Seq(Refs), Len(h) > 0, Apart(Len(h), h), Layered(Len(h), h),
         NEW G, G = Heap!Peek(h)
  PROVE  Peeked(G, h)
<1> SUFFICES
      /\ G \in Seq(Refs) /\ Len(G) = Len(h) - 1
      /\ \A r : (\E j \in 1 .. Len(G) : G[j] = r)
                  <=> r # h[1] /\ \E j \in 1 .. Len(h) : h[j] = r
      /\ Apart(Len(G), G) /\ Layered(Len(G), G)
  BY DEF Peeked
<1>0. PICK n \in Nat : Len(h) = n + 1 /\ Len(h) - 1 = n
  OBVIOUS
<1>1. h \in [1 .. n + 1 -> Refs]
  BY <1>0
<1>2. CASE n = 0
  <2>1. G = <<>>
    BY <1>0, <1>2 DEF Heap!Peek
  <2>2. Len(G) = 0 /\ G \in Seq(Refs)
    BY <2>1
  <2>3. \A j \in 1 .. Len(h) : j = 1
    BY <1>0, <1>2
  <2>4. Apart(0, G) /\ Layered(0, G)
    BY DEF Apart, Layered
  <2> QED
    BY <1>0, <1>2, <2>2, <2>3, <2>4
<1>3. CASE n # 0
  <2>0. 1 \in 1 .. n /\ \A j \in 1 .. n : j \in 1 .. n + 1 /\ j # n + 1
    BY <1>3
  <2>1. PICK down : IsSinking(down, h) /\ G = down[1]
    <3>1. Len(h) # 1
      BY <1>0, <1>3
    <3> QED
      BY <3>1, Sinks DEF Heap!Peek
  <2>2. h[1].expire <= h[n + 1].expire
    <3>1. \A j \in 1 .. Len(h) : h[j] \in Refs
      OBVIOUS
    <3> QED
      BY <1>0, <3>1, TopIsFirst
  <2>3. Sunk(down, 1, h)
    BY <1>0, <2>0, <2>1, <2>2, SinksEverywhere
  <2>4. /\ G \in [1 .. n -> Refs] /\ Filled(n, G, h, 1, h[n + 1])
        /\ \A j \in 2 .. n : j # 1 => G[j \div 2].expire <= G[j].expire
    BY <1>0, <2>1, <2>3 DEF Sunk
  <2>5. G \in Seq(Refs) /\ Len(G) = n
    BY <2>4
  <2>6. Apart(n, G) /\ Layered(n, G)
    BY <2>4 DEF Filled, Layered
  <2>7. ASSUME NEW r
        PROVE  (\E j \in 1 .. n : G[j] = r) <=> r # h[1] /\ \E j \in 1 .. n + 1 : h[j] = r
    <3>1. \A j \in 1 .. n + 1 : h[j] = h[1] => j = 1
      BY <1>0, <2>0 DEF Apart
    <3>2. ASSUME NEW j \in 1 .. n PROVE G[j] # h[1] /\ \E k \in 1 .. n + 1 : h[k] = G[j]
      <4>1. G[j] = h[n + 1] \/ \E k \in 1 .. n : k # 1 /\ G[j] = h[k]
        BY <2>4 DEF Filled
      <4> QED
        BY <1>3, <2>0, <3>1, <4>1
    <3>3. ASSUME NEW k \in 1 .. n + 1, h[k] # h[1] PROVE \E j \in 1 .. n : G[j] = h[k]
      <4>1. CASE k = n + 1
        BY <2>4, <4>1 DEF Filled
      <4>2. CASE k \in 1 .. n /\ k # 1
        BY <2>4, <4>2 DEF Filled
      <4> QED
        BY <3>3, <4>1, <4>2
    <3>4. ASSUME NEW j \in 1 .. n, G[j] = r
          PROVE  r # h[1] /\ \E k \in 1 .. n + 1 : h[k] = r
      BY <3>2, <3>4
    <3>5. ASSUME NEW k \in 1 .. n + 1, h[k] = r, r # h[1] PROVE \E j \in 1 .. n : G[j] = r
      BY <3>3, <3>5
    <3> QED
      BY <3>4, <3>5
  <2> QED
    BY <1>0, <2>5, <2>6, <2>7
<1> QED
  BY <1>2, <1>3

Inside(h, r) == \E j \in 1 .. Len(h) : h[j] = r
\* A heap, of which newest is the last identifier given, f ran and c was cancelled.
KeepsTimers(h, newest, f, c) ==
  /\ h \in Seq(Refs) /\ newest \in Nat /\ Apart(Len(h), h) /\ Layered(Len(h), h)
  /\ \A r : Inside(h, r) => r.id \in 1 .. newest /\ (r.tmr => r.id \notin f \cup c)
  /\ \A r, s : Inside(h, r) /\ Inside(h, s) /\ r.id = s.id => r = s
  /\ f \cup c \subseteq 1 .. newest /\ f \cap c = {}
  /\ \A k \in 1 .. newest : k \in f \cup c \/ \E r : Inside(h, r) /\ r.tmr /\ r.id = k

LEMMA TimerAdded ==
  ASSUME NEW h, NEW newest, NEW f, NEW c, KeepsTimers(h, newest, f, c),
         NEW el \in Refs, el.id = newest + 1, el.tmr
  PROVE  /\ KeepsTimers(Heap!Insert(h, el), newest + 1, f, c)
         /\ h # <<>> /\ h[1].expire <= el.expire =>
              /\ Heap!Insert(h, el)[1] = h[1] /\ Len(Heap!Insert(h, el)) > 0
<1> DEFINE G == Heap!Insert(h, el)
<1>1. /\ h \in Seq(Refs) /\ newest \in Nat /\ newest + 1 \notin 1 .. newest /\ newest + 1 \in Nat
      /\ newest + 1 \in 1 .. newest + 1
      /\ \A k : k \in 1 .. newest + 1 <=> k \in 1 .. newest \/ k = newest + 1
  BY DEF KeepsTimers
<1>2. Fresh(h, el)
  BY <1>1 DEF KeepsTimers, Inside, Fresh
<1>3. Inserted(G, h, el)
  <2>1. G = Heap!Insert(h, el) /\ Apart(Len(h), h) /\ Layered(Len(h), h) /\ h \in Seq(Refs)
    BY DEF KeepsTimers
  <2> HIDE DEF G
  <2>2. el \in Refs /\ Fresh(h, el)
    BY <1>2
  <2> QED
    BY <2>1, <2>2, Inserts
<1> HIDE DEF G
<1>4. \A r : Inside(G, r) <=> r = el \/ Inside(h, r)
  BY <1>3 DEF Inside, Inserted
<1>5. \A r : Inside(G, r) => r.id \in 1 .. newest + 1 /\ (r.tmr => r.id \notin f \cup c)
  BY <1>1, <1>4 DEF KeepsTimers
<1>6. \A r, s : Inside(G, r) /\ Inside(G, s) /\ r.id = s.id => r = s
  BY <1>1, <1>4 DEF KeepsTimers
<1>7. \A k \in 1 .. newest + 1 : k \in f \cup c \/ \E r : Inside(G, r) /\ r.tmr /\ r.id = k
  BY <1>1, <1>4 DEF KeepsTimers
<1>8. f \cup c \subseteq 1 .. newest + 1 /\ f \cap c = {}
  BY <1>1 DEF KeepsTimers
<1>9. KeepsTimers(G, newest + 1, f, c)
  BY <1>1, <1>3, <1>5, <1>6, <1>7, <1>8 DEF KeepsTimers, Inserted
<1>10. h # <<>> => Len(h) > 0
  BY <1>1
<1>11. Len(h) \in Nat
  BY <1>1
<1> QED
  BY <1>3, <1>9, <1>10, <1>11 DEF G, Inserted

LEMMA TimerCancelled ==
  ASSUME NEW h, NEW newest, NEW f, NEW c, KeepsTimers(h, newest, f, c),
         NEW r, Inside(h, r), r.tmr
  PROVE  /\ KeepsTimers(Heap!Cancel(h, r.id), newest, f, c \cup {r.id})
         /\ h # <<>> /\ h[1].id # r.id =>
              Heap!Cancel(h, r.id)[1] = h[1] /\ Len(Heap!Cancel(h, r.id)) > 0
<1> DEFINE G == Heap!Cancel(h, r.id)
           n == Len(h)
<1>1. /\ h \in Seq(Refs) /\ n \in Nat /\ DOMAIN h = 1 .. n /\ newest \in Nat /\ r \in Refs
      /\ \A j \in 1 .. n : h[j] \in Refs
  BY DEF KeepsTimers, Inside
<1>2. /\ \A j \in 1 .. n : G[j] = IF h[j].id = r.id THEN [h[j] EXCEPT !.tmr = FALSE] ELSE h[j]
      /\ G = [j \in 1 .. n |-> G[j]]
  BY <1>1 DEF Heap!Cancel
<1> HIDE DEF G, n
<1>3. \A j \in 1 .. n : /\ G[j] \in Refs /\ G[j].id = h[j].id /\ G[j].expire = h[j].expire
                        /\ h[j].id # r.id => G[j] = h[j]
                        /\ h[j].id = r.id => ~G[j].tmr
  BY <1>1, <1>2 DEF Refs
<1>4. G \in Seq(Refs) /\ Len(G) = n
  <2>1. G \in [1 .. n -> Refs]
    BY <1>2, <1>3
  <2> QED
    BY <1>1, <2>1
<1>5. Apart(n, G)
  <2> SUFFICES ASSUME NEW j \in 1 .. n, NEW k \in 1 .. n, G[j] = G[k] PROVE j = k
    BY DEF Apart
  <2>1. h[j].id = h[k].id
    BY <1>3
  <2>2. h[j] = h[k]
    BY <2>1 DEF KeepsTimers, Inside, n
  <2> QED
    BY <2>2 DEF KeepsTimers, Apart, n
<1>6. Layered(n, G)
  <2> SUFFICES ASSUME NEW j \in 2 .. n PROVE G[j \div 2].expire <= G[j].expire
    BY DEF Layered
  <2>1. j \in 1 .. n /\ j \div 2 \in 1 .. n
    BY <1>1, Halves
  <2> QED
    BY <1>3, <2>1 DEF KeepsTimers, Layered, n
<1>7. ASSUME NEW s, Inside(G, s)
      PROVE  \E t : /\ Inside(h, t) /\ t.id = s.id
                    /\ s.tmr => s.id # r.id /\ s = t
  <2>1. PICK j \in 1 .. n : G[j] = s
    BY <1>4, <1>7 DEF Inside
  <2>2. Inside(h, h[j])
    BY <2>1 DEF Inside, n
  <2> QED
    BY <1>3, <2>1, <2>2
<1>8. ASSUME NEW t, Inside(h, t), t.id # r.id PROVE Inside(G, t)
  <2>1. PICK j \in 1 .. n : h[j] = t
    BY <1>8 DEF Inside, n
  <2> QED
    BY <1>3, <1>4, <1>8, <2>1 DEF Inside
<1>9. r.id \in 1 .. newest /\ r.id \notin f
  BY DEF KeepsTimers
<1>10. \A s : Inside(G, s) => s.id \in 1 .. newest /\ (s.tmr => s.id \notin f \cup (c \cup {r.id}))
  BY <1>7 DEF KeepsTimers
<1>11. \A s, t : Inside(G, s) /\ Inside(G, t) /\ s.id = t.id => s = t
  <2> SUFFICES ASSUME NEW i \in 1 .. n, NEW j \in 1 .. n, G[i].id = G[j].id PROVE G[i] = G[j]
    BY <1>4 DEF Inside
  <2>1. h[i].id = h[j].id
    BY <1>3
  <2>2. h[i] = h[j]
    BY <2>1 DEF KeepsTimers, Inside, n
  <2>3. i = j
    BY <2>2 DEF KeepsTimers, Apart, n
  <2> QED
    BY <2>3
<1>12. \A k \in 1 .. newest : k \in f \cup (c \cup {r.id}) \/ \E s : Inside(G, s) /\ s.tmr /\ s.id = k
  <2> SUFFICES ASSUME NEW k \in 1 .. newest, k # r.id, k \notin f \cup c
               PROVE  \E s : Inside(G, s) /\ s.tmr /\ s.id = k
    OBVIOUS
  <2>1. PICK s : Inside(h, s) /\ s.tmr /\ s.id = k
    BY DEF KeepsTimers
  <2> QED
    BY <1>8, <2>1
<1>13. f \cup (c \cup {r.id}) \subseteq 1 .. newest /\ f \cap (c \cup {r.id}) = {}
  BY <1>9 DEF KeepsTimers
<1>14. KeepsTimers(G, newest, f, c \cup {r.id})
  BY <1>1, <1>4, <1>5, <1>6, <1>10, <1>11, <1>12, <1>13 DEF KeepsTimers
<1>15. h # <<>> => n > 0 /\ 1 \in 1 .. n
  BY <1>1 DEF n
<1> QED
  BY <1>3, <1>4, <1>14, <1>15 DEF G

LEMMA TimerRan ==
  ASSUME NEW h, NEW newest, NEW f, NEW c, KeepsTimers(h, newest, f, c), Len(h) > 0
  PROVE  KeepsTimers(Heap!Peek(h), newest, IF h[1].tmr THEN f \cup {h[1].id} ELSE f, c)
<1> DEFINE G == Heap!Peek(h)
           g == IF h[1].tmr THEN f \cup {h[1].id} ELSE f
<1>1. /\ h \in Seq(Refs) /\ newest \in Nat /\ 1 \in 1 .. Len(h) /\ Inside(h, h[1])
      /\ h[1] \in Refs
  BY DEF KeepsTimers, Inside
<1>2. Peeked(G, h)
  <2>1. G = Heap!Peek(h) /\ Apart(Len(h), h) /\ Layered(Len(h), h) /\ h \in Seq(Refs)
    BY DEF KeepsTimers
  <2>2. Len(h) > 0
    OBVIOUS
  <2> HIDE DEF G
  <2> QED
    BY <2>1, <2>2, Peeks
<1> HIDE DEF G
<1>3. \A r : Inside(G, r) <=> r # h[1] /\ Inside(h, r)
  BY <1>2 DEF Inside, Peeked
<1>4. \A r : Inside(G, r) => r.id \in 1 .. newest /\ r.id # h[1].id /\ (r.tmr => r.id \notin f \cup c)
  BY <1>1, <1>3 DEF KeepsTimers
<1>5. \A r, s : Inside(G, r) /\ Inside(G, s) /\ r.id = s.id => r = s
  BY <1>3 DEF KeepsTimers
<1>6. \A k \in 1 .. newest : k \in g \cup c \/ \E r : Inside(G, r) /\ r.tmr /\ r.id = k
  <2> SUFFICES ASSUME NEW k \in 1 .. newest, k \notin g \cup c
               PROVE  \E r : Inside(G, r) /\ r.tmr /\ r.id = k
    OBVIOUS
  <2>1. k \notin f \cup c
    OBVIOUS
  <2>2. PICK r : Inside(h, r) /\ r.tmr /\ r.id = k
    BY <2>1 DEF KeepsTimers
  <2>3. r # h[1]
    BY <2>2
  <2> QED
    BY <1>3, <2>2, <2>3
<1>7. g \cup c \subseteq 1 .. newest /\ g \cap c = {}
  BY <1>1 DEF KeepsTimers
<1>8. \A r : Inside(G, r) => r.id \in 1 .. newest /\ (r.tmr => r.id \notin g \cup c)
  BY <1>4
<1> QED
  BY <1>1, <1>2, <1>5, <1>6, <1>7, <1>8 DEF KeepsTimers, Peeked, G

Delaying == TimerDelays \subseteq Nat
HeapInv == /\ KeepsTimers(heap, tmr_id, fired, cancelled)
           /\ clock \in Nat /\ pico_tick \in Int /\ pico_tick <= clock

LEMMA HeapInitially ==
  ASSUME Heap!Init
  PROVE  HeapInv
<1>1. heap = <<>> /\ Len(heap) = 0 /\ heap \in Seq(Refs) /\ clock = 0 /\ pico_tick = -1
      /\ tmr_id = 0 /\ fired = {} /\ cancelled = {}
  BY DEF Heap!Init
<1>2. Apart(0, heap) /\ Layered(0, heap) /\ \A r : ~Inside(heap, r)
  BY <1>1 DEF Apart, Layered, Inside
<1> QED
  BY <1>1, <1>2 DEF HeapInv, KeepsTimers

LEMMA Timers ==
  ASSUME HeapInv, Delaying, NEW delay \in TimerDelays
  PROVE  [expire |-> clock + delay, id |-> tmr_id + 1, tmr |-> TRUE] \in Refs
BY DEF HeapInv, Delaying, Refs, KeepsTimers

LEMMA HeapRuns ==
  ASSUME HeapInv, Heap!Due
  PROVE  /\ heap # <<>> /\ Len(heap) > 0 /\ heap[1] \in Refs /\ Inside(heap, heap[1])
         /\ heap[1].expire < clock
<1>1. heap \in Seq(Refs) /\ heap # <<>> /\ heap[1].expire < pico_tick
  BY DEF HeapInv, Heap!Due, KeepsTimers
<1>2. Len(heap) \in Nat /\ Len(heap) > 0 /\ 1 \in 1 .. Len(heap)
  BY <1>1
<1>3. heap[1] \in Refs /\ heap[1].expire \in Int
  <2>1. heap[1] \in Refs
    BY <1>1, <1>2
  <2> QED
    BY <2>1 DEF Refs
<1>4. Inside(heap, heap[1])
  BY <1>2 DEF Inside
<1>5. pico_tick \in Int /\ pico_tick <= clock /\ clock \in Int
  BY DEF HeapInv
<1>6. heap[1].expire < clock
  BY <1>1, <1>3, <1>5
<1> QED
  BY <1>1, <1>2, <1>3, <1>4, <1>6

LEMMA HeapStep ==
  ASSUME HeapInv, Delaying, Heap!Next \/ UNCHANGED Heap!vars
  PROVE  HeapInv'
<1>1. CASE Heap!Check
  <2>1. CASE Heap!CheckTimers
    BY <2>1 DEF Heap!CheckTimers, HeapInv
  <2>2. CASE Heap!CheckEnds
    BY <2>2 DEF Heap!CheckEnds, HeapInv
  <2>3. CASE Heap!Fire
    <3>1. KeepsTimers(Heap!Peek(heap), tmr_id, fired', cancelled)
      BY <2>3, HeapRuns, TimerRan DEF Heap!Fire, Heap!Ran, HeapInv
    <3> QED
      BY <2>3, <3>1 DEF Heap!Fire, HeapInv
  <2> QED
    BY <1>1, <2>1, <2>2, <2>3 DEF Heap!Check
<1>2. CASE Heap!Time
  BY <1>2 DEF Heap!Time, HeapInv
<1>3. ASSUME NEW delay \in TimerDelays, Heap!AddTimer(delay) PROVE HeapInv'
  <2> DEFINE el == [expire |-> clock + delay, id |-> tmr_id + 1, tmr |-> TRUE]
  <2>1. el \in Refs /\ el.id = tmr_id + 1 /\ el.tmr
    BY <1>3, Timers
  <2>2. heap' = Heap!Insert(heap, el) /\ tmr_id' = tmr_id + 1
        /\ UNCHANGED <<clock, pico_tick, fired, cancelled>>
    BY <1>3 DEF Heap!AddTimer, Heap!Add
  <2> HIDE DEF el
  <2>3. KeepsTimers(Heap!Insert(heap, el), tmr_id + 1, fired, cancelled)
    BY <2>1, TimerAdded DEF HeapInv
  <2> QED
    BY <2>2, <2>3 DEF HeapInv
<1>4. ASSUME NEW delay \in TimerDelays, Heap!FireAndAdd(delay) PROVE HeapInv'
  <2> DEFINE el == [expire |-> clock + delay, id |-> tmr_id + 1, tmr |-> TRUE]
             h == Heap!Insert(heap, el)
  <2>1. el \in Refs /\ el.id = tmr_id + 1 /\ el.tmr /\ el.expire = clock + delay
    BY <1>4, Timers
  <2>2. Heap!Due /\ heap[1].tmr /\ fired' = fired \cup {heap[1].id}
        /\ heap' = Heap!Peek(h) /\ tmr_id' = tmr_id + 1
        /\ UNCHANGED <<clock, pico_tick, cancelled>>
    BY <1>4 DEF Heap!FireAndAdd, Heap!Add, Heap!Ran
  <2> HIDE DEF el
  <2>3. heap # <<>> /\ heap[1].expire <= el.expire
    <3>1. heap # <<>> /\ heap[1].expire < clock /\ heap[1].expire \in Int
      BY <2>2, HeapRuns DEF Refs
    <3>2. clock \in Nat /\ delay \in Nat
      BY <1>4 DEF HeapInv, Delaying
    <3> QED
      BY <2>1, <3>1, <3>2
  <2>4. KeepsTimers(h, tmr_id + 1, fired, cancelled) /\ h[1] = heap[1] /\ Len(h) > 0
    BY <2>1, <2>3, TimerAdded DEF HeapInv
  <2> HIDE DEF h
  <2>5. KeepsTimers(Heap!Peek(h), tmr_id + 1, fired \cup {heap[1].id}, cancelled)
    BY <2>2, <2>4, TimerRan
  <2> QED
    BY <2>2, <2>5 DEF HeapInv
<1>5. ASSUME NEW r \in Heap!Armed, Heap!CancelTimer(r) \/ Heap!FireAndCancel(r) PROVE HeapInv'
  <2> DEFINE h == Heap!Cancel(heap, r.id)
  <2>1. Inside(heap, r) /\ r.tmr
    BY <1>5 DEF Heap!Armed, Inside, HeapInv, KeepsTimers
  <2>2. KeepsTimers(h, tmr_id, fired, cancelled \cup {r.id})
        /\ (heap # <<>> /\ heap[1].id # r.id => h[1] = heap[1] /\ Len(h) > 0)
    BY <2>1, TimerCancelled DEF HeapInv
  <2> HIDE DEF h
  <2>3. CASE Heap!CancelTimer(r)
    BY <2>2, <2>3 DEF Heap!CancelTimer, HeapInv, h
  <2>4. CASE Heap!FireAndCancel(r)
    <3>1. /\ Heap!Due /\ heap[1].tmr /\ fired' = fired \cup {heap[1].id}
          /\ heap[1].id # r.id /\ heap' = Heap!Peek(h)
          /\ cancelled' = cancelled \cup {r.id} /\ UNCHANGED <<clock, pico_tick, tmr_id>>
      BY <2>4 DEF Heap!FireAndCancel, Heap!Ran, h
    <3>2. h[1] = heap[1] /\ Len(h) > 0
      BY <2>2, <3>1, HeapRuns
    <3>3. KeepsTimers(Heap!Peek(h), tmr_id, fired \cup {heap[1].id}, cancelled \cup {r.id})
      BY <2>2, <3>1, <3>2, TimerRan
    <3> QED
      BY <3>1, <3>3 DEF HeapInv
  <2> QED
    BY <1>5, <2>3, <2>4
<1>6. CASE UNCHANGED Heap!vars
  BY <1>6 DEF Heap!vars, HeapInv
<1> QED
  BY <1>1, <1>2, <1>3, <1>4, <1>5, <1>6 DEF Heap!Next

LEMMA HeapMeans ==
  ASSUME HeapInv
  PROVE  Heap!NoTimerLost
<1>1. heap \in Seq(Refs) /\ DOMAIN heap = 1 .. Len(heap)
  BY DEF HeapInv, KeepsTimers
<1>2. \A i, j \in DOMAIN heap : heap[i].id = heap[j].id => i = j
  <2>1. ASSUME NEW i \in 1 .. Len(heap), NEW j \in 1 .. Len(heap), heap[i].id = heap[j].id
        PROVE  i = j
    <3>1. heap[i] = heap[j]
      BY <2>1 DEF HeapInv, KeepsTimers, Inside
    <3> QED
      BY <3>1 DEF HeapInv, KeepsTimers, Apart
  <2> QED
    BY <1>1, <2>1
<1>3. \A r : r \in Heap!Armed <=> Inside(heap, r) /\ r.tmr
  BY <1>1 DEF Heap!Armed, Inside
<1>4. {r.id : r \in Heap!Armed} \cup fired \cup cancelled = 1 .. tmr_id
  <2>1. ASSUME NEW r \in Heap!Armed PROVE r.id \in 1 .. tmr_id
    BY <1>3 DEF HeapInv, KeepsTimers
  <2>2. ASSUME NEW k \in 1 .. tmr_id, k \notin fired \cup cancelled
        PROVE  \E r \in Heap!Armed : r.id = k
    BY <1>3, <2>2 DEF HeapInv, KeepsTimers
  <2>3. fired \cup cancelled \subseteq 1 .. tmr_id
    BY DEF HeapInv, KeepsTimers
  <2> QED
    BY <2>1, <2>2, <2>3
<1>5. fired \cap cancelled = {}
  BY DEF HeapInv, KeepsTimers
<1> QED
  BY <1>2, <1>4, <1>5 DEF Heap!NoTimerLost

\* What runs is the top, and it is due.
LEMMA TopRuns ==
  ASSUME HeapInv, Heap!Next
  PROVE  \A r \in Heap!Armed : r.id \in fired' \ fired =>
           r.expire < clock /\ \A s \in Heap!Armed : r.expire <= s.expire
<1> SUFFICES ASSUME NEW r \in Heap!Armed, r.id \in fired', r.id \notin fired
             PROVE  r.expire < clock /\ \A s \in Heap!Armed : r.expire <= s.expire
  OBVIOUS
<1>1. Heap!Due /\ fired' \subseteq fired \cup {heap[1].id}
  BY DEF Heap!Next, Heap!Check, Heap!CheckTimers, Heap!CheckEnds, Heap!Fire, Heap!Time,
     Heap!FireAndAdd, Heap!FireAndCancel, Heap!AddTimer, Heap!CancelTimer, Heap!Ran
<1>2. /\ heap \in Seq(Refs) /\ DOMAIN heap = 1 .. Len(heap) /\ Layered(Len(heap), heap)
      /\ \A j \in 1 .. Len(heap) : heap[j] \in Refs
  BY DEF HeapInv, KeepsTimers
<1>3. \A s : s \in Heap!Armed => \E j \in 1 .. Len(heap) : heap[j] = s
  BY <1>2 DEF Heap!Armed
<1>4. r = heap[1]
  BY <1>1, <1>3, HeapRuns DEF HeapInv, KeepsTimers, Inside
<1>5. r.expire < clock
  BY <1>1, <1>4, HeapRuns
<1>6. \A s \in Heap!Armed : r.expire <= s.expire
  BY <1>2, <1>3, <1>4, TopIsFirst
<1> QED
  BY <1>5, <1>6

-----------------------------------------------------------------------------
(* FrameQueue: the size of a queue is the sum of its lengths               *)

\* The first i frames of s are f[i] bytes long together.
Sums(f, s) == /\ f \in [0 .. Len(s) -> Nat] /\ f[0] = 0
              /\ \A i \in 1 .. Len(s) : f[i] = f[i - 1] + s[i]

LEMMA SumIsOne ==
  ASSUME NEW n \in Nat, NEW f, NEW g, f[0] = g[0],
         \A i \in 1 .. n : f[i - 1] = g[i - 1] => f[i] = g[i]
  PROVE  f[n] = g[n]
<1> DEFINE T == {i \in 0 .. n : f[i] # g[i]}
<1> SUFFICES ASSUME T # {} PROVE FALSE
  OBVIOUS
<1>1. PICK m \in T : \A k \in T : ~(k < m)
  <2>1. T \in SUBSET Nat
    OBVIOUS
  <2> HIDE DEF T
  <2> QED
    BY <2>1, LeastOne
<1>2. m \in 1 .. n /\ m - 1 \in 0 .. n /\ m - 1 < m
  BY <1>1
<1>3. f[m - 1] = g[m - 1]
  BY <1>1, <1>2
<1> QED
  BY <1>1, <1>2, <1>3

QueueFits == FrameLengths \subseteq Nat /\ QueueLimit \in Nat /\ QueueWidth \in Nat /\ QueueLimit < QueueWidth
Summed(q) ==
  /\ q.frames \in Seq(Nat) /\ q.size \in 0 .. QueueLimit
  /\ q = [frames |-> q.frames, size |-> q.size]
  /\ \E f : Sums(f, q.frames) /\ f[Len(q.frames)] = q.size

LEMMA QueueInitially ==
  ASSUME Queue!Init, QueueFits
  PROVE  Summed(frameQueue)
<1> DEFINE f == [i \in 0 .. 0 |-> 0]
<1>1. Sums(f, <<>>) /\ f[0] = 0
  BY DEF Sums
<1>2. Len(<<>>) = 0 /\ <<>> \in Seq(Nat)
  OBVIOUS
<1> HIDE DEF f
<1> QED
  BY <1>1, <1>2 DEF Summed, Queue!Init, QueueFits

LEMMA Enqueued ==
  ASSUME QueueFits, NEW q, Summed(q), NEW len \in Nat
  PROVE  Summed(Queue!Enqueue(q, len))
<1>1. CASE QueueLimit < len + q.size
  BY <1>1 DEF Queue!Enqueue
<1>2. CASE ~(QueueLimit < len + q.size)
  <2> DEFINE s == q.frames
             n == Len(s)
             u == Append(s, len)
  <2>1. s \in Seq(Nat) /\ n \in Nat /\ q.size \in Nat /\ len + q.size \in 0 .. QueueLimit
    BY <1>2 DEF Summed, QueueFits
  <2>2. PICK f : Sums(f, s) /\ f[n] = q.size
    BY DEF Summed
  <2>3. s = <<>> => q.size = 0
    BY <2>2 DEF Sums
  <2>4. (IF s = <<>> THEN 0 ELSE q.size) + len + 0 = len + q.size
    BY <2>1, <2>3
  <2>5. (len + q.size) % QueueWidth = len + q.size
    <3>1. len + q.size < QueueWidth
      BY <2>1 DEF QueueFits
    <3> QED
      BY <2>1, <3>1, RemainderBelow DEF QueueFits
  <2>6. Queue!Enqueue(q, len) = [frames |-> u, size |-> len + q.size]
    BY <1>2, <2>4, <2>5 DEF Queue!Enqueue
  <2>7. u \in Seq(Nat) /\ Len(u) = n + 1 /\ u[n + 1] = len /\ \A i \in 1 .. n : u[i] = s[i]
    BY <2>1
  <2> DEFINE g == [i \in 0 .. n + 1 |-> IF i = n + 1 THEN len + q.size ELSE f[i]]
  <2> HIDE DEF s, u, n
  <2>8. g[0] = 0 /\ g[n + 1] = len + q.size /\ g \in [0 .. n + 1 -> Nat]
    BY <2>1, <2>2 DEF Sums, n
  <2>9. \A i \in 1 .. n + 1 : g[i] = g[i - 1] + u[i]
    <3> TAKE i \in 1 .. n + 1
    <3>1. CASE i = n + 1
      BY <2>1, <2>2, <2>7, <3>1
    <3>2. CASE i \in 1 .. n
      BY <2>1, <2>2, <2>7, <3>2 DEF Sums, n
    <3> QED
      BY <2>1, <3>1, <3>2
  <2> HIDE DEF g
  <2>10. Sums(g, u)
    BY <2>7, <2>8, <2>9 DEF Sums
  <2> QED
    BY <2>1, <2>6, <2>7, <2>8, <2>10 DEF Summed
<1> QED
  BY <1>1, <1>2

LEMMA Dequeued ==
  ASSUME QueueFits, NEW q, Summed(q), q.frames # <<>>
  PROVE  /\ Summed(Queue!Dequeue(q))
         /\ Len(Queue!Dequeue(q).frames) = Len(q.frames) - 1
<1> DEFINE s == q.frames
           u == Tail(s)
<1>1. s \in Seq(Nat) /\ s # <<>>
  BY DEF Summed
<1>2. PICK f : Sums(f, s) /\ f[Len(s)] = q.size
  BY DEF Summed
<1> HIDE DEF s, u
<1>3. PICK n \in Nat : Len(s) = n + 1
  <2>1. Len(s) \in Nat /\ Len(s) # 0
    BY <1>1
  <2> QED
    BY <2>1
<1>4. /\ u \in Seq(Nat) /\ Len(u) = n /\ \A i \in 1 .. n : u[i] = s[i + 1]
      /\ Head(s) = s[1] /\ s[1] \in Nat
  BY <1>1, <1>3 DEF u
<1>5. /\ f \in [0 .. n + 1 -> Nat] /\ f[0] = 0 /\ f[1] = s[1] /\ f[n + 1] = q.size
      /\ \A i \in 1 .. n + 1 : f[i] = f[i - 1] + s[i]
  <2>1. f \in [0 .. n + 1 -> Nat] /\ f[0] = 0 /\ f[n + 1] = q.size
        /\ \A i \in 1 .. n + 1 : f[i] = f[i - 1] + s[i]
    BY <1>2, <1>3 DEF Sums
  <2>2. f[1] = f[0] + s[1]
    BY <2>1
  <2> QED
    BY <1>4, <2>1, <2>2
<1>N. \A i \in 1 .. n + 1 : s[i] \in Nat /\ f[i] \in Nat /\ f[i - 1] \in Nat
  <2>1. \A i \in 1 .. n + 1 : s[i] \in Nat
    BY <1>1, <1>3
  <2>2. \A i \in 0 .. n + 1 : f[i] \in Nat
    BY <1>5
  <2>3. \A i \in 1 .. n + 1 : i \in 0 .. n + 1 /\ i - 1 \in 0 .. n + 1
    OBVIOUS
  <2> QED
    BY <2>1, <2>2, <2>3
<1> DEFINE Above == {i \in 1 .. n + 1 : ~(f[i] >= s[1])}
<1>6. Above = {}
  <2> SUFFICES ASSUME Above # {} PROVE FALSE
    OBVIOUS
  <2>1. PICK m \in Above : \A k \in Above : ~(k < m)
    <3>1. Above \in SUBSET Nat
      OBVIOUS
    <3> HIDE DEF Above
    <3> QED
      BY <3>1, LeastOne
  <2>2. m \in 2 .. n + 1 /\ ~(f[m] >= s[1])
    BY <1>4, <1>5, <2>1
  <2>3. m - 1 \in 1 .. n + 1 /\ m - 1 < m
    BY <2>2
  <2>4. f[m - 1] >= s[1]
    BY <2>1, <2>3
  <2>5. f[m] = f[m - 1] + s[m] /\ s[m] \in Nat /\ f[m - 1] \in Nat
    BY <1>N, <1>5, <2>2, <2>3
  <2> QED
    BY <1>4, <2>2, <2>4, <2>5
<1>7. \A i \in 1 .. n + 1 : f[i] - s[1] \in Nat
  <2>1. \A i \in 1 .. n + 1 : f[i] >= s[1]
    BY <1>6
  <2> HIDE DEF Above
  <2>2. \A a, b \in Nat : a >= b => a - b \in Nat
    OBVIOUS
  <2> TAKE i \in 1 .. n + 1
  <2>3. f[i] \in Nat /\ s[1] \in Nat /\ f[i] >= s[1]
    BY <1>N, <1>4, <2>1
  <2> QED
    BY <2>2, <2>3
<1> HIDE DEF Above
<1> DEFINE g == [i \in 0 .. n |-> f[i + 1] - s[1]]
<1>8. g \in [0 .. n -> Nat] /\ g[0] = 0 /\ g[n] = q.size - s[1]
  BY <1>4, <1>5, <1>7
<1>9. \A i \in 1 .. n : g[i] = g[i - 1] + u[i]
  <2> TAKE i \in 1 .. n
  <2>1. f[i + 1] = f[i] + s[i + 1] /\ f[i] \in Nat /\ s[i + 1] \in Nat /\ i + 1 \in 1 .. n + 1
        /\ i - 1 \in 0 .. n /\ i \in 0 .. n /\ i - 1 + 1 = i
    <3>1. i + 1 \in 1 .. n + 1 /\ i \in 1 .. n + 1 /\ i + 1 - 1 = i
      OBVIOUS
    <3>2. f[i + 1] = f[i + 1 - 1] + s[i + 1]
      BY <1>5, <3>1
    <3> QED
      BY <1>N, <3>1, <3>2
  <2>2. g[i] = f[i + 1] - s[1] /\ g[i - 1] = f[i] - s[1]
    BY <2>1
  <2>3. u[i] = s[i + 1]
    BY <1>4
  <2> HIDE DEF g
  <2> QED
    BY <1>4, <2>1, <2>2, <2>3
<1> HIDE DEF g
<1>10. Sums(g, u)
  BY <1>4, <1>8, <1>9 DEF Sums
<1>11. q.size - s[1] \in 0 .. QueueLimit
  <2>1. q.size - s[1] \in Nat /\ q.size \in Nat /\ q.size <= QueueLimit
    BY <1>3, <1>5, <1>7 DEF Summed
  <2> QED
    BY <1>4, <2>1 DEF QueueFits
<1>12. (q.size - s[1]) % QueueWidth = q.size - s[1]
  BY <1>11, RemainderBelow DEF QueueFits
<1>13. Queue!Dequeue(q) = [frames |-> u, size |-> q.size - s[1]]
  <2>1. Queue!Dequeue(q) = [frames |-> u, size |-> (q.size - (s[1] - 0)) % QueueWidth]
    BY <1>4 DEF Queue!Dequeue, s, u
  <2>2. s[1] - 0 = s[1]
    BY <1>4
  <2> QED
    BY <1>12, <2>1, <2>2
<1>14. Summed(Queue!Dequeue(q)) /\ Len(Queue!Dequeue(q).frames) = n
  BY <1>4, <1>8, <1>10, <1>11, <1>13 DEF Summed
<1> QED
  BY <1>3, <1>14 DEF s

IsEmptying(e, q) ==
  e = [i \in 0..Len(q.frames) |-> IF i = 0 THEN q ELSE Queue!Dequeue(e[i - 1])]

LEMMA Empties ==
  ASSUME NEW q, NEW n \in Nat
  PROVE  \E e : e = [i \in 0 .. n |-> IF i = 0 THEN q ELSE Queue!Dequeue(e[i - 1])]
<1> DEFINE Body(e, i) == IF i = 0 THEN q ELSE Queue!Dequeue(e[i - 1])
           Solved(k) == \E e : e = [i \in 0 .. k |-> Body(e, i)]
           Open == {k \in Nat : ~Solved(k)}
<1>1. Solved(0)
  <2> DEFINE e == [i \in 0 .. 0 |-> q]
  <2>1. e = [i \in 0 .. 0 |-> Body(e, i)]
    OBVIOUS
  <2> QED
    BY <2>1
<1>2. ASSUME NEW k \in Nat, Solved(k) PROVE Solved(k + 1)
  <2>1. PICK e : e = [i \in 0 .. k |-> Body(e, i)]
    BY <1>2
  <2> DEFINE g == [i \in 0 .. k + 1 |-> Body(e, i)]
  <2>2. \A i \in 0 .. k : g[i] = e[i]
    <3>1. \A i \in 0 .. k : e[i] = Body(e, i)
      BY <2>1
    <3>2. \A i \in 0 .. k + 1 : g[i] = Body(e, i)
      OBVIOUS
    <3> HIDE DEF g, Body
    <3> QED
      BY <3>1, <3>2
  <2>3. \A i \in 0 .. k + 1 : i # 0 => i - 1 \in 0 .. k
    OBVIOUS
  <2>4. \A i \in 0 .. k + 1 : Body(e, i) = Body(g, i)
    <3> HIDE DEF g
    <3> QED
      BY <2>2, <2>3
  <2>5. g = [i \in 0 .. k + 1 |-> Body(g, i)]
    <3>1. \A i \in 0 .. k + 1 : g[i] = Body(g, i)
      BY <2>4
    <3>2. g = [i \in 0 .. k + 1 |-> g[i]]
      OBVIOUS
    <3> HIDE DEF g, Body
    <3> QED
      BY <3>1, <3>2
  <2> HIDE DEF g
  <2> QED
    BY <2>5
<1>3. Open = {}
  <2> SUFFICES ASSUME Open # {} PROVE FALSE
    OBVIOUS
  <2>1. PICK m \in Open : \A k \in Open : ~(k < m)
    <3>1. Open \in SUBSET Nat
      OBVIOUS
    <3> HIDE DEF Open
    <3> QED
      BY <3>1, LeastOne
  <2>2. m \in Nat /\ ~Solved(m)
    <3> HIDE DEF Solved
    <3> QED
      BY <2>1
  <2> HIDE DEF Solved
  <2>3. m # 0
    BY <1>1, <2>2
  <2>4. m - 1 \in Nat /\ m - 1 < m
    BY <2>2, <2>3
  <2>5. Solved(m - 1)
    BY <2>1, <2>4
  <2>6. Solved(m - 1 + 1)
    BY <1>2, <2>4, <2>5
  <2>7. m - 1 + 1 = m
    BY <2>2
  <2> QED
    BY <2>2, <2>6, <2>7
<1>4. Solved(n)
  <2> HIDE DEF Solved
  <2> QED
    BY <1>3
<1> QED
  BY <1>4

LEMMA EmptiesAll ==
  ASSUME QueueFits, NEW q, Summed(q)
  PROVE  Summed(Queue!Emptied(q))
<1> DEFINE n == Len(q.frames)
<1>1. n \in Nat
  BY DEF Summed
<1>2. \E e : IsEmptying(e, q)
  <2> HIDE DEF n
  <2>1. \E e : e = [i \in 0 .. n |-> IF i = 0 THEN q ELSE Queue!Dequeue(e[i - 1])]
    BY <1>1, Empties
  <2> QED
    BY <2>1 DEF IsEmptying, n
<1>3. PICK e : IsEmptying(e, q) /\ Queue!Emptied(q) = e[n]
  <2>1. Queue!Emptied(q) = (CHOOSE e : IsEmptying(e, q))[n]
    BY DEF Queue!Emptied, IsEmptying
  <2> QED
    BY <1>2, <2>1
<1>4. e[0] = q /\ \A i \in 1 .. n : e[i] = Queue!Dequeue(e[i - 1])
  <2>1. \A i \in 0 .. n : e[i] = IF i = 0 THEN q ELSE Queue!Dequeue(e[i - 1])
    BY <1>3 DEF IsEmptying
  <2> QED
    BY <1>1, <2>1
<1> DEFINE Fair(i) == Summed(e[i]) /\ Len(e[i].frames) = n - i
           T == {i \in 0 .. n : ~Fair(i)}
<1>5. T = {}
  <2> SUFFICES ASSUME T # {} PROVE FALSE
    OBVIOUS
  <2>1. PICK m \in T : \A k \in T : ~(k < m)
    <3>1. T \in SUBSET Nat
      OBVIOUS
    <3> HIDE DEF T
    <3> QED
      BY <3>1, LeastOne
  <2>2. Fair(0)
    BY <1>1, <1>4
  <2>3. m \in 1 .. n /\ m - 1 \in 0 .. n /\ m - 1 < m /\ ~Fair(m)
    <3> HIDE DEF Fair
    <3> QED
      BY <1>1, <2>1, <2>2
  <2>4. Fair(m - 1)
    <3> HIDE DEF Fair
    <3> QED
      BY <2>1, <2>3
  <2>5. Len(e[m - 1].frames) # 0
    BY <1>1, <2>3, <2>4
  <2>6. e[m - 1].frames # <<>>
    BY <2>5
  <2>7. Summed(e[m]) /\ Len(e[m].frames) = n - (m - 1) - 1
    BY <1>4, <2>3, <2>4, <2>6, Dequeued
  <2> QED
    BY <1>1, <2>3, <2>7
<1>6. Fair(n)
  <2> HIDE DEF Fair
  <2> QED
    BY <1>1, <1>5
<1> QED
  BY <1>3, <1>6

LEMMA QueueStep ==
  ASSUME Summed(frameQueue), QueueFits, Queue!Next \/ UNCHANGED Queue!vars
  PROVE  Summed(frameQueue)'
<1>1. CASE \E len \in FrameLengths : Queue!Put(len)
  BY <1>1, Enqueued DEF Queue!Put, QueueFits
<1>2. CASE Queue!Take
  BY <1>2, Dequeued DEF Queue!Take
<1>3. CASE Queue!Empty
  BY <1>3, EmptiesAll DEF Queue!Empty
<1> QED
  BY <1>1, <1>2, <1>3 DEF Queue!Next, Queue!vars

LEMMA QueueMeans ==
  ASSUME Summed(frameQueue), QueueFits
  PROVE  Queue!EmptyTakesFrame /\ Queue!SizeIsLimited
<1> DEFINE s == frameQueue.frames
           n == Len(s)
           IsSum(f) == f = [i \in 0..Len(frameQueue.frames) |->
                              IF i = 0 THEN 0 ELSE f[i - 1] + frameQueue.frames[i]]
<1>1. n \in Nat /\ s \in Seq(Nat)
  BY DEF Summed
<1>2. PICK f : Sums(f, s) /\ f[n] = frameQueue.size
  BY DEF Summed
<1>3. Queue!SizeIsLimited
  <2>1. IsSum(f)
    <3>1. f \in [0 .. n -> Nat] /\ f[0] = 0 /\ \A i \in 1 .. n : f[i] = f[i - 1] + s[i]
      BY <1>2 DEF Sums
    <3>2. \A i \in 0 .. n : f[i] = IF i = 0 THEN 0 ELSE f[i - 1] + s[i]
      BY <1>1, <3>1
    <3>3. f = [i \in 0 .. n |-> f[i]]
      BY <3>1
    <3> QED
      BY <3>2, <3>3
  <2>2. PICK g : IsSum(g) /\ (Queue!SizeIsLimited <=> g[n] <= QueueLimit)
    <3>1. Queue!SizeIsLimited <=> (CHOOSE g : IsSum(g))[n] <= QueueLimit
      BY DEF Queue!SizeIsLimited
    <3> HIDE DEF IsSum
    <3> QED
      BY <2>1, <3>1
  <2>3. g[0] = 0 /\ \A i \in 1 .. n : g[i] = g[i - 1] + s[i]
    <3>1. \A i \in 0 .. n : g[i] = IF i = 0 THEN 0 ELSE g[i - 1] + s[i]
      BY <2>2
    <3> QED
      BY <1>1, <3>1
  <2>4. f[n] = g[n]
    <3>1. f[0] = 0 /\ \A i \in 1 .. n : f[i] = f[i - 1] + s[i]
      BY <1>2 DEF Sums
    <3> HIDE DEF s, n, IsSum
    <3>2. f[0] = g[0] /\ \A i \in 1 .. n : f[i - 1] = g[i - 1] => f[i] = g[i]
      BY <2>3, <3>1
    <3> QED
      BY <1>1, <3>2, SumIsOne
  <2> QED
    BY <1>2, <2>2, <2>4 DEF Summed, QueueFits
<1>4. Queue!EmptyTakesFrame
  <2> SUFFICES ASSUME s = <<>>, NEW len \in FrameLengths, len <= QueueLimit
               PROVE  Queue!Enqueue(frameQueue, len).frames = <<len>>
    BY DEF Queue!EmptyTakesFrame
  <2>1. frameQueue.size = 0
    BY <1>2 DEF Sums
  <2>2. ~(QueueLimit < len + frameQueue.size)
    BY <2>1 DEF QueueFits
  <2> QED
    BY <2>2 DEF Queue!Enqueue
<1> QED
  BY <1>3, <1>4

-----------------------------------------------------------------------------
(* RbTree: the tree, its turns and its repairs                              *)

\* f is defined by a recursion where x is in Going, and there is what it is at the
\* next step.
Tails(f, S, Going, Step, Base) ==
  f = [x \in S |-> IF x \in Going THEN f[Step[x]] ELSE Base[x]]

LEMMA TailsExist ==
  ASSUME NEW S, NEW Going, NEW Step, NEW Base, \A x \in S \cap Going : Step[x] \in S
  PROVE  \E f : Tails(f, S, Going, Step, Base)
<1> DEFINE V == {Base[x] : x \in S}
           Closed(Q) == /\ \A x \in S : x \notin Going => <<x, Base[x]>> \in Q
                        /\ \A x \in S, v \in V : x \in Going /\ <<Step[x], v>> \in Q => <<x, v>> \in Q
           R == {p \in S \X V : \A Q \in SUBSET (S \X V) : Closed(Q) => p \in Q}
           At(x) == {v \in V : <<x, v>> \in R}
           f == [x \in S |-> CHOOSE v : v \in At(x)]
<1>1. R \in SUBSET (S \X V) /\ Closed(R)
  OBVIOUS
<1>2. ASSUME NEW x \in S, NEW v \in V, <<x, v>> \in R, Closed(R \ {<<x, v>>}) PROVE FALSE
  <2>1. R \ {<<x, v>>} \in SUBSET (S \X V)
    BY <1>1
  <2> DEFINE Q == R \ {<<x, v>>}
  <2>2. \A Z \in SUBSET (S \X V) : Closed(Z) => <<x, v>> \in Z
    BY <1>2
  <2> HIDE DEF R, Closed
  <2> QED
    BY <1>2, <2>1, <2>2
<1>3. ASSUME NEW x \in S, x \notin Going PROVE At(x) = {Base[x]}
  <2>1. Base[x] \in At(x)
    <3> HIDE DEF R
    <3> QED
      BY <1>1, <1>3
  <2>2. ASSUME NEW v \in V, <<x, v>> \in R, v # Base[x] PROVE FALSE
    <3>1. Closed(R \ {<<x, v>>})
      <4> HIDE DEF R
      <4> QED
        BY <1>1, <1>3, <2>2
    <3> HIDE DEF R, Closed
    <3> QED
      BY <1>2, <2>2, <3>1
  <2> HIDE DEF R
  <2> QED
    BY <2>1, <2>2
<1>4. ASSUME NEW x \in S, x \in Going PROVE At(x) = At(Step[x])
  <2>1. ASSUME NEW v \in V, <<Step[x], v>> \in R PROVE <<x, v>> \in R
    <3> HIDE DEF R
    <3> QED
      BY <1>1, <1>4, <2>1
  <2>2. ASSUME NEW v \in V, <<x, v>> \in R, <<Step[x], v>> \notin R PROVE FALSE
    <3>1. Closed(R \ {<<x, v>>})
      <4> HIDE DEF R
      <4> QED
        BY <1>1, <1>4, <2>2
    <3> HIDE DEF R, Closed
    <3> QED
      BY <1>2, <2>2, <3>1
  <2> HIDE DEF R
  <2> QED
    BY <2>1, <2>2
<1>5. ASSUME NEW x \in S PROVE f[x] = IF x \in Going THEN f[Step[x]] ELSE Base[x]
  <2> HIDE DEF At
  <2>1. CASE x \in Going
    <3>1. Step[x] \in S
      BY <2>1
    <3>2. At(x) = At(Step[x])
      BY <1>4, <2>1
    <3> QED
      BY <2>1, <3>1, <3>2
  <2>2. CASE x \notin Going
    <3>1. At(x) = {Base[x]}
      BY <1>3, <2>2
    <3> QED
      BY <2>2, <3>1
  <2> QED
    BY <2>1, <2>2
<1> HIDE DEF At
<1>6. f = [x \in S |-> f[x]]
  OBVIOUS
<1> HIDE DEF f
<1>7. f = [x \in S |-> IF x \in Going THEN f[Step[x]] ELSE Base[x]]
  BY <1>5, <1>6
<1> QED
  BY <1>7 DEF Tails


-----------------------------------------------------------------------------
(* RbTree: the shape of a tree                                             *)

Convex(S, M) == \A a, b \in S, k \in M : a < k /\ k < b => k \in S
\* D[n] are the keys in the part of the tree below n, with n.
Node(t, D, M, n) ==
  /\ t.left[n] \in M \cup {0} /\ t.right[n] \in M \cup {0}
  /\ D[n] = {n} \cup D[t.left[n]] \cup D[t.right[n]]
  /\ \A k \in D[t.left[n]] : k < n
  /\ \A k \in D[t.right[n]] : k > n
  /\ t.left[n] # 0 => t.parent[t.left[n]] = n
  /\ t.right[n] # 0 => t.parent[t.right[n]] = n
  /\ n # t.root => t.parent[n] \in M /\ n \in {t.left[t.parent[n]], t.right[t.parent[n]]}
Shaped(t, D, M) ==
  /\ t \in Tree!Trees /\ M \subseteq 1 .. TreeKeys
  /\ t.left[0] = 0 /\ t.right[0] = 0 /\ t.parent[0] = 0
  /\ t.root \in M \cup {0} /\ t.parent[t.root] = 0
  /\ D \in [Tree!Nodes -> SUBSET M] /\ D[0] = {} /\ D[t.root] = M
  /\ \A n \in M : Node(t, D, M, n) /\ Convex(D[n], M)

LEMMA Fields ==
  ASSUME NEW t \in Tree!Trees
  PROVE  /\ t.root \in Tree!Nodes /\ t.parent \in [Tree!Nodes -> Tree!Nodes]
         /\ t.left \in [Tree!Nodes -> Tree!Nodes] /\ t.right \in [Tree!Nodes -> Tree!Nodes]
         /\ t.color \in [Tree!Nodes -> {"BLACK", "RED"}]
BY DEF Tree!Trees

LEMMA Kin ==
  ASSUME TreeKeys \in Nat, NEW t, NEW D, NEW M, Shaped(t, D, M), NEW n \in M
  PROVE  /\ n \in D[n] /\ n \in Tree!Nodes /\ n \in Int /\ n # 0 /\ 0 \notin M /\ D[n] \subseteq M
         /\ n \notin D[t.left[n]] /\ n \notin D[t.right[n]]
         /\ D[t.left[n]] \subseteq D[n] /\ D[t.right[n]] \subseteq D[n]
         /\ t.left[n] # 0 => /\ t.left[n] \in D[t.left[n]] /\ t.left[n] < n
                             /\ t.left[n] # t.right[n] /\ t.left[n] # t.parent[n]
         /\ t.right[n] # 0 => /\ t.right[n] \in D[t.right[n]] /\ t.right[n] > n
                              /\ t.left[n] # t.right[n] /\ t.right[n] # t.parent[n]
         /\ t.parent[n] = 0 <=> n = t.root
         /\ n # t.root => /\ t.parent[n] \in M /\ D[n] \subseteq D[t.parent[n]]
                          /\ t.parent[n] \notin D[n] /\ t.parent[n] # n
<1>1. M \subseteq 1 .. TreeKeys /\ n \in Tree!Nodes /\ n \in Int /\ n # 0 /\ 0 \notin M /\ D[n] \subseteq M
  <2>1. M \subseteq 1 .. TreeKeys /\ D \in [Tree!Nodes -> SUBSET M]
    BY DEF Shaped
  <2>2. n \in Tree!Nodes /\ n \in Int /\ n # 0 /\ 0 \notin M
    BY <2>1 DEF Tree!Nodes
  <2> QED
    BY <2>1, <2>2
<1>2. \A x \in M : /\ x \in D[x] /\ x \in Int
                   /\ x \notin D[t.left[x]] /\ x \notin D[t.right[x]]
                   /\ D[t.left[x]] \subseteq D[x] /\ D[t.right[x]] \subseteq D[x]
  BY <1>1 DEF Shaped, Node
<1>3. /\ t.left[n] # 0 => t.left[n] \in M /\ t.left[n] \in D[t.left[n]] /\ t.left[n] < n
      /\ t.right[n] # 0 => t.right[n] \in M /\ t.right[n] \in D[t.right[n]] /\ t.right[n] > n
  BY <1>1, <1>2 DEF Shaped, Node
<1>4. /\ t.left[n] # 0 => t.left[n] # t.right[n]
      /\ t.right[n] # 0 => t.left[n] # t.right[n]
  <2>1. ASSUME t.left[n] # 0, t.left[n] = t.right[n] PROVE FALSE
    <3>1. t.left[n] \in Int /\ t.left[n] < n /\ t.left[n] > n
      BY <1>2, <1>3, <2>1
    <3> QED
      BY <1>1, <3>1
  <2> QED
    BY <2>1
<1>5. t.parent[n] = 0 <=> n = t.root
  BY <1>1 DEF Shaped, Node
<1>6. n # t.root => /\ t.parent[n] \in M /\ D[n] \subseteq D[t.parent[n]]
                    /\ t.parent[n] \notin D[n]
  <2> SUFFICES ASSUME n # t.root PROVE /\ t.parent[n] \in M /\ D[n] \subseteq D[t.parent[n]]
                                       /\ t.parent[n] \notin D[n]
    OBVIOUS
  <2>1. t.parent[n] \in M /\ n \in {t.left[t.parent[n]], t.right[t.parent[n]]}
    BY DEF Shaped, Node
  <2> QED
    BY <1>2, <2>1
<1>7. /\ t.left[n] # 0 => t.left[n] # t.parent[n]
      /\ t.right[n] # 0 => t.right[n] # t.parent[n]
  BY <1>1, <1>2, <1>3, <1>5, <1>6
<1> QED
  BY <1>1, <1>2, <1>3, <1>4, <1>5, <1>6, <1>7

\* A rotation to the left, pointer by pointer.
TurnedLeft(t, n, u) ==
  LET m == t.right[n]
      c == t.left[m]
      p == t.parent[n]
  IN /\ u \in Tree!Trees /\ u.color = t.color
     /\ u.root = IF p = 0 THEN m ELSE t.root
     /\ \A x \in Tree!Nodes :
          /\ u.left[x] = IF x = m THEN n ELSE IF p # 0 /\ x = p /\ n = t.left[p] THEN m ELSE t.left[x]
          /\ u.right[x] = IF x = n THEN c ELSE IF p # 0 /\ x = p /\ n # t.left[p] THEN m ELSE t.right[x]
          /\ u.parent[x] = IF x = n THEN m ELSE IF x = m THEN p
                           ELSE IF x = c /\ c # 0 THEN n ELSE t.parent[x]

LEMMA TurnsLeft ==
  ASSUME TreeKeys \in Nat, NEW t, NEW D, NEW M, Shaped(t, D, M), NEW n \in M, t.right[n] # 0
  PROVE  TurnedLeft(t, n, Tree!RotateToLeft(t, n))
<1> DEFINE m == t.right[n]
           c == t.left[m]
           p == t.parent[n]
           a == Tree!Adopt([t EXCEPT !.right[n] = c], c, n)
           r == Tree!Replace(a, n, m)
           v == [r EXCEPT !.parent[m] = p]
           u == [v EXCEPT !.left[m] = n, !.parent[n] = m]
<1>1. /\ t \in Tree!Trees /\ n \in Tree!Nodes /\ m \in M /\ m \in Tree!Nodes /\ m # 0 /\ n # 0
      /\ m # n /\ c \in Tree!Nodes /\ p \in Tree!Nodes /\ c # n /\ c # m /\ p # n /\ p # m
      /\ p # 0 => p # c
      /\ p # 0 => n \in {t.left[p], t.right[p]} /\ t.left[p] # t.right[p]
  <2>1. t \in Tree!Trees /\ m \in M
    BY DEF Shaped, Node
  <2>2. n \in Tree!Nodes /\ m \in Tree!Nodes /\ m # 0 /\ n # 0 /\ m # n /\ p # n /\ p # m
    BY <2>1, Kin
  <2>3. c \in Tree!Nodes /\ p \in Tree!Nodes
    BY <2>1, <2>2, Fields
  <2>4. c # 0 => c \in M /\ c \in D[c] /\ D[c] \subseteq D[m] /\ m \notin D[c] /\ D[m] \subseteq D[n] /\ n \notin D[m]
    <3>1. c # 0 => c \in M
      BY <2>1 DEF Shaped, Node
    <3> HIDE DEF c
    <3> QED
      BY <2>1, <3>1, Kin DEF c
  <2>5. c # n /\ c # m
    <3> HIDE DEF m, c, p
    <3> QED
      BY <2>2, <2>4
  <2>6. p # 0 => p \notin D[n] /\ n \in {t.left[p], t.right[p]} /\ t.left[p] # t.right[p]
    <3>1. Node(t, D, M, n)
      BY DEF Shaped
    <3>2. p # 0 => n # t.root /\ p \notin D[n] /\ p \in M
      BY Kin
    <3>3. p # 0 => /\ t.left[p] # 0 => t.left[p] # t.right[p]
                   /\ t.right[p] # 0 => t.left[p] # t.right[p]
      BY <3>2, Kin
    <3> QED
      BY <2>2, <3>1, <3>2, <3>3 DEF Node
  <2> QED
    BY <2>1, <2>2, <2>3, <2>4, <2>5, <2>6
<1> HIDE DEF m, c, p
<1>2. /\ a \in Tree!Trees /\ a.color = t.color /\ a.root = t.root /\ a.left = t.left
      /\ \A x \in Tree!Nodes : /\ a.right[x] = IF x = n THEN c ELSE t.right[x]
                               /\ a.parent[x] = IF x = c /\ c # 0 THEN n ELSE t.parent[x]
  BY <1>1 DEF Tree!Adopt, Tree!Trees, Tree!LEAF
<1>3. a.parent[n] = p
  BY <1>1, <1>2 DEF p
<1> HIDE DEF a
<1>4. /\ r \in Tree!Trees /\ r.color = t.color /\ r.parent = a.parent
      /\ r.root = IF p = 0 THEN m ELSE t.root
      /\ \A x \in Tree!Nodes :
           /\ r.left[x] = IF p # 0 /\ x = p /\ n = t.left[p] THEN m ELSE t.left[x]
           /\ r.right[x] = IF p # 0 /\ x = p /\ n # t.left[p] THEN m ELSE a.right[x]
  BY <1>1, <1>2, <1>3 DEF Tree!Replace, Tree!AmILeft, Tree!Trees, Tree!LEAF
<1> HIDE DEF r
<1>5. /\ u \in Tree!Trees /\ u.color = t.color /\ u.root = r.root /\ u.right = r.right
      /\ \A x \in Tree!Nodes :
           /\ u.left[x] = IF x = m THEN n ELSE r.left[x]
           /\ u.parent[x] = IF x = n THEN m ELSE IF x = m THEN p ELSE r.parent[x]
  BY <1>1, <1>4 DEF Tree!Trees
<1>6. Tree!RotateToLeft(t, n) = u
  BY <1>1 DEF Tree!RotateToLeft, Tree!LEAF, m, c, p, a, r
<1> HIDE DEF u, v
<1>7. \A x \in Tree!Nodes :
          /\ u.left[x] = IF x = m THEN n ELSE IF p # 0 /\ x = p /\ n = t.left[p] THEN m ELSE t.left[x]
          /\ u.right[x] = IF x = n THEN c ELSE IF p # 0 /\ x = p /\ n # t.left[p] THEN m ELSE t.right[x]
          /\ u.parent[x] = IF x = n THEN m ELSE IF x = m THEN p
                           ELSE IF x = c /\ c # 0 THEN n ELSE t.parent[x]
  BY <1>1, <1>2, <1>4, <1>5
<1>8. u \in Tree!Trees /\ u.color = t.color /\ u.root = IF p = 0 THEN m ELSE t.root
  BY <1>4, <1>5
<1> QED
  BY <1>6, <1>7, <1>8 DEF TurnedLeft, m, c, p

LEMMA LeftKeeps ==
  ASSUME TreeKeys \in Nat, NEW t, NEW D, NEW M, Shaped(t, D, M), NEW n \in M, t.right[n] # 0,
         NEW u, TurnedLeft(t, n, u)
  PROVE  \E E : /\ Shaped(u, E, M)
                /\ \A x \in M : x \notin {n, t.right[n]} => E[x] = D[x]
<1> DEFINE m == t.right[n]
           c == t.left[m]
           p == t.parent[n]
           l == t.left[n]
           e == t.right[m]
           E == [x \in Tree!Nodes |-> IF x = m THEN D[n] ELSE IF x = n THEN {n} \cup D[l] \cup D[c]
                                      ELSE D[x]]
<1>1. /\ M \subseteq 1 .. TreeKeys /\ m \in M /\ n # 0 /\ 0 \notin M /\ m # n /\ m > n
      /\ t.parent[m] = n /\ m # t.root /\ t.left[n] # m
      /\ \A x \in M : x \in Tree!Nodes /\ x \in Int
  <2>1. m \in M /\ M \subseteq 1 .. TreeKeys /\ t.parent[m] = n
    BY DEF Shaped, Node
  <2>2. m # n /\ m > n /\ n # 0 /\ 0 \notin M /\ t.left[n] # m
    BY Kin
  <2>3. m # t.root
    BY <2>1, <2>2, Kin
  <2>4. \A x \in M : x \in Tree!Nodes /\ x \in Int
    BY Kin
  <2> QED
    BY <2>1, <2>2, <2>3, <2>4
<1>2. /\ D[m] = {m} \cup D[c] \cup D[e] /\ D[n] = {n} \cup D[l] \cup D[m]
      /\ c \in M \cup {0} /\ e \in M \cup {0} /\ l \in M \cup {0}
      /\ \A k \in D[c] : k < m
      /\ \A k \in D[e] : k > m
      /\ \A k \in D[l] : k < n
      /\ \A k \in D[m] : k > n
      /\ c # 0 => t.parent[c] = m /\ c # m /\ c # n /\ c # e
      /\ e # 0 => t.parent[e] = m /\ e # m /\ e # n
      /\ l # 0 => t.parent[l] = n /\ l # m /\ l # n
      /\ D[n] \subseteq M
  <2>1. Node(t, D, M, n) /\ Node(t, D, M, m)
    BY <1>1 DEF Shaped
  <2>2. c # 0 => c # m /\ c # t.parent[m] /\ c # e
    BY <1>1, Kin
  <2>3. e # 0 => e # m /\ e # t.parent[m]
    BY <1>1, Kin
  <2>4. l # 0 => l # n /\ l # m
    BY <1>1, Kin
  <2>5. D[n] \subseteq M
    BY Kin
  <2> QED
    BY <1>1, <2>1, <2>2, <2>3, <2>4, <2>5 DEF Node
<1>3. /\ p = 0 <=> n = t.root
      /\ p # 0 => p \in M /\ n \in {t.left[p], t.right[p]} /\ p # n /\ p # m /\ p # c /\ p # l /\ p # e
  <2>1. p = 0 <=> n = t.root
    BY Kin
  <2>2. n # t.root => p \in M /\ p \notin D[n] /\ n \in {t.left[p], t.right[p]}
    <3>1. Node(t, D, M, n)
      BY DEF Shaped
    <3>2. n # t.root => p \notin D[n]
      BY Kin
    <3> QED
      BY <3>1, <3>2 DEF Node
  <2>3. /\ n \in D[n] /\ m \in D[m]
        /\ c # 0 => c \in D[c]
        /\ l # 0 => l \in D[l]
        /\ e # 0 => e \in D[e]
    BY <1>1, <1>2, Kin
  <2> QED
    BY <1>1, <1>2, <2>1, <2>2, <2>3
<1>4. /\ u \in Tree!Trees
      /\ u.root = IF p = 0 THEN m ELSE t.root
      /\ \A x \in Tree!Nodes :
           /\ u.left[x] = IF x = m THEN n ELSE IF p # 0 /\ x = p /\ n = t.left[p] THEN m ELSE t.left[x]
           /\ u.right[x] = IF x = n THEN c ELSE IF p # 0 /\ x = p /\ n # t.left[p] THEN m ELSE t.right[x]
           /\ u.parent[x] = IF x = n THEN m ELSE IF x = m THEN p
                            ELSE IF x = c /\ c # 0 THEN n ELSE t.parent[x]
  BY DEF TurnedLeft
<1>5. 0 \in Tree!Nodes
  BY DEF Tree!Nodes
<1>6. /\ t.left[0] = 0 /\ t.right[0] = 0 /\ t.parent[0] = 0 /\ t.root \in M \cup {0}
      /\ t.parent[t.root] = 0 /\ D \in [Tree!Nodes -> SUBSET M] /\ D[0] = {} /\ D[t.root] = M
      /\ \A x \in M : Node(t, D, M, x) /\ Convex(D[x], M)
  BY DEF Shaped
<1> HIDE DEF m, c, p, l, e
<1>7. /\ E \in [Tree!Nodes -> SUBSET M] /\ E[0] = {} /\ E[m] = D[n] /\ E[n] = {n} \cup D[l] \cup D[c]
      /\ \A x \in Tree!Nodes : x # m /\ x # n => E[x] = D[x]
  BY <1>1, <1>2, <1>5, <1>6
<1> HIDE DEF E
<1>8. Node(u, E, M, n)
  <2>1. u.left[n] = l /\ u.right[n] = c /\ u.parent[n] = m /\ u.left[m] = n
    BY <1>1, <1>3, <1>4 DEF l
  <2>2. E[l] = D[l] /\ E[c] = D[c]
    BY <1>1, <1>2, <1>5, <1>7
  <2>3. l # 0 => u.parent[l] = n
    BY <1>1, <1>2, <1>4
  <2>4. c # 0 => u.parent[c] = n
    BY <1>1, <1>2, <1>4
  <2>5. \A k \in D[c] : k > n
    BY <1>2
  <2> QED
    BY <1>1, <1>2, <1>7, <2>1, <2>2, <2>3, <2>4, <2>5 DEF Node
<1>9. Node(u, E, M, m)
  <2>1. u.left[m] = n /\ u.right[m] = e /\ u.parent[m] = p /\ u.parent[n] = m
    BY <1>1, <1>3, <1>4 DEF e
  <2>2. E[e] = D[e]
    BY <1>1, <1>2, <1>5, <1>7
  <2>3. e # 0 => u.parent[e] = m
    BY <1>1, <1>2, <1>4
  <2>4. m # u.root => p \in M /\ m \in {u.left[p], u.right[p]}
    BY <1>1, <1>3, <1>4
  <2>5. \A k \in {n} \cup D[l] \cup D[c] : k < m
    <3>1. \A k \in D[l] : k < n /\ k \in Int
      BY <1>1, <1>2
    <3>2. n < m /\ n \in Int /\ m \in Int
      BY <1>1, <1>2
    <3>3. \A k \in D[c] : k < m
      BY <1>2
    <3>4. \A k \in D[l] : k < m
      BY <3>1, <3>2
    <3> QED
      BY <3>2, <3>3, <3>4
  <2>6. D[n] = {m} \cup ({n} \cup D[l] \cup D[c]) \cup D[e]
    BY <1>2
  <2> QED
    BY <1>1, <1>2, <1>7, <2>1, <2>2, <2>3, <2>4, <2>5, <2>6 DEF Node
<1>10. ASSUME NEW x \in M, x # n, x # m PROVE Node(u, E, M, x)
  <2>1. Node(t, D, M, x) /\ E[x] = D[x] /\ x \in Tree!Nodes
    BY <1>1, <1>6, <1>7, <1>10
  <2>2. /\ t.left[x] # 0 => t.left[x] # m /\ t.left[x] # c
        /\ t.right[x] # 0 => t.right[x] # m /\ t.right[x] # c
    BY <1>1, <1>2, <1>10, <2>1 DEF Node
  <2>3. /\ u.left[x] = IF x = p /\ n = t.left[p] THEN m ELSE t.left[x]
        /\ u.right[x] = IF x = p /\ n # t.left[p] THEN m ELSE t.right[x]
        /\ u.parent[x] = IF x = c THEN n ELSE t.parent[x]
    BY <1>1, <1>4, <1>10, <2>1
  <2>4. /\ t.left[x] = n => x = p
        /\ t.right[x] = n => x = p
    BY <1>1, <2>1 DEF Node, p
  <2>5. p = x => t.left[x] = n \/ t.right[x] = n
    BY <1>1, <1>3
  <2>6. t.left[x] \in Tree!Nodes /\ t.right[x] \in Tree!Nodes
    BY <1>1, <1>5, <2>1 DEF Node
  <2>7. t.left[x] # 0 => t.left[x] # t.right[x]
    BY Kin
  <2>8. /\ u.left[x] \in M \cup {0} /\ E[u.left[x]] = D[t.left[x]]
        /\ u.left[x] # 0 => u.parent[u.left[x]] = x
    <3>1. CASE x = p /\ n = t.left[p]
      <4>1. u.left[x] = m /\ u.parent[m] = p /\ E[m] = D[n]
        BY <1>1, <1>4, <1>7, <2>3, <3>1
      <4> QED
        BY <1>1, <3>1, <4>1
    <3>2. CASE ~(x = p /\ n = t.left[p])
      <4>1. u.left[x] = t.left[x] /\ t.left[x] # n
        BY <2>3, <2>4, <3>2
      <4>2. CASE t.left[x] = 0
        BY <1>1, <1>5, <1>6, <1>7, <4>1, <4>2
      <4>3. CASE t.left[x] # 0
        <5> DEFINE y == t.left[x]
        <5>1. y \in M /\ y \in Tree!Nodes /\ t.parent[y] = x /\ y # m /\ y # c /\ y # n
          BY <2>1, <2>2, <2>6, <4>1, <4>3 DEF Node
        <5>2. E[y] = D[y] /\ u.parent[y] = x /\ u.left[x] = y
          <6> HIDE DEF y
          <6>1. E[y] = D[y] /\ u.parent[y] = x
            BY <1>4, <1>7, <5>1
          <6> QED
            BY <4>1, <6>1 DEF y
        <5> QED
          BY <5>1, <5>2
      <4> QED
        BY <4>2, <4>3
    <3> QED
      BY <3>1, <3>2
  <2>9. /\ u.right[x] \in M \cup {0} /\ E[u.right[x]] = D[t.right[x]]
        /\ u.right[x] # 0 => u.parent[u.right[x]] = x
    <3>1. CASE x = p /\ n # t.left[p]
      <4>1. u.right[x] = m /\ u.parent[m] = p /\ E[m] = D[n] /\ t.right[x] = n
        BY <1>1, <1>4, <1>7, <2>3, <2>5, <3>1
      <4> QED
        BY <1>1, <3>1, <4>1
    <3>2. CASE ~(x = p /\ n # t.left[p])
      <4>1. u.right[x] = t.right[x] /\ t.right[x] # n
        BY <1>1, <2>3, <2>4, <2>7, <3>2
      <4>2. CASE t.right[x] = 0
        BY <1>1, <1>5, <1>6, <1>7, <4>1, <4>2
      <4>3. CASE t.right[x] # 0
        <5> DEFINE y == t.right[x]
        <5>1. y \in M /\ y \in Tree!Nodes /\ t.parent[y] = x /\ y # m /\ y # c /\ y # n
          BY <2>1, <2>2, <2>6, <4>1, <4>3 DEF Node
        <5>2. E[y] = D[y] /\ u.parent[y] = x /\ u.right[x] = y
          <6> HIDE DEF y
          <6>1. E[y] = D[y] /\ u.parent[y] = x
            BY <1>4, <1>7, <5>1
          <6> QED
            BY <4>1, <6>1 DEF y
        <5> QED
          BY <5>1, <5>2
      <4> QED
        BY <4>2, <4>3
    <3> QED
      BY <3>1, <3>2
  <2>10. x # u.root => u.parent[x] \in M /\ x \in {u.left[u.parent[x]], u.right[u.parent[x]]}
    <3> SUFFICES ASSUME x # u.root
                 PROVE  u.parent[x] \in M /\ x \in {u.left[u.parent[x]], u.right[u.parent[x]]}
      OBVIOUS
    <3>1. CASE x = c
      <4>1. u.parent[x] = n /\ u.right[n] = c
        BY <1>1, <1>3, <1>4, <2>3, <3>1
      <4> QED
        BY <3>1, <4>1
    <3>2. CASE x # c
      <4> DEFINE y == t.parent[x]
      <4>1. u.parent[x] = y
        BY <2>3, <3>2
      <4>2. x # t.root
        BY <1>3, <1>4, <1>10
      <4>3. y \in M /\ x \in {t.left[y], t.right[y]}
        BY <2>1, <4>2 DEF Node
      <4> HIDE DEF y
      <4>4. CASE y = n
        <5>1. x = l /\ u.left[n] = l
          BY <1>1, <1>3, <1>4, <1>10, <4>3, <4>4 DEF l, m
        <5> QED
          BY <4>1, <4>3, <4>4, <5>1
      <4>5. CASE y = m
        <5>1. x = e /\ u.right[m] = e
          BY <1>1, <1>3, <1>4, <3>2, <4>3, <4>5 DEF e, c
        <5> QED
          BY <4>1, <4>3, <4>5, <5>1
      <4>6. CASE y # n /\ y # m
        <5>1. u.left[y] = IF y = p /\ n = t.left[p] THEN m ELSE t.left[y]
          BY <1>1, <1>4, <4>3, <4>6
        <5>2. u.right[y] = IF y = p /\ n # t.left[p] THEN m ELSE t.right[y]
          BY <1>1, <1>4, <4>3, <4>6
        <5>3. y = p => n = t.left[y] \/ n = t.right[y]
          BY <1>1, <1>3, <4>3
        <5> QED
          BY <1>10, <4>1, <4>3, <5>1, <5>2, <5>3
      <4> QED
        BY <4>4, <4>5, <4>6
    <3> QED
      BY <3>1, <3>2
  <2> QED
    BY <2>1, <2>8, <2>9, <2>10 DEF Node
<1>11. \A x \in M : Convex(E[x], M)
  <2>1. Convex(E[m], M)
    BY <1>1, <1>6, <1>7
  <2>2. Convex(E[n], M)
    <3> SUFFICES ASSUME NEW a \in E[n], NEW b \in E[n], NEW k \in M, a < k, k < b PROVE k \in E[n]
      BY DEF Convex
    <3>1. a \in D[n] /\ b \in D[n]
      BY <1>2, <1>7
    <3>2. k \in D[n]
      BY <1>6, <3>1 DEF Convex
    <3>3. b < m
      <4>1. \A j \in D[l] : j < n /\ j \in Int
        BY <1>1, <1>2
      <4> QED
        BY <1>1, <1>2, <1>7, <4>1
    <3>4. b \in Int /\ k \in Int /\ m \in Int
      BY <1>1, <1>2, <3>1
    <3>5. k # m /\ k \notin D[e]
      BY <1>2, <3>3, <3>4
    <3> QED
      BY <1>2, <1>7, <3>2, <3>5
  <2> QED
    BY <1>1, <1>6, <1>7, <2>1, <2>2
<1>12. /\ u.left[0] = 0 /\ u.right[0] = 0 /\ u.parent[0] = 0
       /\ u.root \in M \cup {0} /\ u.parent[u.root] = 0 /\ E[u.root] = M
  <2>1. u.left[0] = 0 /\ u.right[0] = 0 /\ u.parent[0] = 0
    BY <1>1, <1>3, <1>4, <1>5, <1>6
  <2>2. CASE p = 0
    <3>1. u.root = m /\ n = t.root
      BY <1>3, <1>4, <2>2
    <3>2. u.parent[m] = 0 /\ E[m] = M
      BY <1>1, <1>4, <1>6, <1>7, <2>2, <3>1
    <3> QED
      BY <1>1, <2>1, <3>1, <3>2
  <2>3. CASE p # 0
    <3>1. t.root # n /\ u.root = t.root
      BY <1>3, <1>4, <2>3
    <3>2. t.root \in M /\ t.root \in Tree!Nodes
      BY <1>1, <1>6
    <3>3. t.root # c
      BY <1>1, <1>2, <1>6, <3>2
    <3>4. u.parent[t.root] = 0 /\ E[t.root] = M
      BY <1>1, <1>4, <1>6, <1>7, <3>1, <3>2, <3>3
    <3> QED
      BY <2>1, <3>1, <3>2, <3>4
  <2> QED
    BY <2>1, <2>2, <2>3
<1>13. Shaped(u, E, M)
  BY <1>1, <1>4, <1>7, <1>8, <1>9, <1>10, <1>11, <1>12 DEF Shaped
<1> QED
  BY <1>7, <1>13, <1>1 DEF m

\* The same to the right.
TurnedRight(t, n, u) ==
  LET m == t.left[n]
      c == t.right[m]
      p == t.parent[n]
  IN /\ u \in Tree!Trees /\ u.color = t.color
     /\ u.root = IF p = 0 THEN m ELSE t.root
     /\ \A x \in Tree!Nodes :
          /\ u.right[x] = IF x = m THEN n ELSE IF p # 0 /\ x = p /\ n = t.right[p] THEN m ELSE t.right[x]
          /\ u.left[x] = IF x = n THEN c ELSE IF p # 0 /\ x = p /\ n # t.right[p] THEN m ELSE t.left[x]
          /\ u.parent[x] = IF x = n THEN m ELSE IF x = m THEN p
                           ELSE IF x = c /\ c # 0 THEN n ELSE t.parent[x]

LEMMA TurnsRight ==
  ASSUME TreeKeys \in Nat, NEW t, NEW D, NEW M, Shaped(t, D, M), NEW n \in M, t.left[n] # 0
  PROVE  TurnedRight(t, n, Tree!RotateToRight(t, n))
<1> DEFINE m == t.left[n]
           c == t.right[m]
           p == t.parent[n]
           a == Tree!Adopt([t EXCEPT !.left[n] = c], c, n)
           r == Tree!Replace(a, n, m)
           v == [r EXCEPT !.parent[m] = p]
           u == [v EXCEPT !.right[m] = n, !.parent[n] = m]
<1>1. /\ t \in Tree!Trees /\ n \in Tree!Nodes /\ m \in M /\ m \in Tree!Nodes /\ m # 0 /\ n # 0
      /\ m # n /\ c \in Tree!Nodes /\ p \in Tree!Nodes /\ c # n /\ c # m /\ p # n /\ p # m
      /\ p # 0 => p # c
      /\ p # 0 => n \in {t.right[p], t.left[p]} /\ t.right[p] # t.left[p]
  <2>1. t \in Tree!Trees /\ m \in M
    BY DEF Shaped, Node
  <2>2. n \in Tree!Nodes /\ m \in Tree!Nodes /\ m # 0 /\ n # 0 /\ m # n /\ p # n /\ p # m
    BY <2>1, Kin
  <2>3. c \in Tree!Nodes /\ p \in Tree!Nodes
    BY <2>1, <2>2, Fields
  <2>4. c # 0 => c \in M /\ c \in D[c] /\ D[c] \subseteq D[m] /\ m \notin D[c] /\ D[m] \subseteq D[n] /\ n \notin D[m]
    <3>1. c # 0 => c \in M
      BY <2>1 DEF Shaped, Node
    <3> HIDE DEF c
    <3> QED
      BY <2>1, <3>1, Kin DEF c
  <2>5. c # n /\ c # m
    <3> HIDE DEF m, c, p
    <3> QED
      BY <2>2, <2>4
  <2>6. p # 0 => p \notin D[n] /\ n \in {t.right[p], t.left[p]} /\ t.right[p] # t.left[p]
    <3>1. Node(t, D, M, n)
      BY DEF Shaped
    <3>2. p # 0 => n # t.root /\ p \notin D[n] /\ p \in M
      BY Kin
    <3>3. p # 0 => /\ t.right[p] # 0 => t.right[p] # t.left[p]
                   /\ t.left[p] # 0 => t.right[p] # t.left[p]
      BY <3>2, Kin
    <3> QED
      BY <2>2, <3>1, <3>2, <3>3 DEF Node
  <2> QED
    BY <2>1, <2>2, <2>3, <2>4, <2>5, <2>6
<1> HIDE DEF m, c, p
<1>2. /\ a \in Tree!Trees /\ a.color = t.color /\ a.root = t.root /\ a.right = t.right
      /\ \A x \in Tree!Nodes : /\ a.left[x] = IF x = n THEN c ELSE t.left[x]
                               /\ a.parent[x] = IF x = c /\ c # 0 THEN n ELSE t.parent[x]
  BY <1>1 DEF Tree!Adopt, Tree!Trees, Tree!LEAF
<1>3. a.parent[n] = p
  BY <1>1, <1>2 DEF p
<1> HIDE DEF a
<1>4. /\ r \in Tree!Trees /\ r.color = t.color /\ r.parent = a.parent
      /\ r.root = IF p = 0 THEN m ELSE t.root
      /\ \A x \in Tree!Nodes :
           /\ r.right[x] = IF p # 0 /\ x = p /\ n = t.right[p] THEN m ELSE t.right[x]
           /\ r.left[x] = IF p # 0 /\ x = p /\ n # t.right[p] THEN m ELSE a.left[x]
  BY <1>1, <1>2, <1>3 DEF Tree!Replace, Tree!AmILeft, Tree!Trees, Tree!LEAF
<1> HIDE DEF r
<1>5. /\ u \in Tree!Trees /\ u.color = t.color /\ u.root = r.root /\ u.left = r.left
      /\ \A x \in Tree!Nodes :
           /\ u.right[x] = IF x = m THEN n ELSE r.right[x]
           /\ u.parent[x] = IF x = n THEN m ELSE IF x = m THEN p ELSE r.parent[x]
  BY <1>1, <1>4 DEF Tree!Trees
<1>6. Tree!RotateToRight(t, n) = u
  BY <1>1 DEF Tree!RotateToRight, Tree!LEAF, m, c, p, a, r
<1> HIDE DEF u, v
<1>7. \A x \in Tree!Nodes :
          /\ u.right[x] = IF x = m THEN n ELSE IF p # 0 /\ x = p /\ n = t.right[p] THEN m ELSE t.right[x]
          /\ u.left[x] = IF x = n THEN c ELSE IF p # 0 /\ x = p /\ n # t.right[p] THEN m ELSE t.left[x]
          /\ u.parent[x] = IF x = n THEN m ELSE IF x = m THEN p
                           ELSE IF x = c /\ c # 0 THEN n ELSE t.parent[x]
  BY <1>1, <1>2, <1>4, <1>5
<1>8. u \in Tree!Trees /\ u.color = t.color /\ u.root = IF p = 0 THEN m ELSE t.root
  BY <1>4, <1>5
<1> QED
  BY <1>6, <1>7, <1>8 DEF TurnedRight, m, c, p

LEMMA RightKeeps ==
  ASSUME TreeKeys \in Nat, NEW t, NEW D, NEW M, Shaped(t, D, M), NEW n \in M, t.left[n] # 0,
         NEW u, TurnedRight(t, n, u)
  PROVE  \E E : /\ Shaped(u, E, M)
                /\ \A x \in M : x \notin {n, t.left[n]} => E[x] = D[x]
<1> DEFINE m == t.left[n]
           c == t.right[m]
           p == t.parent[n]
           l == t.right[n]
           e == t.left[m]
           E == [x \in Tree!Nodes |-> IF x = m THEN D[n] ELSE IF x = n THEN {n} \cup D[l] \cup D[c]
                                      ELSE D[x]]
<1>1. /\ M \subseteq 1 .. TreeKeys /\ m \in M /\ n # 0 /\ 0 \notin M /\ m # n /\ m < n
      /\ t.parent[m] = n /\ m # t.root /\ t.right[n] # m
      /\ \A x \in M : x \in Tree!Nodes /\ x \in Int
  <2>1. m \in M /\ M \subseteq 1 .. TreeKeys /\ t.parent[m] = n
    BY DEF Shaped, Node
  <2>2. m # n /\ m < n /\ n # 0 /\ 0 \notin M /\ t.right[n] # m
    BY Kin
  <2>3. m # t.root
    BY <2>1, <2>2, Kin
  <2>4. \A x \in M : x \in Tree!Nodes /\ x \in Int
    BY Kin
  <2> QED
    BY <2>1, <2>2, <2>3, <2>4
<1>2. /\ D[m] = {m} \cup D[c] \cup D[e] /\ D[n] = {n} \cup D[l] \cup D[m]
      /\ c \in M \cup {0} /\ e \in M \cup {0} /\ l \in M \cup {0}
      /\ \A k \in D[c] : k > m
      /\ \A k \in D[e] : k < m
      /\ \A k \in D[l] : k > n
      /\ \A k \in D[m] : k < n
      /\ c # 0 => t.parent[c] = m /\ c # m /\ c # n /\ c # e
      /\ e # 0 => t.parent[e] = m /\ e # m /\ e # n
      /\ l # 0 => t.parent[l] = n /\ l # m /\ l # n
      /\ D[n] \subseteq M
  <2>1. Node(t, D, M, n) /\ Node(t, D, M, m)
    BY <1>1 DEF Shaped
  <2>2. c # 0 => c # m /\ c # t.parent[m] /\ c # e
    BY <1>1, Kin
  <2>3. e # 0 => e # m /\ e # t.parent[m]
    BY <1>1, Kin
  <2>4. l # 0 => l # n /\ l # m
    BY <1>1, Kin
  <2>5. D[n] \subseteq M
    BY Kin
  <2> QED
    BY <1>1, <2>1, <2>2, <2>3, <2>4, <2>5 DEF Node
<1>3. /\ p = 0 <=> n = t.root
      /\ p # 0 => p \in M /\ n \in {t.right[p], t.left[p]} /\ p # n /\ p # m /\ p # c /\ p # l /\ p # e
  <2>1. p = 0 <=> n = t.root
    BY Kin
  <2>2. n # t.root => p \in M /\ p \notin D[n] /\ n \in {t.right[p], t.left[p]}
    <3>1. Node(t, D, M, n)
      BY DEF Shaped
    <3>2. n # t.root => p \notin D[n]
      BY Kin
    <3> QED
      BY <3>1, <3>2 DEF Node
  <2>3. /\ n \in D[n] /\ m \in D[m]
        /\ c # 0 => c \in D[c]
        /\ l # 0 => l \in D[l]
        /\ e # 0 => e \in D[e]
    BY <1>1, <1>2, Kin
  <2> QED
    BY <1>1, <1>2, <2>1, <2>2, <2>3
<1>4. /\ u \in Tree!Trees
      /\ u.root = IF p = 0 THEN m ELSE t.root
      /\ \A x \in Tree!Nodes :
           /\ u.right[x] = IF x = m THEN n ELSE IF p # 0 /\ x = p /\ n = t.right[p] THEN m ELSE t.right[x]
           /\ u.left[x] = IF x = n THEN c ELSE IF p # 0 /\ x = p /\ n # t.right[p] THEN m ELSE t.left[x]
           /\ u.parent[x] = IF x = n THEN m ELSE IF x = m THEN p
                            ELSE IF x = c /\ c # 0 THEN n ELSE t.parent[x]
  BY DEF TurnedRight
<1>5. 0 \in Tree!Nodes
  BY DEF Tree!Nodes
<1>6. /\ t.right[0] = 0 /\ t.left[0] = 0 /\ t.parent[0] = 0 /\ t.root \in M \cup {0}
      /\ t.parent[t.root] = 0 /\ D \in [Tree!Nodes -> SUBSET M] /\ D[0] = {} /\ D[t.root] = M
      /\ \A x \in M : Node(t, D, M, x) /\ Convex(D[x], M)
  BY DEF Shaped
<1> HIDE DEF m, c, p, l, e
<1>7. /\ E \in [Tree!Nodes -> SUBSET M] /\ E[0] = {} /\ E[m] = D[n] /\ E[n] = {n} \cup D[l] \cup D[c]
      /\ \A x \in Tree!Nodes : x # m /\ x # n => E[x] = D[x]
  BY <1>1, <1>2, <1>5, <1>6
<1> HIDE DEF E
<1>8. Node(u, E, M, n)
  <2>1. u.right[n] = l /\ u.left[n] = c /\ u.parent[n] = m /\ u.right[m] = n
    BY <1>1, <1>3, <1>4 DEF l
  <2>2. E[l] = D[l] /\ E[c] = D[c]
    BY <1>1, <1>2, <1>5, <1>7
  <2>3. l # 0 => u.parent[l] = n
    BY <1>1, <1>2, <1>4
  <2>4. c # 0 => u.parent[c] = n
    BY <1>1, <1>2, <1>4
  <2>5. \A k \in D[c] : k < n
    BY <1>2
  <2> QED
    BY <1>1, <1>2, <1>7, <2>1, <2>2, <2>3, <2>4, <2>5 DEF Node
<1>9. Node(u, E, M, m)
  <2>1. u.right[m] = n /\ u.left[m] = e /\ u.parent[m] = p /\ u.parent[n] = m
    BY <1>1, <1>3, <1>4 DEF e
  <2>2. E[e] = D[e]
    BY <1>1, <1>2, <1>5, <1>7
  <2>3. e # 0 => u.parent[e] = m
    BY <1>1, <1>2, <1>4
  <2>4. m # u.root => p \in M /\ m \in {u.right[p], u.left[p]}
    BY <1>1, <1>3, <1>4
  <2>5. \A k \in {n} \cup D[l] \cup D[c] : k > m
    <3>1. \A k \in D[l] : k > n /\ k \in Int
      BY <1>1, <1>2
    <3>2. n > m /\ n \in Int /\ m \in Int
      BY <1>1, <1>2
    <3>3. \A k \in D[c] : k > m
      BY <1>2
    <3>4. \A k \in D[l] : k > m
      BY <3>1, <3>2
    <3> QED
      BY <3>2, <3>3, <3>4
  <2>6. D[n] = {m} \cup ({n} \cup D[l] \cup D[c]) \cup D[e]
    BY <1>2
  <2> QED
    BY <1>1, <1>2, <1>7, <2>1, <2>2, <2>3, <2>4, <2>5, <2>6 DEF Node
<1>10. ASSUME NEW x \in M, x # n, x # m PROVE Node(u, E, M, x)
  <2>1. Node(t, D, M, x) /\ E[x] = D[x] /\ x \in Tree!Nodes
    BY <1>1, <1>6, <1>7, <1>10
  <2>2. /\ t.right[x] # 0 => t.right[x] # m /\ t.right[x] # c
        /\ t.left[x] # 0 => t.left[x] # m /\ t.left[x] # c
    BY <1>1, <1>2, <1>10, <2>1 DEF Node
  <2>3. /\ u.right[x] = IF x = p /\ n = t.right[p] THEN m ELSE t.right[x]
        /\ u.left[x] = IF x = p /\ n # t.right[p] THEN m ELSE t.left[x]
        /\ u.parent[x] = IF x = c THEN n ELSE t.parent[x]
    BY <1>1, <1>4, <1>10, <2>1
  <2>4. /\ t.right[x] = n => x = p
        /\ t.left[x] = n => x = p
    BY <1>1, <2>1 DEF Node, p
  <2>5. p = x => t.right[x] = n \/ t.left[x] = n
    BY <1>1, <1>3
  <2>6. t.right[x] \in Tree!Nodes /\ t.left[x] \in Tree!Nodes
    BY <1>1, <1>5, <2>1 DEF Node
  <2>7. t.right[x] # 0 => t.right[x] # t.left[x]
    BY Kin
  <2>8. /\ u.right[x] \in M \cup {0} /\ E[u.right[x]] = D[t.right[x]]
        /\ u.right[x] # 0 => u.parent[u.right[x]] = x
    <3>1. CASE x = p /\ n = t.right[p]
      <4>1. u.right[x] = m /\ u.parent[m] = p /\ E[m] = D[n]
        BY <1>1, <1>4, <1>7, <2>3, <3>1
      <4> QED
        BY <1>1, <3>1, <4>1
    <3>2. CASE ~(x = p /\ n = t.right[p])
      <4>1. u.right[x] = t.right[x] /\ t.right[x] # n
        BY <2>3, <2>4, <3>2
      <4>2. CASE t.right[x] = 0
        BY <1>1, <1>5, <1>6, <1>7, <4>1, <4>2
      <4>3. CASE t.right[x] # 0
        <5> DEFINE y == t.right[x]
        <5>1. y \in M /\ y \in Tree!Nodes /\ t.parent[y] = x /\ y # m /\ y # c /\ y # n
          BY <2>1, <2>2, <2>6, <4>1, <4>3 DEF Node
        <5>2. E[y] = D[y] /\ u.parent[y] = x /\ u.right[x] = y
          <6> HIDE DEF y
          <6>1. E[y] = D[y] /\ u.parent[y] = x
            BY <1>4, <1>7, <5>1
          <6> QED
            BY <4>1, <6>1 DEF y
        <5> QED
          BY <5>1, <5>2
      <4> QED
        BY <4>2, <4>3
    <3> QED
      BY <3>1, <3>2
  <2>9. /\ u.left[x] \in M \cup {0} /\ E[u.left[x]] = D[t.left[x]]
        /\ u.left[x] # 0 => u.parent[u.left[x]] = x
    <3>1. CASE x = p /\ n # t.right[p]
      <4>1. u.left[x] = m /\ u.parent[m] = p /\ E[m] = D[n] /\ t.left[x] = n
        BY <1>1, <1>4, <1>7, <2>3, <2>5, <3>1
      <4> QED
        BY <1>1, <3>1, <4>1
    <3>2. CASE ~(x = p /\ n # t.right[p])
      <4>1. u.left[x] = t.left[x] /\ t.left[x] # n
        BY <1>1, <2>3, <2>4, <2>7, <3>2
      <4>2. CASE t.left[x] = 0
        BY <1>1, <1>5, <1>6, <1>7, <4>1, <4>2
      <4>3. CASE t.left[x] # 0
        <5> DEFINE y == t.left[x]
        <5>1. y \in M /\ y \in Tree!Nodes /\ t.parent[y] = x /\ y # m /\ y # c /\ y # n
          BY <2>1, <2>2, <2>6, <4>1, <4>3 DEF Node
        <5>2. E[y] = D[y] /\ u.parent[y] = x /\ u.left[x] = y
          <6> HIDE DEF y
          <6>1. E[y] = D[y] /\ u.parent[y] = x
            BY <1>4, <1>7, <5>1
          <6> QED
            BY <4>1, <6>1 DEF y
        <5> QED
          BY <5>1, <5>2
      <4> QED
        BY <4>2, <4>3
    <3> QED
      BY <3>1, <3>2
  <2>10. x # u.root => u.parent[x] \in M /\ x \in {u.right[u.parent[x]], u.left[u.parent[x]]}
    <3> SUFFICES ASSUME x # u.root
                 PROVE  u.parent[x] \in M /\ x \in {u.right[u.parent[x]], u.left[u.parent[x]]}
      OBVIOUS
    <3>1. CASE x = c
      <4>1. u.parent[x] = n /\ u.left[n] = c
        BY <1>1, <1>3, <1>4, <2>3, <3>1
      <4> QED
        BY <3>1, <4>1
    <3>2. CASE x # c
      <4> DEFINE y == t.parent[x]
      <4>1. u.parent[x] = y
        BY <2>3, <3>2
      <4>2. x # t.root
        BY <1>3, <1>4, <1>10
      <4>3. y \in M /\ x \in {t.right[y], t.left[y]}
        BY <2>1, <4>2 DEF Node
      <4> HIDE DEF y
      <4>4. CASE y = n
        <5>1. x = l /\ u.right[n] = l
          BY <1>1, <1>3, <1>4, <1>10, <4>3, <4>4 DEF l, m
        <5> QED
          BY <4>1, <4>3, <4>4, <5>1
      <4>5. CASE y = m
        <5>1. x = e /\ u.left[m] = e
          BY <1>1, <1>3, <1>4, <3>2, <4>3, <4>5 DEF e, c
        <5> QED
          BY <4>1, <4>3, <4>5, <5>1
      <4>6. CASE y # n /\ y # m
        <5>1. u.right[y] = IF y = p /\ n = t.right[p] THEN m ELSE t.right[y]
          BY <1>1, <1>4, <4>3, <4>6
        <5>2. u.left[y] = IF y = p /\ n # t.right[p] THEN m ELSE t.left[y]
          BY <1>1, <1>4, <4>3, <4>6
        <5>3. y = p => n = t.right[y] \/ n = t.left[y]
          BY <1>1, <1>3, <4>3
        <5> QED
          BY <1>10, <4>1, <4>3, <5>1, <5>2, <5>3
      <4> QED
        BY <4>4, <4>5, <4>6
    <3> QED
      BY <3>1, <3>2
  <2> QED
    BY <2>1, <2>8, <2>9, <2>10 DEF Node
<1>11. \A x \in M : Convex(E[x], M)
  <2>1. Convex(E[m], M)
    BY <1>1, <1>6, <1>7
  <2>2. Convex(E[n], M)
    <3> SUFFICES ASSUME NEW a \in E[n], NEW b \in E[n], NEW k \in M, a > k, k > b PROVE k \in E[n]
      BY DEF Convex
    <3>1. a \in D[n] /\ b \in D[n]
      BY <1>2, <1>7
    <3>2. k \in D[n]
      BY <1>6, <3>1 DEF Convex
    <3>3. b > m
      <4>1. \A j \in D[l] : j > n /\ j \in Int
        BY <1>1, <1>2
      <4> QED
        BY <1>1, <1>2, <1>7, <4>1
    <3>4. b \in Int /\ k \in Int /\ m \in Int
      BY <1>1, <1>2, <3>1
    <3>5. k # m /\ k \notin D[e]
      BY <1>2, <3>3, <3>4
    <3> QED
      BY <1>2, <1>7, <3>2, <3>5
  <2> QED
    BY <1>1, <1>6, <1>7, <2>1, <2>2
<1>12. /\ u.right[0] = 0 /\ u.left[0] = 0 /\ u.parent[0] = 0
       /\ u.root \in M \cup {0} /\ u.parent[u.root] = 0 /\ E[u.root] = M
  <2>1. u.right[0] = 0 /\ u.left[0] = 0 /\ u.parent[0] = 0
    BY <1>1, <1>3, <1>4, <1>5, <1>6
  <2>2. CASE p = 0
    <3>1. u.root = m /\ n = t.root
      BY <1>3, <1>4, <2>2
    <3>2. u.parent[m] = 0 /\ E[m] = M
      BY <1>1, <1>4, <1>6, <1>7, <2>2, <3>1
    <3> QED
      BY <1>1, <2>1, <3>1, <3>2
  <2>3. CASE p # 0
    <3>1. t.root # n /\ u.root = t.root
      BY <1>3, <1>4, <2>3
    <3>2. t.root \in M /\ t.root \in Tree!Nodes
      BY <1>1, <1>6
    <3>3. t.root # c
      BY <1>1, <1>2, <1>6, <3>2
    <3>4. u.parent[t.root] = 0 /\ E[t.root] = M
      BY <1>1, <1>4, <1>6, <1>7, <3>1, <3>2, <3>3
    <3> QED
      BY <2>1, <3>1, <3>2, <3>4
  <2> QED
    BY <2>1, <2>2, <2>3
<1>13. Shaped(u, E, M)
  BY <1>1, <1>4, <1>7, <1>8, <1>9, <1>10, <1>11, <1>12 DEF Shaped
<1> QED
  BY <1>7, <1>13, <1>1 DEF m

LEMMA TurnTypes ==
  ASSUME TreeKeys \in Nat, NEW t \in Tree!Trees, NEW n \in Tree!Nodes
  PROVE  Tree!RotateToLeft(t, n) \in Tree!Trees /\ Tree!RotateToRight(t, n) \in Tree!Trees
<1> DEFINE m == t.right[n]
           c == t.left[m]
           a == Tree!Adopt([t EXCEPT !.right[n] = c], c, n)
           r == Tree!Replace(a, n, m)
           k == t.left[n]
           e == t.right[k]
           b == Tree!Adopt([t EXCEPT !.left[n] = e], e, n)
           q == Tree!Replace(b, n, k)
<1>1. /\ m \in Tree!Nodes /\ c \in Tree!Nodes /\ k \in Tree!Nodes /\ e \in Tree!Nodes
      /\ t.parent[n] \in Tree!Nodes
  BY Fields
<1>2. /\ Tree!RotateToLeft(t, n) =
           IF m = 0 THEN t
           ELSE [[r EXCEPT !.parent[m] = t.parent[n]] EXCEPT !.left[m] = n, !.parent[n] = m]
      /\ Tree!RotateToRight(t, n) =
           IF k = 0 THEN [t EXCEPT !.left[n] = e]
           ELSE [[q EXCEPT !.parent[k] = t.parent[n]] EXCEPT !.right[k] = n, !.parent[n] = k]
  BY DEF Tree!RotateToLeft, Tree!RotateToRight, Tree!LEAF
<1> HIDE DEF m, c, k, e
<1>3. a \in Tree!Trees /\ b \in Tree!Trees
  BY <1>1 DEF Tree!Adopt, Tree!Trees, Tree!LEAF
<1> HIDE DEF a, b
<1>4. r \in Tree!Trees /\ q \in Tree!Trees
  BY <1>1, <1>3 DEF Tree!Replace, Tree!AmILeft, Tree!Trees, Tree!LEAF
<1> HIDE DEF r, q
<1>5. [[r EXCEPT !.parent[m] = t.parent[n]] EXCEPT !.left[m] = n, !.parent[n] = m] \in Tree!Trees
  BY <1>1, <1>4 DEF Tree!Trees
<1>6. [[q EXCEPT !.parent[k] = t.parent[n]] EXCEPT !.right[k] = n, !.parent[n] = k] \in Tree!Trees
  BY <1>1, <1>4 DEF Tree!Trees
<1>7. [t EXCEPT !.left[n] = e] \in Tree!Trees
  BY <1>1 DEF Tree!Trees
<1> QED
  BY <1>2, <1>5, <1>6, <1>7

\* Where there is no child to go up nothing changes.
LEMMA TurnsNothing ==
  ASSUME TreeKeys \in Nat, NEW t, NEW D, NEW M, Shaped(t, D, M), NEW n \in M \cup {0}
  PROVE  /\ t.right[n] = 0 => Tree!RotateToLeft(t, n) = t
         /\ t.left[n] = 0 => Tree!RotateToRight(t, n) = t
<1>1. t.right[0] = 0 /\ t \in Tree!Trees /\ n \in Tree!Nodes
  BY Kin DEF Shaped, Tree!Nodes
<1>2. t.right[n] = 0 => Tree!RotateToLeft(t, n) = t
  BY DEF Tree!RotateToLeft, Tree!LEAF
<1>3. ASSUME t.left[n] = 0 PROVE Tree!RotateToRight(t, n) = t
  <2>1. Tree!RotateToRight(t, n) = [t EXCEPT !.left[n] = 0]
    BY <1>1, <1>3 DEF Tree!RotateToRight, Tree!LEAF
  <2>2. [t EXCEPT !.left[n] = 0] = t
    <3>1. [t.left EXCEPT ![n] = 0] = t.left
      BY <1>1, <1>3, Fields
    <3> QED
      BY <1>1, <3>1 DEF Tree!Trees
  <2> QED
    BY <2>1, <2>2
<1> QED
  BY <1>2, <1>3

\* Only the nodes of S get other keys below them.
Relabels(t, D, u, E, M, S) ==
  Shaped(u, E, M) /\ u.color = t.color /\ \A x \in M : x \notin S => E[x] = D[x]
\* A rotation moves a node and one of its children.
LEMMA Turns ==
  ASSUME TreeKeys \in Nat, NEW t, NEW D, NEW M, Shaped(t, D, M), NEW n \in M \cup {0},
         NEW side \in {"left", "right"}
  PROVE  \E E : Relabels(t, D, Tree!Towards(t, n, side), E, M, {n, Tree!Far(t, n, side)})
<1> USE DEF Relabels
<1> DEFINE u == Tree!Towards(t, n, side)
<1>1. CASE side = "left" /\ (n = 0 \/ t.right[n] = 0)
  <2>1. u = t
    <3>1. t.right[n] = 0
      BY <1>1 DEF Shaped
    <3>2. u = Tree!RotateToLeft(t, n)
      BY <1>1 DEF Tree!Towards
    <3> QED
      BY <3>1, <3>2, TurnsNothing
  <2> QED
    BY <2>1
<1>2. CASE side = "right" /\ (n = 0 \/ t.left[n] = 0)
  <2>1. u = t
    <3>1. t.left[n] = 0
      BY <1>2 DEF Shaped
    <3>2. u = Tree!RotateToRight(t, n)
      BY <1>2 DEF Tree!Towards
    <3> QED
      BY <3>1, <3>2, TurnsNothing
  <2> QED
    BY <2>1
<1>3. CASE side = "left" /\ n \in M /\ t.right[n] # 0
  <2>1. u = Tree!RotateToLeft(t, n) /\ Tree!Far(t, n, side) = t.right[n]
    BY <1>3 DEF Tree!Towards, Tree!Far
  <2>2. TurnedLeft(t, n, u)
    BY <1>3, <2>1, TurnsLeft
  <2>3. u.color = t.color
    BY <2>2 DEF TurnedLeft
  <2>4. \E E : Shaped(u, E, M) /\ \A x \in M : x \notin {n, t.right[n]} => E[x] = D[x]
    BY <1>3, <2>2, LeftKeeps
  <2> QED
    BY <2>1, <2>3, <2>4
<1>4. CASE side = "right" /\ n \in M /\ t.left[n] # 0
  <2>1. u = Tree!RotateToRight(t, n) /\ Tree!Far(t, n, side) = t.left[n]
    BY <1>4 DEF Tree!Towards, Tree!Far
  <2>2. TurnedRight(t, n, u)
    BY <1>4, <2>1, TurnsRight
  <2>3. u.color = t.color
    BY <2>2 DEF TurnedRight
  <2>4. \E E : Shaped(u, E, M) /\ \A x \in M : x \notin {n, t.left[n]} => E[x] = D[x]
    BY <1>4, <2>2, RightKeeps
  <2> QED
    BY <2>1, <2>3, <2>4
<1> QED
  BY <1>1, <1>2, <1>3, <1>4

OtherSide(side) == IF side = "left" THEN "right" ELSE "left"
LEMMA AwayIsTowards ==
  ASSUME NEW t, NEW n, NEW side \in {"left", "right"}
  PROVE  /\ Tree!Away(t, n, side) = Tree!Towards(t, n, OtherSide(side))
         /\ Tree!Near(t, n, side) = Tree!Far(t, n, OtherSide(side))
         /\ Tree!Far(t, n, side) = Tree!Near(t, n, OtherSide(side))
         /\ OtherSide(side) \in {"left", "right"}
BY DEF Tree!Away, Tree!Towards, Tree!Near, Tree!Far, OtherSide

LEMMA Painted ==
  ASSUME NEW t, NEW D, NEW M, Shaped(t, D, M), NEW n \in Tree!Nodes, NEW c \in {"BLACK", "RED"}
  PROVE  LET u == Tree!Paint(t, n, c) IN
         /\ Shaped(u, D, M) /\ u \in Tree!Trees
         /\ u.root = t.root /\ u.parent = t.parent /\ u.left = t.left /\ u.right = t.right
         /\ \A x \in Tree!Nodes : u.color[x] = IF x = n THEN c ELSE t.color[x]
<1> DEFINE u == Tree!Paint(t, n, c)
<1>1. t \in Tree!Trees
  BY DEF Shaped
<1>2. /\ u \in Tree!Trees
      /\ u.root = t.root /\ u.parent = t.parent /\ u.left = t.left /\ u.right = t.right
      /\ \A x \in Tree!Nodes : u.color[x] = IF x = n THEN c ELSE t.color[x]
  BY <1>1 DEF Tree!Paint, Tree!Trees
<1> HIDE DEF u
<1>3. \A x : Node(t, D, M, x) => Node(u, D, M, x)
  BY <1>2 DEF Node
<1>4. Shaped(u, D, M)
  BY <1>2, <1>3 DEF Shaped
<1> QED
  BY <1>2, <1>4 DEF u

LEMMA Sizes ==
  ASSUME TreeKeys \in Nat, NEW S \in SUBSET (1 .. TreeKeys)
  PROVE  /\ Cardinality(S) \in 0 .. TreeKeys
         /\ \A R \in SUBSET S : R # S => Cardinality(R) < Cardinality(S)
<1>1. IsFiniteSet(1 .. TreeKeys) /\ Cardinality(1 .. TreeKeys) = TreeKeys
  BY FS_Interval
<1>2. IsFiniteSet(S) /\ Cardinality(S) <= TreeKeys /\ Cardinality(S) \in Nat
  BY <1>1, FS_Subset, FS_CardinalityType
<1>3. ASSUME NEW R \in SUBSET S, R # S PROVE Cardinality(R) < Cardinality(S)
  <2>1. IsFiniteSet(R) /\ Cardinality(R) <= Cardinality(S) /\ Cardinality(R) \in Nat
    BY <1>2, FS_Subset, FS_CardinalityType
  <2>2. Cardinality(R) # Cardinality(S)
    BY <1>2, <1>3, FS_Subset
  <2> QED
    BY <1>2, <2>1, <2>2
<1> QED
  BY <1>2, <1>3

DeleteSide(t, n) == IF Tree!AmILeft(t, n) THEN "left" ELSE "right"
DeleteDone(t, n) == n = t.root \/ t.color[n] # "BLACK" \/ n = 0
Turned(t, n) == Tree!TurnBrother(t, n, DeleteSide(t, n))
BrotherOf(t, n) == Tree!Brother(Turned(t, n), n, DeleteSide(t, n))
Reddened(t, n) == Tree!Paint(Turned(t, n), BrotherOf(t, n), "RED")

LEMMA PaintTypes ==
  ASSUME NEW t \in Tree!Trees, NEW n \in Tree!Nodes, NEW c \in {"BLACK", "RED"}
  PROVE  Tree!Paint(t, n, c) \in Tree!Trees
BY DEF Tree!Paint, Tree!Trees

LEMMA DeleteTypes ==
  ASSUME TreeKeys \in Nat, NEW t \in Tree!Trees, NEW n \in Tree!Nodes
  PROVE  /\ Turned(t, n) \in Tree!Trees /\ BrotherOf(t, n) \in Tree!Nodes
         /\ Reddened(t, n) \in Tree!Trees /\ Turned(t, n).parent[n] \in Tree!Nodes
<1> DEFINE side == DeleteSide(t, n)
           b == Tree!Brother(t, n, side)
           v == Tree!Paint(Tree!Paint(t, b, "BLACK"), t.parent[n], "RED")
<1>1. t.parent[n] \in Tree!Nodes /\ b \in Tree!Nodes
  BY Fields DEF Tree!Brother
<1>2. v \in Tree!Trees
  BY <1>1, PaintTypes
<1>3. Tree!Towards(v, t.parent[n], side) \in Tree!Trees
  BY <1>1, <1>2, TurnTypes DEF Tree!Towards
<1>4. Turned(t, n) \in Tree!Trees
  BY <1>3 DEF Turned, Tree!TurnBrother
<1>5. Turned(t, n).parent[n] \in Tree!Nodes
  BY <1>4, Fields
<1>6. BrotherOf(t, n) \in Tree!Nodes
  BY <1>4, <1>5, Fields DEF BrotherOf, Tree!Brother
<1> QED
  BY <1>4, <1>5, <1>6, PaintTypes DEF Reddened

IsFixDelete(f) ==
  f = [p \in Tree!Trees \X Tree!Nodes |->
         IF DeleteDone(p[1], p[2]) THEN Tree!Paint(p[1], p[2], "BLACK")
         ELSE IF Tree!BlackNephews(Turned(p[1], p[2]), BrotherOf(p[1], p[2]))
         THEN f[<<Reddened(p[1], p[2]), Turned(p[1], p[2]).parent[p[2]]>>]
         ELSE Tree!TurnDelete(Turned(p[1], p[2]), p[2], DeleteSide(p[1], p[2]))]

LEMMA DeleteLoops ==
  ASSUME TreeKeys \in Nat
  PROVE  IsFixDelete(Tree!FixDeleteCollisions)
<1> DEFINE S == Tree!Trees \X Tree!Nodes
           Going == {p \in S : /\ ~DeleteDone(p[1], p[2])
                               /\ Tree!BlackNephews(Turned(p[1], p[2]), BrotherOf(p[1], p[2]))}
           Step == [p \in S |-> <<Reddened(p[1], p[2]), Turned(p[1], p[2]).parent[p[2]]>>]
           Base == [p \in S |-> IF DeleteDone(p[1], p[2]) THEN Tree!Paint(p[1], p[2], "BLACK")
                                ELSE Tree!TurnDelete(Turned(p[1], p[2]), p[2], DeleteSide(p[1], p[2]))]
<1>1. \A p \in S : Step[p] \in S
  <2> TAKE p \in S
  <2>1. p[1] \in Tree!Trees /\ p[2] \in Tree!Nodes
    OBVIOUS
  <2>2. Reddened(p[1], p[2]) \in Tree!Trees /\ Turned(p[1], p[2]).parent[p[2]] \in Tree!Nodes
    BY <2>1, DeleteTypes
  <2> QED
    BY <2>2
<1>2. PICK f : Tails(f, S, Going, Step, Base)
  <2> HIDE DEF S, Going, Step, Base
  <2> QED
    BY <1>1, TailsExist
<1>3. IsFixDelete(f)
  <2>1. f = [p \in S |-> IF p \in Going THEN f[Step[p]] ELSE Base[p]]
    BY <1>2 DEF Tails
  <2>2. \A p \in S : (IF p \in Going THEN f[Step[p]] ELSE Base[p]) =
         IF DeleteDone(p[1], p[2]) THEN Tree!Paint(p[1], p[2], "BLACK")
         ELSE IF Tree!BlackNephews(Turned(p[1], p[2]), BrotherOf(p[1], p[2]))
         THEN f[<<Reddened(p[1], p[2]), Turned(p[1], p[2]).parent[p[2]]>>]
         ELSE Tree!TurnDelete(Turned(p[1], p[2]), p[2], DeleteSide(p[1], p[2]))
    OBVIOUS
  <2> HIDE DEF Going, Step, Base
  <2> QED
    BY <2>1, <2>2 DEF IsFixDelete
<1>4. Tree!FixDeleteCollisions = CHOOSE g : IsFixDelete(g)
  BY DEF Tree!FixDeleteCollisions, IsFixDelete, DeleteDone, Turned, BrotherOf, Reddened, DeleteSide,
     Tree!LEAF
<1> QED
  BY <1>3, <1>4

LEMMA Around ==
  ASSUME TreeKeys \in Nat, NEW t, NEW D, NEW M, Shaped(t, D, M), NEW n \in M \cup {0}
  PROVE  /\ t.left[n] \in M \cup {0} /\ t.right[n] \in M \cup {0} /\ t.parent[n] \in M \cup {0}
         /\ n \in Tree!Nodes /\ t.root \in M \cup {0}
<1>1. CASE n = 0
  BY <1>1 DEF Shaped, Tree!Nodes
<1>2. CASE n \in M
  <2>1. Node(t, D, M, n) /\ t.root \in M \cup {0} /\ t.parent[t.root] = 0
    BY <1>2 DEF Shaped
  <2>2. n \in Tree!Nodes
    BY <1>2, Kin
  <2> QED
    BY <2>1, <2>2 DEF Node
<1> QED
  BY <1>1, <1>2

LEMMA KinOf ==
  ASSUME TreeKeys \in Nat, NEW t, NEW D, NEW M, Shaped(t, D, M), NEW n \in M \cup {0}
  PROVE  /\ \A side \in {"left", "right"} : /\ Tree!Near(t, n, side) \in M \cup {0}
                                            /\ Tree!Far(t, n, side) \in M \cup {0}
                                            /\ Tree!Brother(t, n, side) \in M \cup {0}
         /\ Tree!Uncle(t, n) \in M \cup {0} /\ Tree!Granpa(t, n) \in M \cup {0}
<1>1. \A x \in M \cup {0} : /\ t.left[x] \in M \cup {0} /\ t.right[x] \in M \cup {0}
                            /\ t.parent[x] \in M \cup {0}
  BY Around
<1> QED
  BY <1>1 DEF Tree!Near, Tree!Far, Tree!Brother, Tree!Uncle, Tree!Granpa

LEMMA TurnDeleteKeeps ==
  ASSUME TreeKeys \in Nat, NEW t, NEW D, NEW M, Shaped(t, D, M), NEW n \in M,
         NEW side \in {"left", "right"}
  PROVE  \E E : Shaped(Tree!TurnDelete(t, n, side), E, M)
<1> DEFINE b == Tree!Brother(t, n, side)
           bent == t.color[Tree!Far(t, b, side)] = "BLACK"
           v0 == Tree!Paint(Tree!Paint(t, Tree!Near(t, b, side), "BLACK"), b, "RED")
           v == IF bent THEN Tree!Away(v0, b, side) ELSE t
           brother == IF bent THEN Tree!Far(v, v.parent[b], side) ELSE b
           w1 == Tree!Paint(v, brother, v.color[v.parent[n]])
           w2 == Tree!Paint(w1, v.parent[n], "BLACK")
           w == Tree!Paint(w2, Tree!Far(v, brother, side), "BLACK")
           x == Tree!Towards(w, w.parent[n], side)
<1>0. Tree!TurnDelete(t, n, side) = Tree!Paint(x, x.root, "BLACK")
  BY DEF Tree!TurnDelete
<1>n. M \cup {0} \subseteq Tree!Nodes
  BY Around
<1>1. b \in M \cup {0} /\ b \in Tree!Nodes
  BY <1>n, KinOf
<1> HIDE DEF b, bent
<1>2. Tree!Near(t, b, side) \in Tree!Nodes
  BY <1>n, <1>1, KinOf
<1>3. Shaped(v0, D, M)
  <2>1. Shaped(Tree!Paint(t, Tree!Near(t, b, side), "BLACK"), D, M)
    BY <1>2, Painted
  <2> QED
    BY <1>1, <2>1, Painted
<1> HIDE DEF v0
<1>4. PICK E1 : Shaped(v, E1, M)
  <2>1. OtherSide(side) \in {"left", "right"} /\ Tree!Away(v0, b, side) = Tree!Towards(v0, b, OtherSide(side))
    BY AwayIsTowards
  <2>2. \E E : Shaped(Tree!Towards(v0, b, OtherSide(side)), E, M)
    BY <1>1, <1>3, <2>1, Turns DEF Relabels
  <2> QED
    BY <1>3, <2>1, <2>2
<1> HIDE DEF v
<1>5. brother \in M \cup {0} /\ brother \in Tree!Nodes
  <2>1. v.parent[b] \in M \cup {0}
    BY <1>1, <1>4, Around
  <2> QED
    BY <1>n, <1>1, <1>4, <2>1, KinOf
<1> HIDE DEF brother
<1>6. v.parent[n] \in M \cup {0} /\ v.parent[n] \in Tree!Nodes /\ v.color[v.parent[n]] \in {"BLACK", "RED"}
  <2>1. v.parent[n] \in M \cup {0} /\ v.parent[n] \in Tree!Nodes
    BY <1>n, <1>4, Around
  <2>2. v \in Tree!Trees
    BY <1>4 DEF Shaped
  <2> QED
    BY <2>1, <2>2, Fields
<1>7. Tree!Far(v, brother, side) \in Tree!Nodes
  BY <1>n, <1>4, <1>5, KinOf
<1>8. Shaped(w1, E1, M)
  BY <1>4, <1>5, <1>6, Painted
<1> HIDE DEF w1
<1>9. Shaped(w2, E1, M)
  BY <1>6, <1>8, Painted
<1> HIDE DEF w2
<1>10. Shaped(w, E1, M)
  BY <1>7, <1>9, Painted
<1> HIDE DEF w
<1>11. w.parent[n] \in M \cup {0}
  BY <1>10, Around
<1>12. PICK E2 : Shaped(x, E2, M)
  BY <1>10, <1>11, Turns DEF Relabels
<1> HIDE DEF x
<1>13. x.root \in Tree!Nodes
  BY <1>12 DEF Shaped, Tree!Trees
<1>14. Shaped(Tree!Paint(x, x.root, "BLACK"), E2, M)
  BY <1>12, <1>13, Painted
<1> QED
  BY <1>0, <1>14

\* The keys below a node stay below it when its brother goes up.
LEMMA TurnedKeeps ==
  ASSUME TreeKeys \in Nat, NEW t, NEW D, NEW M, Shaped(t, D, M), NEW n \in M, n # t.root
  PROVE  \E E : Shaped(Turned(t, n), E, M) /\ E[n] = D[n]
<1> DEFINE side == DeleteSide(t, n)
           b == Tree!Brother(t, n, side)
           p == t.parent[n]
           v1 == Tree!Paint(t, b, "BLACK")
           v == Tree!Paint(v1, p, "RED")
<1>1. /\ p \in M /\ p # n /\ p \in Tree!Nodes /\ side \in {"left", "right"}
      /\ b \in M \cup {0} /\ b \in Tree!Nodes
  <2>1. p \in M /\ p # n /\ p \in Tree!Nodes
    BY Kin
  <2>2. side \in {"left", "right"}
    BY DEF DeleteSide
  <2>3. b \in M \cup {0}
    BY <2>2, KinOf
  <2> QED
    BY <2>1, <2>2, <2>3, Around
<1>2. b # n
  <2>1. n \in {t.left[p], t.right[p]}
    BY DEF Shaped, Node
  <2>2. /\ t.left[p] # 0 => t.left[p] # t.right[p]
        /\ t.right[p] # 0 => t.left[p] # t.right[p]
    BY <1>1, Kin
  <2>3. n # 0
    BY Kin
  <2> QED
    BY <2>1, <2>2, <2>3 DEF DeleteSide, Tree!AmILeft, Tree!Brother
<1>3. Shaped(v1, D, M) /\ v1.right = t.right /\ v1.left = t.left
  BY <1>1, Painted
<1>6. Turned(t, n) = IF t.color[b] = "RED" THEN Tree!Towards(v, p, side) ELSE t
  BY DEF Turned, Tree!TurnBrother
<1> HIDE DEF v1, p, b, side
<1>4. Shaped(v, D, M) /\ v.right = t.right /\ v.left = t.left
  BY <1>1, <1>3, Painted
<1> HIDE DEF v
<1>5. Tree!Far(v, p, side) = b
  BY <1>4 DEF Tree!Far, Tree!Brother, p, b
<1>7. \E E : /\ Shaped(Tree!Towards(v, p, side), E, M)
             /\ \A x \in M : x \notin {p, b} => E[x] = D[x]
  <2>1. \E E : /\ Shaped(Tree!Towards(v, p, side), E, M)
               /\ \A x \in M : x \notin {p, Tree!Far(v, p, side)} => E[x] = D[x]
    <3>1. p \in M \cup {0} /\ side \in {"left", "right"} /\ Shaped(v, D, M)
      BY <1>1, <1>4
    <3>2. \E E : Relabels(v, D, Tree!Towards(v, p, side), E, M, {p, Tree!Far(v, p, side)})
      BY <3>1, Turns
    <3> QED
      BY <3>2 DEF Relabels
  <2> QED
    BY <1>5, <2>1
<1> QED
  BY <1>1, <1>2, <1>6, <1>7

LEMMA DeleteSteps ==
  ASSUME TreeKeys \in Nat, NEW t, NEW D, NEW M, Shaped(t, D, M), NEW n \in M,
         ~DeleteDone(t, n), Tree!BlackNephews(Turned(t, n), BrotherOf(t, n))
  PROVE  LET q == Turned(t, n).parent[n] IN
         /\ Tree!FixDeleteCollisions[<<t, n>>] = Tree!FixDeleteCollisions[<<Reddened(t, n), q>>]
         /\ q \in M \cup {0}
         /\ \E E : Shaped(Reddened(t, n), E, M)
                   /\ (q \in M => Cardinality(D[n]) < Cardinality(E[q]))
<1> DEFINE u == Turned(t, n)
           q == u.parent[n]
<1>1. n # t.root /\ t \in Tree!Trees /\ n \in Tree!Nodes
  <2>1. n # t.root /\ t \in Tree!Trees
    BY DEF Shaped, DeleteDone
  <2> QED
    BY <2>1, Kin
<1>2. Tree!FixDeleteCollisions[<<t, n>>] = Tree!FixDeleteCollisions[<<Reddened(t, n), q>>]
  <2> DEFINE f == Tree!FixDeleteCollisions
  <2>1. IsFixDelete(f)
    BY DeleteLoops
  <2>2. <<t, n>> \in Tree!Trees \X Tree!Nodes /\ <<t, n>>[1] = t /\ <<t, n>>[2] = n
    BY <1>1
  <2> HIDE DEF f
  <2>3. f[<<t, n>>] = f[<<Reddened(t, n), q>>]
    BY <2>1, <2>2 DEF IsFixDelete
  <2> QED
    BY <2>3 DEF f
<1>3. PICK E : Shaped(u, E, M) /\ E[n] = D[n]
  BY <1>1, TurnedKeeps
<1> HIDE DEF u
<1>4. q \in M \cup {0}
  BY <1>3, Around
<1>5. BrotherOf(t, n) \in Tree!Nodes
  BY <1>1, DeleteTypes
<1>6. Shaped(Reddened(t, n), E, M)
  BY <1>3, <1>5, Painted DEF Reddened, u
<1>7. ASSUME q \in M PROVE Cardinality(D[n]) < Cardinality(E[q])
  <2>1. n # u.root
    BY <1>3, <1>7, Kin
  <2>2. E[n] \subseteq E[q] /\ q \notin E[n]
    BY <1>3, <2>1, Kin
  <2>3. q \in E[q]
    BY <1>3, <1>7, Kin
  <2>4. E[q] \subseteq 1 .. TreeKeys
    <3>1. E[q] \subseteq M
      BY <1>3, <1>7, Kin
    <3>2. M \subseteq 1 .. TreeKeys
      BY DEF Shaped
    <3> QED
      BY <3>1, <3>2
  <2> HIDE DEF q
  <2> QED
    BY <1>3, <2>2, <2>3, <2>4, Sizes
<1> QED
  BY <1>2, <1>4, <1>6, <1>7 DEF u

\* pico_tree's repair after a deletion ends, and rotates and paints only.
LEMMA FixDeleteKeeps ==
  ASSUME TreeKeys \in Nat, NEW t, NEW D, NEW M, Shaped(t, D, M), NEW n \in M \cup {0}
  PROVE  \E E : Shaped(Tree!FixDeleteCollisions[<<t, n>>], E, M)
<1> DEFINE f == Tree!FixDeleteCollisions
           Holds(u, m) == \E E : Shaped(f[<<u, m>>], E, M)
           Bad == {k \in Nat : \E u, F : \E m \in M :
                     Shaped(u, F, M) /\ k = TreeKeys - Cardinality(F[m]) /\ ~Holds(u, m)}
<1>1. ASSUME NEW u, NEW F, Shaped(u, F, M), NEW m \in M \cup {0}, DeleteDone(u, m)
      PROVE  Holds(u, m)
  <2>1. u \in Tree!Trees /\ m \in Tree!Nodes
    BY <1>1, Around DEF Shaped
  <2>2. <<u, m>> \in Tree!Trees \X Tree!Nodes /\ <<u, m>>[1] = u /\ <<u, m>>[2] = m
    BY <2>1
  <2>3. f[<<u, m>>] = Tree!Paint(u, m, "BLACK")
    <3>1. IsFixDelete(f)
      BY DeleteLoops
    <3> HIDE DEF f
    <3> QED
      BY <1>1, <2>2, <3>1 DEF IsFixDelete
  <2>4. Shaped(Tree!Paint(u, m, "BLACK"), F, M)
    BY <1>1, <2>1, Painted
  <2> QED
    BY <2>3, <2>4
<1>2. ASSUME NEW u, NEW F, Shaped(u, F, M), NEW m \in M, ~DeleteDone(u, m),
             ~Tree!BlackNephews(Turned(u, m), BrotherOf(u, m))
      PROVE  Holds(u, m)
  <2>1. u \in Tree!Trees /\ m \in Tree!Nodes /\ m # u.root
    <3>1. u \in Tree!Trees /\ m # u.root
      BY <1>2 DEF Shaped, DeleteDone
    <3> QED
      BY <1>2, <3>1, Kin
  <2>2. <<u, m>> \in Tree!Trees \X Tree!Nodes /\ <<u, m>>[1] = u /\ <<u, m>>[2] = m
    BY <2>1
  <2>3. f[<<u, m>>] = Tree!TurnDelete(Turned(u, m), m, DeleteSide(u, m))
    <3>1. IsFixDelete(f)
      BY DeleteLoops
    <3> HIDE DEF f
    <3> QED
      BY <1>2, <2>2, <3>1 DEF IsFixDelete
  <2>4. DeleteSide(u, m) \in {"left", "right"}
    BY DEF DeleteSide
  <2>5. PICK E : Shaped(Turned(u, m), E, M)
    BY <1>2, <2>1, TurnedKeeps
  <2>6. \E G : Shaped(Tree!TurnDelete(Turned(u, m), m, DeleteSide(u, m)), G, M)
    BY <2>4, <2>5, TurnDeleteKeeps
  <2> QED
    BY <2>3, <2>6
<1>3. Bad = {}
  <2> SUFFICES ASSUME Bad # {} PROVE FALSE
    OBVIOUS
  <2>1. PICK k \in Bad : \A j \in Bad : ~(j < k)
    <3>1. Bad \in SUBSET Nat
      OBVIOUS
    <3> HIDE DEF Bad
    <3> QED
      BY <3>1, LeastOne
  <2> HIDE DEF Holds
  <2>2. PICK u, F : \E m \in M :
          Shaped(u, F, M) /\ k = TreeKeys - Cardinality(F[m]) /\ ~Holds(u, m)
    BY <2>1
  <2>m. PICK m \in M : Shaped(u, F, M) /\ k = TreeKeys - Cardinality(F[m]) /\ ~Holds(u, m)
    BY <2>2
  <2>3. ~DeleteDone(u, m) /\ Tree!BlackNephews(Turned(u, m), BrotherOf(u, m))
    BY <1>1, <1>2, <2>m
  <2> DEFINE q == Turned(u, m).parent[m]
             w == Reddened(u, m)
  <2>4. PICK E : Shaped(w, E, M) /\ (q \in M => Cardinality(F[m]) < Cardinality(E[q]))
    BY <2>m, <2>3, DeleteSteps
  <2>5. q \in M \cup {0} /\ f[<<u, m>>] = f[<<w, q>>]
    BY <2>m, <2>3, DeleteSteps
  <2> HIDE DEF q, w, f
  <2>6. ~Holds(w, q)
    BY <2>m, <2>5 DEF Holds
  <2>7. q \in M
    <3>1. q = 0 => DeleteDone(w, q)
      BY DEF DeleteDone
    <3> QED
      BY <1>1, <2>4, <2>5, <2>6, <3>1
  <2>8. Cardinality(E[q]) \in 0 .. TreeKeys /\ Cardinality(F[m]) \in 0 .. TreeKeys
    <3>1. E[q] \subseteq M /\ F[m] \subseteq M
      BY <2>m, <2>4, <2>7, Kin
    <3>2. M \subseteq 1 .. TreeKeys
      BY DEF Shaped
    <3> QED
      BY <3>1, <3>2, Sizes
  <2>9. TreeKeys - Cardinality(E[q]) \in Nat /\ TreeKeys - Cardinality(E[q]) < k
    BY <2>m, <2>4, <2>7, <2>8
  <2>10. TreeKeys - Cardinality(E[q]) \in Bad
    BY <2>4, <2>6, <2>7, <2>9
  <2> QED
    BY <2>1, <2>9, <2>10
<1>4. CASE n = 0
  <2>1. DeleteDone(t, n)
    BY <1>4 DEF DeleteDone
  <2> QED
    BY <1>1, <2>1
<1>5. CASE n \in M
  <2>1. Cardinality(D[n]) \in 0 .. TreeKeys
    <3>1. D[n] \subseteq M
      BY <1>5, Kin
    <3>2. M \subseteq 1 .. TreeKeys
      BY DEF Shaped
    <3> QED
      BY <3>1, <3>2, Sizes
  <2>2. TreeKeys - Cardinality(D[n]) \in Nat
    BY <2>1
  <2> HIDE DEF Holds
  <2>3. Holds(t, n)
    BY <1>3, <1>5, <2>2
  <2> QED
    BY <2>3 DEF Holds
<1> QED
  BY <1>4, <1>5

\* A rotation, by the side that n goes to.
TurnedAside(t, n, side, u) ==
  LET m == Tree!Far(t, n, side)
      c == Tree!Near(t, m, side)
      p == t.parent[n]
  IN /\ u.color = t.color
     /\ \A x \in Tree!Nodes :
          /\ Tree!Near(u, x, side) = IF x = m THEN n
                                     ELSE IF p # 0 /\ x = p /\ n = Tree!Near(t, p, side) THEN m
                                     ELSE Tree!Near(t, x, side)
          /\ u.parent[x] = IF x = n THEN m ELSE IF x = m THEN p
                           ELSE IF x = c /\ c # 0 THEN n ELSE t.parent[x]

LEMMA TurnsAside ==
  ASSUME TreeKeys \in Nat, NEW t, NEW D, NEW M, Shaped(t, D, M), NEW n \in M,
         NEW side \in {"left", "right"}, Tree!Far(t, n, side) # 0
  PROVE  TurnedAside(t, n, side, Tree!Towards(t, n, side))
<1>1. CASE side = "left"
  <2>1. t.right[n] # 0 /\ Tree!Towards(t, n, side) = Tree!RotateToLeft(t, n)
    BY <1>1 DEF Tree!Far, Tree!Towards
  <2>2. TurnedLeft(t, n, Tree!RotateToLeft(t, n))
    BY <2>1, TurnsLeft
  <2> QED
    BY <1>1, <2>1, <2>2 DEF TurnedLeft, TurnedAside, Tree!Near, Tree!Far
<1>2. CASE side = "right"
  <2>1. t.left[n] # 0 /\ Tree!Towards(t, n, side) = Tree!RotateToRight(t, n)
    BY <1>2 DEF Tree!Far, Tree!Towards
  <2>2. TurnedRight(t, n, Tree!RotateToRight(t, n))
    BY <2>1, TurnsRight
  <2> QED
    BY <1>2, <2>1, <2>2 DEF TurnedRight, TurnedAside, Tree!Near, Tree!Far
<1> QED
  BY <1>1, <1>2

\* Two nodes in line under g: a rotation at g leaves the lower one where it is.
LEMMA LineStays ==
  ASSUME TreeKeys \in Nat, NEW t, NEW D, NEW M, Shaped(t, D, M), NEW g \in M, NEW m \in M,
         NEW side \in {"left", "right"}, m # t.root, t.parent[m] # t.root, t.parent[t.parent[m]] = g,
         Tree!Far(t, g, side) = t.parent[m], Tree!Far(t, t.parent[m], side) = m
  PROVE  Tree!Towards(t, g, side).parent[m] = t.parent[m]
<1> DEFINE p == t.parent[m]
           c == Tree!Near(t, p, side)
           u == Tree!Towards(t, g, side)
<1>1. p \in M /\ p # 0 /\ p # m /\ m \in Tree!Nodes /\ m # 0
  BY Kin
<1>2. g # m
  <2>1. g \notin D[p] /\ D[m] \subseteq D[p] /\ m \in D[m]
    BY <1>1, Kin
  <2> QED
    BY <2>1
<1>3. c # m
  <2>1. /\ t.left[p] # 0 => t.left[p] # t.right[p]
        /\ t.right[p] # 0 => t.left[p] # t.right[p]
    BY <1>1, Kin
  <2> QED
    BY <1>1, <2>1 DEF Tree!Near, Tree!Far
<1>4. TurnedAside(t, g, side, u)
  BY <1>1, TurnsAside
<1> HIDE DEF p, u
<1>5. Tree!Far(t, g, side) = p
  BY DEF p
<1> HIDE DEF c
<1>6. u.parent[m] = t.parent[m]
  BY <1>1, <1>2, <1>3, <1>4, <1>5 DEF TurnedAside, c
<1> QED
  BY <1>6 DEF p, u

InsertDone(t, n) == t.color[t.parent[n]] # "RED" \/ Tree!Granpa(t, n) = 0
InsertNext(t, n) == IF t.color[Tree!Uncle(t, n)] = "RED" THEN <<Tree!Recolour(t, n), Tree!Granpa(t, n)>>
                    ELSE Tree!TurnInsert(t, n)
IsFixInsert(f) ==
  f = [p \in Tree!Trees \X Tree!Nodes |->
         IF InsertDone(p[1], p[2]) THEN Tree!Paint(p[1], p[1].root, "BLACK")
         ELSE f[InsertNext(p[1], p[2])]]

InsertSide(t, n) == IF Tree!AmIRight(t, t.parent[n]) THEN "left" ELSE "right"
InsertInner(t, n) == n = Tree!Near(t, t.parent[n], InsertSide(t, n))
InsertNode(t, n) == IF InsertInner(t, n) THEN t.parent[n] ELSE n
InsertFirst(t, n) == IF InsertInner(t, n) THEN Tree!Away(t, t.parent[n], InsertSide(t, n)) ELSE t
InsertPainted(t, n) ==
  LET u == InsertFirst(t, n)
      m == InsertNode(t, n)
  IN Tree!Paint(Tree!Paint(u, u.parent[m], "BLACK"), Tree!Granpa(u, m), "RED")
LEMMA TurnInsertIs ==
  ASSUME NEW t, NEW n
  PROVE  Tree!TurnInsert(t, n) =
           <<Tree!Towards(InsertPainted(t, n), Tree!Granpa(InsertPainted(t, n), InsertNode(t, n)),
                          InsertSide(t, n)), InsertNode(t, n)>>
BY DEF Tree!TurnInsert, InsertSide, InsertInner, InsertNode, InsertFirst, InsertPainted

LEMMA InsertTypes ==
  ASSUME TreeKeys \in Nat, NEW t \in Tree!Trees, NEW n \in Tree!Nodes
  PROVE  InsertNext(t, n) \in Tree!Trees \X Tree!Nodes
<1> DEFINE m == InsertNode(t, n)
           u == InsertFirst(t, n)
           v == InsertPainted(t, n)
<1>0. \A w \in Tree!Trees, x \in Tree!Nodes : /\ w.parent[x] \in Tree!Nodes /\ Tree!Granpa(w, x) \in Tree!Nodes
                                              /\ Tree!Uncle(w, x) \in Tree!Nodes
  BY Fields DEF Tree!Granpa, Tree!Uncle
<1>1. Tree!Recolour(t, n) \in Tree!Trees /\ Tree!Granpa(t, n) \in Tree!Nodes
  <2>1. Tree!Paint(t, t.parent[n], "BLACK") \in Tree!Trees
    BY <1>0, PaintTypes
  <2>2. Tree!Paint(Tree!Paint(t, t.parent[n], "BLACK"), Tree!Uncle(t, n), "BLACK") \in Tree!Trees
    BY <1>0, <2>1, PaintTypes
  <2> QED
    BY <1>0, <2>2, PaintTypes DEF Tree!Recolour
<1>2. m \in Tree!Nodes
  BY <1>0 DEF InsertNode
<1>3. u \in Tree!Trees
  <2>1. Tree!Away(t, t.parent[n], InsertSide(t, n)) \in Tree!Trees
    BY <1>0, TurnTypes DEF Tree!Away
  <2> QED
    BY <2>1 DEF InsertFirst
<1>4. v \in Tree!Trees
  <2>1. Tree!Paint(u, u.parent[m], "BLACK") \in Tree!Trees
    BY <1>0, <1>2, <1>3, PaintTypes
  <2>2. v = Tree!Paint(Tree!Paint(u, u.parent[m], "BLACK"), Tree!Granpa(u, m), "RED")
    BY DEF InsertPainted
  <2> HIDE DEF u, v, m
  <2> QED
    BY <1>0, <1>2, <1>3, <2>1, <2>2, PaintTypes
<1> HIDE DEF u, v, m
<1>5. Tree!Towards(v, Tree!Granpa(v, m), InsertSide(t, n)) \in Tree!Trees
  BY <1>0, <1>2, <1>4, TurnTypes DEF Tree!Towards
<1>6. Tree!TurnInsert(t, n) = <<Tree!Towards(v, Tree!Granpa(v, m), InsertSide(t, n)), m>>
  BY TurnInsertIs DEF v, m
<1> QED
  BY <1>1, <1>2, <1>5, <1>6 DEF InsertNext

LEMMA InsertLoops ==
  ASSUME TreeKeys \in Nat
  PROVE  IsFixInsert(Tree!FixInsertCollisions)
<1> DEFINE S == Tree!Trees \X Tree!Nodes
           Going == {p \in S : ~InsertDone(p[1], p[2])}
           Step == [p \in S |-> InsertNext(p[1], p[2])]
           Base == [p \in S |-> Tree!Paint(p[1], p[1].root, "BLACK")]
<1>1. \A p \in S : Step[p] \in S
  <2> TAKE p \in S
  <2>1. p[1] \in Tree!Trees /\ p[2] \in Tree!Nodes
    OBVIOUS
  <2>2. InsertNext(p[1], p[2]) \in S
    BY <2>1, InsertTypes
  <2> HIDE DEF S
  <2> QED
    BY <2>2
<1>2. PICK f : Tails(f, S, Going, Step, Base)
  <2> HIDE DEF S, Going, Step, Base
  <2> QED
    BY <1>1, TailsExist
<1>3. IsFixInsert(f)
  <2>1. f = [p \in S |-> IF p \in Going THEN f[Step[p]] ELSE Base[p]]
    BY <1>2 DEF Tails
  <2>2. \A p \in S : (IF p \in Going THEN f[Step[p]] ELSE Base[p]) =
         IF InsertDone(p[1], p[2]) THEN Tree!Paint(p[1], p[1].root, "BLACK")
         ELSE f[InsertNext(p[1], p[2])]
    OBVIOUS
  <2> HIDE DEF Going, Step, Base
  <2> QED
    BY <2>1, <2>2 DEF IsFixInsert
<1>4. Tree!FixInsertCollisions = CHOOSE g : IsFixInsert(g)
  BY DEF Tree!FixInsertCollisions, IsFixInsert, InsertDone, InsertNext, Tree!LEAF
<1> QED
  BY <1>3, <1>4

\* The parent of an inserted node and the node's place under it.
LEMMA InsertKin ==
  ASSUME TreeKeys \in Nat, NEW t, NEW D, NEW M, Shaped(t, D, M), NEW n \in M, ~InsertDone(t, n)
  PROVE  LET p == t.parent[n]
             g == Tree!Granpa(t, n)
             side == InsertSide(t, n)
         IN /\ n # t.root /\ p \in M /\ p # t.root /\ g \in M /\ g = t.parent[p]
            /\ n # 0 /\ p # 0 /\ g # 0 /\ n # p /\ n # g /\ p # g
            /\ side \in {"left", "right"} /\ Tree!Far(t, g, side) = p
            /\ ~InsertInner(t, n) => Tree!Far(t, p, side) = n
            /\ InsertInner(t, n) => Tree!Near(t, p, side) = n
            /\ D[n] \subseteq D[p] /\ D[p] \subseteq D[g] /\ g \notin D[p] /\ g \in D[g]
<1> DEFINE p == t.parent[n]
           g == Tree!Granpa(t, n)
           side == InsertSide(t, n)
<1>1. g # 0 /\ g = t.parent[p] /\ p \in M \cup {0} /\ g \in M \cup {0} /\ t.parent[0] = 0
      /\ side \in {"left", "right"}
  <2>1. t.parent[0] = 0
    BY DEF Shaped
  <2>2. p \in M \cup {0} /\ g \in M \cup {0}
    BY Around, KinOf
  <2> QED
    BY <2>1, <2>2 DEF InsertDone, Tree!Granpa, InsertSide
<1>2. p \in M /\ g \in M /\ p # 0 /\ n # t.root /\ p # t.root
  BY <1>1, Kin
<1>3. /\ n # 0 /\ n # p /\ p # g /\ D[n] \subseteq D[p] /\ D[p] \subseteq D[g] /\ g \notin D[p]
      /\ g \in D[g] /\ n \in D[n]
  BY <1>2, <1>1, Kin
<1>4. n # g
  BY <1>3
<1>5. n \in {t.left[p], t.right[p]} /\ p \in {t.left[g], t.right[g]}
  BY <1>1, <1>2 DEF Shaped, Node
<1>6. Tree!Far(t, g, side) = p
  BY <1>1, <1>5 DEF InsertSide, Tree!AmIRight, Tree!Far
<1>7. /\ InsertInner(t, n) => Tree!Near(t, p, side) = n
      /\ ~InsertInner(t, n) => Tree!Far(t, p, side) = n
  BY <1>1, <1>5 DEF InsertInner, Tree!Near, Tree!Far
<1> QED
  BY <1>1, <1>2, <1>3, <1>4, <1>6, <1>7

\* Before the rotation at the grandparent: a black parent and a red grandparent in line.
Lined(v, E, M, m, g, side) ==
  /\ Shaped(v, E, M) /\ m \in M /\ g \in M /\ v.parent[m] \in M
  /\ m # v.root /\ v.parent[m] # v.root /\ v.parent[v.parent[m]] = g
  /\ Tree!Far(v, g, side) = v.parent[m] /\ Tree!Far(v, v.parent[m], side) = m
  /\ v.color[v.parent[m]] = "BLACK"

LEMMA LinesPainted ==
  ASSUME TreeKeys \in Nat, NEW u, NEW D, NEW M, Shaped(u, D, M), NEW m \in M, NEW side \in {"left", "right"},
         u.parent[m] \in M, NEW g \in M, u.parent[u.parent[m]] = g,
         Tree!Far(u, g, side) = u.parent[m], Tree!Far(u, u.parent[m], side) = m
  PROVE  Lined(Tree!Paint(Tree!Paint(u, u.parent[m], "BLACK"), g, "RED"), D, M, m, g, side)
<1> DEFINE p == u.parent[m]
           v1 == Tree!Paint(u, p, "BLACK")
           v == Tree!Paint(v1, g, "RED")
<1>1. p \in M /\ p \in Tree!Nodes /\ g \in Tree!Nodes /\ m # u.root /\ p # u.root /\ p # g /\ p # 0 /\ g # 0
  BY Kin
<1> HIDE DEF p
<1>2. /\ Shaped(v1, D, M) /\ v1.root = u.root /\ v1.parent = u.parent /\ v1.left = u.left
      /\ v1.right = u.right /\ v1.color[p] = "BLACK"
  BY <1>1, Painted
<1> HIDE DEF v1
<1>7. /\ Shaped(v, D, M) /\ v.root = v1.root /\ v.parent = v1.parent /\ v.left = v1.left
      /\ v.right = v1.right
      /\ \A x \in Tree!Nodes : v.color[x] = IF x = g THEN "RED" ELSE v1.color[x]
  BY <1>1, <1>2, Painted
<1> HIDE DEF v
<1>3. /\ Shaped(v, D, M) /\ v.root = u.root /\ v.parent = u.parent /\ v.left = u.left
      /\ v.right = u.right /\ v.color[p] = "BLACK"
  BY <1>1, <1>2, <1>7
<1>4. Tree!Far(v, g, side) = p /\ Tree!Far(v, p, side) = m
  BY <1>3 DEF Tree!Far, p
<1>5. v.parent[m] = p /\ v.parent[p] = g
  BY <1>3 DEF p
<1>6. Lined(v, D, M, m, g, side)
  BY <1>1, <1>3, <1>4, <1>5 DEF Lined
<1> QED
  BY <1>6 DEF v, v1, p

LEMMA InsertLined ==
  ASSUME TreeKeys \in Nat, NEW t, NEW D, NEW M, Shaped(t, D, M), NEW n \in M, ~InsertDone(t, n)
  PROVE  \E E : Lined(InsertPainted(t, n), E, M, InsertNode(t, n), Tree!Granpa(t, n), InsertSide(t, n))
<1> DEFINE p == t.parent[n]
           g == Tree!Granpa(t, n)
           side == InsertSide(t, n)
           o == OtherSide(side)
           u == Tree!Towards(t, p, o)
<1>1. /\ n # t.root /\ p \in M /\ p # t.root /\ g \in M /\ g = t.parent[p]
      /\ n # 0 /\ p # 0 /\ g # 0 /\ n # p /\ n # g /\ p # g
      /\ side \in {"left", "right"} /\ Tree!Far(t, g, side) = p
      /\ ~InsertInner(t, n) => Tree!Far(t, p, side) = n
      /\ InsertInner(t, n) => Tree!Near(t, p, side) = n
  BY InsertKin
<1>2. CASE ~InsertInner(t, n)
  <2>1. InsertNode(t, n) = n /\ InsertPainted(t, n) = Tree!Paint(Tree!Paint(t, p, "BLACK"), g, "RED")
    BY <1>2 DEF InsertNode, InsertPainted, InsertFirst
  <2>2. Lined(Tree!Paint(Tree!Paint(t, p, "BLACK"), g, "RED"), D, M, n, g, side)
    <3> HIDE DEF g, side
    <3> QED
      BY <1>1, <1>2, LinesPainted
  <2> QED
    BY <2>1, <2>2
<1>3. CASE InsertInner(t, n)
  <2>1. /\ o \in {"left", "right"} /\ Tree!Away(t, p, side) = u /\ Tree!Far(t, p, o) = n
        /\ Tree!Near(t, g, o) = p
        /\ \A w, x : Tree!Near(w, x, o) = Tree!Far(w, x, side)
    BY <1>1, <1>3, AwayIsTowards
  <2>2. TurnedAside(t, p, o, u)
    BY <1>1, <2>1, TurnsAside
  <2>3. PICK E : Shaped(u, E, M)
    <3>1. \E E : Relabels(t, D, u, E, M, {p, Tree!Far(t, p, o)})
      BY <1>1, <2>1, Turns
    <3> QED
      BY <3>1 DEF Relabels
  <2>4. p \in Tree!Nodes /\ n \in Tree!Nodes /\ g \in Tree!Nodes
    BY <1>1, Kin
  <2> HIDE DEF u, o, p, g, side
  <2>5. u.parent[p] = n /\ u.parent[n] = g /\ Tree!Near(u, n, o) = p /\ Tree!Near(u, g, o) = n
    BY <1>1, <2>1, <2>2, <2>4 DEF TurnedAside
  <2>6. Tree!Far(u, n, side) = p /\ Tree!Far(u, g, side) = n
    BY <2>1, <2>5
  <2>7. Lined(Tree!Paint(Tree!Paint(u, n, "BLACK"), g, "RED"), E, M, p, g, side)
    BY <1>1, <2>3, <2>5, <2>6, LinesPainted
  <2>8. InsertNode(t, n) = p /\ InsertFirst(t, n) = u
    BY <1>3, <2>1 DEF InsertNode, InsertFirst, p, side
  <2>9. InsertPainted(t, n) = Tree!Paint(Tree!Paint(u, n, "BLACK"), g, "RED")
    BY <2>5, <2>8 DEF InsertPainted, Tree!Granpa
  <2> QED
    BY <2>7, <2>8, <2>9 DEF g, side
<1> QED
  BY <1>2, <1>3

LEMMA TurnInsertEnds ==
  ASSUME TreeKeys \in Nat, NEW t, NEW D, NEW M, Shaped(t, D, M), NEW n \in M, ~InsertDone(t, n)
  PROVE  LET q == Tree!TurnInsert(t, n) IN
         /\ q = <<q[1], q[2]>> /\ q[2] \in M /\ InsertDone(q[1], q[2])
         /\ \E E : Shaped(q[1], E, M)
<1> DEFINE v == InsertPainted(t, n)
           m == InsertNode(t, n)
           g == Tree!Granpa(t, n)
           side == InsertSide(t, n)
           u == Tree!Towards(v, g, side)
<1>1. PICK E : Lined(v, E, M, m, g, side)
  BY InsertLined
<1>2. side \in {"left", "right"}
  BY DEF InsertSide
<1>3. Tree!Granpa(v, m) = g
  BY <1>1 DEF Lined, Tree!Granpa
<1>4. Tree!TurnInsert(t, n) = <<u, m>>
  BY <1>3, TurnInsertIs
<1> HIDE DEF u, v, m, g, side
<1>5. u.parent[m] = v.parent[m]
  <2>1. /\ Shaped(v, E, M) /\ m \in M /\ g \in M 
        /\ m # v.root /\ v.parent[m] # v.root /\ v.parent[v.parent[m]] = g
        /\ Tree!Far(v, g, side) = v.parent[m] /\ Tree!Far(v, v.parent[m], side) = m
    BY <1>1 DEF Lined
  <2> QED
    BY <1>2, <2>1, LineStays DEF u
<1>6. PICK F : Shaped(u, F, M) /\ u.color = v.color
  <2>1. Shaped(v, E, M) /\ g \in M
    BY <1>1 DEF Lined
  <2>2. \E F : Relabels(v, E, u, F, M, {g, Tree!Far(v, g, side)})
    BY <1>2, <2>1, Turns DEF u
  <2> QED
    BY <2>2 DEF Relabels
<1>7. m \in M /\ u.color[u.parent[m]] = "BLACK"
  BY <1>1, <1>5, <1>6 DEF Lined
<1>8. InsertDone(u, m)
  BY <1>7 DEF InsertDone
<1> QED
  BY <1>4, <1>6, <1>7, <1>8

\* A red uncle: the colours of three nodes change.
LEMMA RecolourKeeps ==
  ASSUME TreeKeys \in Nat, NEW t, NEW D, NEW M, Shaped(t, D, M), NEW n \in M
  PROVE  Shaped(Tree!Recolour(t, n), D, M)
<1> DEFINE p == t.parent[n]
           v1 == Tree!Paint(t, p, "BLACK")
           v2 == Tree!Paint(v1, Tree!Uncle(t, n), "BLACK")
<1>1. p \in Tree!Nodes /\ Tree!Uncle(t, n) \in Tree!Nodes /\ Tree!Granpa(t, n) \in Tree!Nodes
  <2>1. M \cup {0} \subseteq Tree!Nodes
    BY Around
  <2>2. t.parent[n] \in M \cup {0}
    BY Around
  <2> QED
    BY <2>1, <2>2, KinOf
<1>2. Tree!Recolour(t, n) = Tree!Paint(v2, Tree!Granpa(t, n), "RED")
  BY DEF Tree!Recolour
<1> HIDE DEF p
<1>3. Shaped(v1, D, M)
  BY <1>1, Painted
<1> HIDE DEF v1
<1>4. Shaped(v2, D, M)
  BY <1>1, <1>3, Painted
<1> HIDE DEF v2
<1> QED
  BY <1>1, <1>2, <1>4, Painted

\* pico_tree's repair after an insertion ends, and rotates and paints only.
LEMMA FixInsertKeeps ==
  ASSUME TreeKeys \in Nat, NEW t, NEW D, NEW M, Shaped(t, D, M), NEW n \in M
  PROVE  \E E : Shaped(Tree!FixInsertCollisions[<<t, n>>], E, M)
<1> DEFINE f == Tree!FixInsertCollisions
           Holds(u, m) == \E E : Shaped(f[<<u, m>>], E, M)
           Bad == {k \in Nat : \E u, F : \E m \in M :
                     Shaped(u, F, M) /\ k = TreeKeys - Cardinality(F[m]) /\ ~Holds(u, m)}
<1>0. ASSUME NEW u, NEW F, Shaped(u, F, M), NEW m \in M
      PROVE  f[<<u, m>>] = IF InsertDone(u, m) THEN Tree!Paint(u, u.root, "BLACK")
                           ELSE f[InsertNext(u, m)]
  <2>1. u \in Tree!Trees
    BY <1>0 DEF Shaped
  <2>2. m \in Tree!Nodes
    BY <1>0, Around
  <2>3. <<u, m>> \in Tree!Trees \X Tree!Nodes /\ <<u, m>>[1] = u /\ <<u, m>>[2] = m
    BY <2>1, <2>2
  <2>4. IsFixInsert(f)
    BY InsertLoops
  <2> HIDE DEF f
  <2> QED
    BY <2>3, <2>4 DEF IsFixInsert
<1> HIDE DEF f
<1>1. ASSUME NEW u, NEW F, Shaped(u, F, M), NEW m \in M, InsertDone(u, m)
      PROVE  Holds(u, m)
  <2>1. f[<<u, m>>] = Tree!Paint(u, u.root, "BLACK")
    BY <1>0, <1>1
  <2>2. u.root \in Tree!Nodes
    BY <1>1 DEF Shaped, Tree!Trees
  <2>3. Shaped(Tree!Paint(u, u.root, "BLACK"), F, M)
    BY <1>1, <2>2, Painted
  <2> QED
    BY <2>1, <2>3
<1>2. ASSUME NEW u, NEW F, Shaped(u, F, M), NEW m \in M, ~InsertDone(u, m),
             u.color[Tree!Uncle(u, m)] # "RED"
      PROVE  Holds(u, m)
  <2> DEFINE q == Tree!TurnInsert(u, m)
  <2>1. f[<<u, m>>] = f[q]
    BY <1>0, <1>2 DEF InsertNext
  <2>2. q = <<q[1], q[2]>> /\ q[2] \in M /\ InsertDone(q[1], q[2])
    BY <1>2, TurnInsertEnds
  <2>3. PICK E : Shaped(q[1], E, M)
    BY <1>2, TurnInsertEnds
  <2> HIDE DEF q, Holds
  <2>4. Holds(q[1], q[2])
    BY <1>1, <2>2, <2>3
  <2> QED
    BY <2>1, <2>2, <2>4 DEF Holds
<1>3. Bad = {}
  <2> SUFFICES ASSUME Bad # {} PROVE FALSE
    OBVIOUS
  <2>1. PICK k \in Bad : \A j \in Bad : ~(j < k)
    <3>1. Bad \in SUBSET Nat
      OBVIOUS
    <3> HIDE DEF Bad
    <3> QED
      BY <3>1, LeastOne
  <2> HIDE DEF Holds
  <2>2. PICK u, F : \E m \in M :
          Shaped(u, F, M) /\ k = TreeKeys - Cardinality(F[m]) /\ ~Holds(u, m)
    BY <2>1
  <2>3. PICK m \in M : Shaped(u, F, M) /\ k = TreeKeys - Cardinality(F[m]) /\ ~Holds(u, m)
    BY <2>2
  <2>4. ~InsertDone(u, m) /\ u.color[Tree!Uncle(u, m)] = "RED"
    BY <1>1, <1>2, <2>3
  <2> DEFINE g == Tree!Granpa(u, m)
             w == Tree!Recolour(u, m)
  <2>5. f[<<u, m>>] = f[<<w, g>>]
    BY <1>0, <2>3, <2>4 DEF InsertNext
  <2>6. Shaped(w, F, M)
    BY <2>3, RecolourKeeps
  <2>7. g \in M /\ F[m] \subseteq F[g] /\ F[m] # F[g]
    BY <2>3, <2>4, InsertKin
  <2> HIDE DEF g, w
  <2>8. ~Holds(w, g)
    BY <2>3, <2>5 DEF Holds
  <2>9. F[g] \subseteq 1 .. TreeKeys
    <3>1. F[g] \subseteq M
      BY <2>6, <2>7, Kin
    <3>2. M \subseteq 1 .. TreeKeys
      BY DEF Shaped
    <3> QED
      BY <3>1, <3>2
  <2>10. Cardinality(F[g]) \in 0 .. TreeKeys /\ Cardinality(F[m]) \in 0 .. TreeKeys
         /\ Cardinality(F[m]) < Cardinality(F[g])
    BY <2>7, <2>9, Sizes
  <2>11. TreeKeys - Cardinality(F[g]) \in Nat /\ TreeKeys - Cardinality(F[g]) < k
    BY <2>3, <2>10
  <2>12. TreeKeys - Cardinality(F[g]) \in Bad
    BY <2>6, <2>7, <2>8, <2>11
  <2> QED
    BY <2>1, <2>11, <2>12
<1>4. TreeKeys - Cardinality(D[n]) \in Nat
  <2>1. D[n] \subseteq 1 .. TreeKeys
    <3>1. D[n] \subseteq M
      BY Kin
    <3>2. M \subseteq 1 .. TreeKeys
      BY DEF Shaped
    <3> QED
      BY <3>1, <3>2
  <2>2. Cardinality(D[n]) \in 0 .. TreeKeys
    BY <2>1, Sizes
  <2> QED
    BY <2>2
<1> HIDE DEF Holds
<1>5. Holds(t, n)
  BY <1>3, <1>4
<1> QED
  BY <1>5 DEF Holds, f

\* Down and up a tree.
LEMMA Downwards ==
  ASSUME TreeKeys \in Nat, NEW t, NEW D, NEW M, Shaped(t, D, M), NEW G \in SUBSET M,
         \A n \in M : /\ t.left[n] # 0 => t.left[n] \in G
                      /\ t.right[n] # 0 => t.right[n] \in G
                      => n \in G
  PROVE  G = M
<1> DEFINE Bad == {k \in Nat : \E n \in M : k = Cardinality(D[n]) /\ n \notin G}
<1>1. \A n \in M : D[n] \subseteq 1 .. TreeKeys /\ Cardinality(D[n]) \in Nat
  <2> TAKE n \in M
  <2>1. D[n] \subseteq M
    BY Kin
  <2>2. M \subseteq 1 .. TreeKeys
    BY DEF Shaped
  <2>3. D[n] \subseteq 1 .. TreeKeys
    BY <2>1, <2>2
  <2> QED
    BY <2>3, Sizes
<1>2. Bad = {}
  <2> SUFFICES ASSUME Bad # {} PROVE FALSE
    OBVIOUS
  <2>1. PICK k \in Bad : \A j \in Bad : ~(j < k)
    <3>1. Bad \in SUBSET Nat
      OBVIOUS
    <3> HIDE DEF Bad
    <3> QED
      BY <3>1, LeastOne
  <2>2. PICK n \in M : k = Cardinality(D[n]) /\ n \notin G
    BY <2>1
  <2>3. PICK m \in M : m \in {t.left[n], t.right[n]} /\ m \notin G
    <3>1. \/ t.left[n] # 0 /\ t.left[n] \notin G
          \/ t.right[n] # 0 /\ t.right[n] \notin G
      BY <2>2
    <3>2. t.left[n] \in M \cup {0} /\ t.right[n] \in M \cup {0}
      BY Around
    <3> QED
      BY <3>1, <3>2
  <2>4. D[m] \subseteq D[n] /\ n \notin D[m] /\ n \in D[n]
    BY <2>3, Kin
  <2>5. Cardinality(D[m]) < Cardinality(D[n])
    BY <1>1, <2>4, Sizes
  <2> QED
    BY <1>1, <2>1, <2>2, <2>3, <2>5
<1> QED
  BY <1>1, <1>2

LEMMA Upwards ==
  ASSUME TreeKeys \in Nat, NEW t, NEW D, NEW M, Shaped(t, D, M), NEW G \in SUBSET M,
         \A n \in M : (n # t.root => t.parent[n] \in G) => n \in G
  PROVE  G = M
<1> DEFINE Bad == {k \in Nat : \E n \in M : k = TreeKeys - Cardinality(D[n]) /\ n \notin G}
<1>1. \A n \in M : D[n] \subseteq 1 .. TreeKeys /\ Cardinality(D[n]) \in 0 .. TreeKeys
                   /\ TreeKeys - Cardinality(D[n]) \in Nat
  <2> TAKE n \in M
  <2>1. D[n] \subseteq M
    BY Kin
  <2>2. M \subseteq 1 .. TreeKeys
    BY DEF Shaped
  <2>3. D[n] \subseteq 1 .. TreeKeys
    BY <2>1, <2>2
  <2>4. Cardinality(D[n]) \in 0 .. TreeKeys
    BY <2>3, Sizes
  <2> QED
    BY <2>3, <2>4
<1>2. Bad = {}
  <2> SUFFICES ASSUME Bad # {} PROVE FALSE
    OBVIOUS
  <2>1. PICK k \in Bad : \A j \in Bad : ~(j < k)
    <3>1. Bad \in SUBSET Nat
      OBVIOUS
    <3> HIDE DEF Bad
    <3> QED
      BY <3>1, LeastOne
  <2>2. PICK n \in M : k = TreeKeys - Cardinality(D[n]) /\ n \notin G
    BY <2>1
  <2>3. n # t.root /\ t.parent[n] \notin G
    BY <2>2
  <2> DEFINE m == t.parent[n]
  <2>4. m \in M /\ D[n] \subseteq D[m] /\ m \notin D[n]
    BY <2>3, Kin
  <2>5. m \in D[m]
    BY <2>4, Kin
  <2> HIDE DEF m
  <2>6. Cardinality(D[n]) < Cardinality(D[m])
    BY <1>1, <2>4, <2>5, Sizes
  <2>7. TreeKeys - Cardinality(D[m]) < TreeKeys - Cardinality(D[n])
    BY <1>1, <2>4, <2>6
  <2>8. TreeKeys - Cardinality(D[m]) \in Bad
    BY <1>1, <2>3, <2>4 DEF m
  <2> QED
    BY <2>1, <2>2, <2>7, <2>8
<1> QED
  BY <1>1, <1>2

LEMMA FirstStep ==
  ASSUME NEW t \in Tree!Trees, NEW n \in Tree!Nodes
  PROVE  Tree!FirstNode(t, n) = IF t.left[n] = 0 THEN n ELSE Tree!FirstNode(t, t.left[n])
<1> DEFINE Is(g) == g = [m \in Tree!Nodes |-> IF t.left[m] = 0 THEN m ELSE g[t.left[m]]]
           f == CHOOSE g : Is(g)
<1>1. \E g : Is(g)
  <2> DEFINE Going == {m \in Tree!Nodes : t.left[m] # 0}
             Base == [m \in Tree!Nodes |-> m]
  <2>1. \A m \in Tree!Nodes \cap Going : t.left[m] \in Tree!Nodes
    BY Fields
  <2>2. PICK g : Tails(g, Tree!Nodes, Going, t.left, Base)
    <3> HIDE DEF Going, Base
    <3> QED
      BY <2>1, TailsExist
  <2>3. Is(g)
    BY <2>2 DEF Tails
  <2> QED
    BY <2>3
<1>2. Is(f)
  <2> HIDE DEF Is
  <2> QED
    BY <1>1
<1>3. \A m \in Tree!Nodes : Tree!FirstNode(t, m) = f[m]
  BY DEF Tree!FirstNode, Tree!LEAF
<1> HIDE DEF f
<1>4. f[n] = IF t.left[n] = 0 THEN n ELSE f[t.left[n]]
  BY <1>2
<1>5. t.left[n] \in Tree!Nodes
  BY Fields
<1> QED
  BY <1>3, <1>4, <1>5

\* The leftmost node is the least.
IsFirst(t, D, n, a) ==
  /\ a \in D[n] /\ t.left[a] = 0
  /\ \A k \in D[n] : ~(k < a)
  /\ a # n => t.parent[a] \in D[n] /\ a = t.left[t.parent[a]]
LEMMA FirstIs ==
  ASSUME TreeKeys \in Nat, NEW t, NEW D, NEW M, Shaped(t, D, M), NEW n \in M
  PROVE  IsFirst(t, D, n, Tree!FirstNode(t, n))
<1> DEFINE G == {m \in M : IsFirst(t, D, m, Tree!FirstNode(t, m))}
<1>1. ASSUME NEW m \in M, t.left[m] # 0 => t.left[m] \in G PROVE m \in G
  <2> DEFINE a == Tree!FirstNode(t, m)
             l == t.left[m]
  <2>1. a = IF l = 0 THEN m ELSE Tree!FirstNode(t, l)
    <3>1. t \in Tree!Trees /\ m \in Tree!Nodes
      BY Around DEF Shaped
    <3> QED
      BY <3>1, FirstStep
  <2>2. /\ m \in D[m] /\ D[m] = {m} \cup D[l] \cup D[t.right[m]] /\ m \in Int
        /\ \A k \in D[l] : k < m
        /\ \A k \in D[t.right[m]] : k > m
        /\ l # 0 => t.parent[l] = m
    <3>1. Node(t, D, M, m)
      BY DEF Shaped
    <3>2. m \in D[m] /\ m \in Int
      BY Kin
    <3> QED
      BY <3>1, <3>2 DEF Node
  <2>3. \A k \in D[m] : k \in Int
    <3>1. D[m] \subseteq M
      BY Kin
    <3> QED
      BY <3>1, Kin
  <2> HIDE DEF a, l
  <2>4. CASE l = 0
    <3>1. a = m /\ t.left[m] = 0 /\ D[l] = {}
      BY <2>1, <2>4 DEF l, Shaped
    <3>2. \A k \in D[m] : ~(k < m)
      BY <2>2, <2>3, <3>1
    <3> QED
      BY <2>2, <3>1, <3>2 DEF IsFirst, a
  <2>5. CASE l # 0
    <3>1. IsFirst(t, D, l, a)
      BY <1>1, <2>1, <2>5 DEF l
    <3>2. a \in D[l] /\ a \in D[m] /\ a \in Int /\ a < m /\ t.left[a] = 0
      BY <2>2, <2>3, <3>1 DEF IsFirst
    <3>3. \A k \in D[m] : ~(k < a)
      BY <2>2, <2>3, <3>1, <3>2 DEF IsFirst
    <3>4. t.parent[a] \in D[m] /\ a = t.left[t.parent[a]]
      BY <2>2, <2>5, <3>1 DEF IsFirst, l
    <3> QED
      BY <3>2, <3>3, <3>4 DEF IsFirst, a
  <2> QED
    BY <2>4, <2>5
<1>2. G \in SUBSET M
  OBVIOUS
<1> HIDE DEF G
<1>3. G = M
  BY <1>1, <1>2, Downwards
<1> QED
  BY <1>3 DEF G

LEMMA LastStep ==
  ASSUME NEW t \in Tree!Trees, NEW n \in Tree!Nodes
  PROVE  Tree!LastNode(t, n) = IF t.right[n] = 0 THEN n ELSE Tree!LastNode(t, t.right[n])
<1> DEFINE Is(g) == g = [m \in Tree!Nodes |-> IF t.right[m] = 0 THEN m ELSE g[t.right[m]]]
           f == CHOOSE g : Is(g)
<1>1. \E g : Is(g)
  <2> DEFINE Going == {m \in Tree!Nodes : t.right[m] # 0}
             Base == [m \in Tree!Nodes |-> m]
  <2>1. \A m \in Tree!Nodes \cap Going : t.right[m] \in Tree!Nodes
    BY Fields
  <2>2. PICK g : Tails(g, Tree!Nodes, Going, t.right, Base)
    <3> HIDE DEF Going, Base
    <3> QED
      BY <2>1, TailsExist
  <2>3. Is(g)
    BY <2>2 DEF Tails
  <2> QED
    BY <2>3
<1>2. Is(f)
  <2> HIDE DEF Is
  <2> QED
    BY <1>1
<1>3. \A m \in Tree!Nodes : Tree!LastNode(t, m) = f[m]
  BY DEF Tree!LastNode, Tree!LEAF
<1> HIDE DEF f
<1>4. f[n] = IF t.right[n] = 0 THEN n ELSE f[t.right[n]]
  BY <1>2
<1>5. t.right[n] \in Tree!Nodes
  BY Fields
<1> QED
  BY <1>3, <1>4, <1>5

\* The rightmost node is the greatest.
IsLast(t, D, n, a) ==
  /\ a \in D[n] /\ t.right[a] = 0
  /\ \A k \in D[n] : ~(k > a)
  /\ a # n => t.parent[a] \in D[n] /\ a = t.right[t.parent[a]]
LEMMA LastIs ==
  ASSUME TreeKeys \in Nat, NEW t, NEW D, NEW M, Shaped(t, D, M), NEW n \in M
  PROVE  IsLast(t, D, n, Tree!LastNode(t, n))
<1> DEFINE G == {m \in M : IsLast(t, D, m, Tree!LastNode(t, m))}
<1>1. ASSUME NEW m \in M, t.right[m] # 0 => t.right[m] \in G PROVE m \in G
  <2> DEFINE a == Tree!LastNode(t, m)
             l == t.right[m]
  <2>1. a = IF l = 0 THEN m ELSE Tree!LastNode(t, l)
    <3>1. t \in Tree!Trees /\ m \in Tree!Nodes
      BY Around DEF Shaped
    <3> QED
      BY <3>1, LastStep
  <2>2. /\ m \in D[m] /\ D[m] = {m} \cup D[l] \cup D[t.left[m]] /\ m \in Int
        /\ \A k \in D[l] : k > m
        /\ \A k \in D[t.left[m]] : k < m
        /\ l # 0 => t.parent[l] = m
    <3>1. Node(t, D, M, m)
      BY DEF Shaped
    <3>2. m \in D[m] /\ m \in Int
      BY Kin
    <3> QED
      BY <3>1, <3>2 DEF Node
  <2>3. \A k \in D[m] : k \in Int
    <3>1. D[m] \subseteq M
      BY Kin
    <3> QED
      BY <3>1, Kin
  <2> HIDE DEF a, l
  <2>4. CASE l = 0
    <3>1. a = m /\ t.right[m] = 0 /\ D[l] = {}
      BY <2>1, <2>4 DEF l, Shaped
    <3>2. \A k \in D[m] : ~(k > m)
      BY <2>2, <2>3, <3>1
    <3> QED
      BY <2>2, <3>1, <3>2 DEF IsLast, a
  <2>5. CASE l # 0
    <3>1. IsLast(t, D, l, a)
      BY <1>1, <2>1, <2>5 DEF l
    <3>2. a \in D[l] /\ a \in D[m] /\ a \in Int /\ a > m /\ t.right[a] = 0
      BY <2>2, <2>3, <3>1 DEF IsLast
    <3>3. \A k \in D[m] : ~(k > a)
      BY <2>2, <2>3, <3>1, <3>2 DEF IsLast
    <3>4. t.parent[a] \in D[m] /\ a = t.right[t.parent[a]]
      BY <2>2, <2>5, <3>1 DEF IsLast, l
    <3> QED
      BY <3>2, <3>3, <3>4 DEF IsLast, a
  <2> QED
    BY <2>4, <2>5
<1>2. G \in SUBSET M
  OBVIOUS
<1> HIDE DEF G
<1>3. G = M
  BY <1>1, <1>2, Downwards
<1> QED
  BY <1>3 DEF G

\* A search finds the members.
LEMMA FindStep ==
  ASSUME NEW t \in Tree!Trees, NEW key \in Tree!Nodes
  PROVE  \E f : /\ Tree!FindNode(t, key) = f[t.root]
                /\ \A n \in Tree!Nodes : f[n] = IF n = 0 \/ n = key THEN n
                                               ELSE f[IF n < key THEN t.right[n] ELSE t.left[n]]
<1> DEFINE Is(g) == g = [n \in Tree!Nodes |-> IF n = 0 \/ n = key THEN n
                                              ELSE g[IF n < key THEN t.right[n] ELSE t.left[n]]]
           f == CHOOSE g : Is(g)
<1>1. \E g : Is(g)
  <2> DEFINE Going == {m \in Tree!Nodes : ~(m = 0 \/ m = key)}
             Base == [m \in Tree!Nodes |-> m]
             Step == [m \in Tree!Nodes |-> IF m < key THEN t.right[m] ELSE t.left[m]]
  <2>1. \A m \in Tree!Nodes \cap Going : Step[m] \in Tree!Nodes
    BY Fields
  <2>2. PICK g : Tails(g, Tree!Nodes, Going, Step, Base)
    <3> HIDE DEF Going, Base, Step
    <3> QED
      BY <2>1, TailsExist
  <2>3. Is(g)
    BY <2>2 DEF Tails
  <2> QED
    BY <2>3
<1>2. Is(f)
  <2> HIDE DEF Is
  <2> QED
    BY <1>1
<1>3. Tree!FindNode(t, key) = f[t.root]
  BY DEF Tree!FindNode, Tree!LEAF
<1> HIDE DEF f
<1>4. \A n \in Tree!Nodes : f[n] = IF n = 0 \/ n = key THEN n
                                  ELSE f[IF n < key THEN t.right[n] ELSE t.left[n]]
  BY <1>2
<1> QED
  BY <1>3, <1>4

LEMMA Finds ==
  ASSUME TreeKeys \in Nat, NEW t, NEW D, NEW M, Shaped(t, D, M), NEW key \in 1 .. TreeKeys
  PROVE  Tree!FindNode(t, key) = IF key \in M THEN key ELSE 0
<1>1. t \in Tree!Trees /\ key \in Tree!Nodes /\ 0 \in Tree!Nodes /\ key # 0 /\ key \in Int
  BY DEF Shaped, Tree!Nodes
<1>2. PICK f : /\ Tree!FindNode(t, key) = f[t.root]
               /\ \A n \in Tree!Nodes : f[n] = IF n = 0 \/ n = key THEN n
                                              ELSE f[IF n < key THEN t.right[n] ELSE t.left[n]]
  BY <1>1, FindStep
<1> DEFINE G == {n \in M : f[n] = IF key \in D[n] THEN key ELSE 0}
<1>3. f[0] = 0 /\ D[0] = {}
  BY <1>1, <1>2 DEF Shaped
<1>4. ASSUME NEW n \in M, t.left[n] # 0 => t.left[n] \in G, t.right[n] # 0 => t.right[n] \in G
      PROVE  n \in G
  <2>1. n \in Tree!Nodes /\ n \in Int /\ n \in D[n] /\ n # 0
    BY Kin
  <2>2. /\ D[n] = {n} \cup D[t.left[n]] \cup D[t.right[n]]
        /\ \A k \in D[t.left[n]] : k < n
        /\ \A k \in D[t.right[n]] : k > n
    BY DEF Shaped, Node
  <2>3. /\ f[t.left[n]] = IF key \in D[t.left[n]] THEN key ELSE 0
        /\ f[t.right[n]] = IF key \in D[t.right[n]] THEN key ELSE 0
    BY <1>3, <1>4
  <2>4. f[n] = IF n = key THEN n ELSE IF n < key THEN f[t.right[n]] ELSE f[t.left[n]]
    BY <1>2, <2>1
  <2> QED
    BY <1>1, <2>1, <2>2, <2>3, <2>4
<1>5. G \in SUBSET M
  OBVIOUS
<1>6. \A n \in G : f[n] = IF key \in D[n] THEN key ELSE 0
  OBVIOUS
<1> HIDE DEF G
<1>7. G = M
  BY <1>4, <1>5, Downwards
<1>8. t.root \in M \cup {0} /\ D[t.root] = M
  BY DEF Shaped
<1> QED
  BY <1>2, <1>3, <1>6, <1>7, <1>8

\* The climb of a walk.
LEMMA ClimbStep ==
  ASSUME NEW t \in Tree!Trees, NEW n \in Tree!Nodes, NEW right \in BOOLEAN
  PROVE  Tree!Climb(t, n, right) =
           IF n # 0 /\ t.parent[n] # 0 /\ (IF right THEN n = t.right[t.parent[n]] ELSE n = t.left[t.parent[n]])
           THEN Tree!Climb(t, t.parent[n], right) ELSE t.parent[n]
<1> DEFINE On(m) == /\ m # 0 /\ t.parent[m] # 0
                    /\ (IF right THEN m = t.right[t.parent[m]] ELSE m = t.left[t.parent[m]])
           Is(g) == g = [m \in Tree!Nodes |-> IF On(m) THEN g[t.parent[m]] ELSE t.parent[m]]
           f == CHOOSE g : Is(g)
<1>1. \E g : Is(g)
  <2> DEFINE Going == {m \in Tree!Nodes : On(m)}
  <2>1. \A m \in Tree!Nodes \cap Going : t.parent[m] \in Tree!Nodes
    BY Fields
  <2>2. PICK g : Tails(g, Tree!Nodes, Going, t.parent, t.parent)
    <3> HIDE DEF Going
    <3> QED
      BY <2>1, TailsExist
  <2>3. Is(g)
    <3> HIDE DEF On
    <3> QED
      BY <2>2 DEF Tails
  <2> QED
    BY <2>3
<1>2. Is(f)
  <2> HIDE DEF Is
  <2> QED
    BY <1>1
<1>3. \A m \in Tree!Nodes : Tree!Climb(t, m, right) = f[m]
  BY DEF Tree!Climb, Tree!LEAF, Tree!AmIRight, Tree!AmILeft
<1> HIDE DEF f
<1>4. f[n] = IF On(n) THEN f[t.parent[n]] ELSE t.parent[n]
  <2> HIDE DEF On
  <2> QED
    BY <1>2
<1>5. t.parent[n] \in Tree!Nodes
  BY Fields
<1> HIDE DEF Is
<1> QED
  BY <1>3, <1>4, <1>5

\* q is what comes after the keys below n.
Following(D, M, n, q) ==
  /\ q \in M \cup {0}
  /\ q # 0 => \A j \in D[n] : j < q
  /\ \A k \in M : q = 0 \/ k < q => k \in D[n] \/ \A j \in D[n] : k < j
LEMMA ClimbsRight ==
  ASSUME TreeKeys \in Nat, NEW t, NEW D, NEW M, Shaped(t, D, M), NEW n \in M
  PROVE  Following(D, M, n, Tree!Climb(t, n, TRUE))
<1> DEFINE G == {m \in M : Following(D, M, m, Tree!Climb(t, m, TRUE))}
<1>1. ASSUME NEW m \in M, m # t.root => t.parent[m] \in G PROVE m \in G
  <2> DEFINE p == t.parent[m]
             q == Tree!Climb(t, m, TRUE)
  <2>1. q = IF p # 0 /\ m = t.right[p] THEN Tree!Climb(t, p, TRUE) ELSE p
    <3>1. t \in Tree!Trees
      BY DEF Shaped
    <3>2. m \in Tree!Nodes /\ m # 0
      BY Kin
    <3> QED
      BY <3>1, <3>2, ClimbStep
  <2>2. M \subseteq Int /\ D[m] \subseteq M
    BY Kin
  <2>3. CASE m = t.root
    <3>1. q = 0 /\ D[m] = M
      BY <2>1, <2>3 DEF Shaped
    <3> QED
      BY <3>1 DEF Following
  <2>4. CASE m # t.root
    <3>7. p \in M /\ p \in G
      BY <1>1, <2>4
    <3>1. p \in M /\ p \in G /\ p # 0 /\ p \in D[p] /\ p \in Int
      <4> HIDE DEF p, G
      <4> QED
        BY <3>7, Kin
    <3>2. m \in {t.left[p], t.right[p]}
      BY <2>4 DEF Shaped, Node
    <3>3. /\ D[p] = {p} \cup D[t.left[p]] \cup D[t.right[p]]
          /\ \A k \in D[t.left[p]] : k < p
          /\ \A k \in D[t.right[p]] : k > p
      BY <3>1 DEF Shaped, Node
    <3>6. \A a, b \in D[p], k \in M : a < k /\ k < b => k \in D[p]
      BY <3>1 DEF Shaped, Convex
    <3> HIDE DEF p, q
    <3>4. CASE m = t.right[p]
      <4>1. Following(D, M, p, q)
        BY <2>1, <3>1, <3>4
      <4>2. ASSUME NEW k \in M, q = 0 \/ k < q PROVE k \in D[m] \/ \A j \in D[m] : k < j
        <5>1. k \in D[p] \/ \A j \in D[p] : k < j
          BY <4>1, <4>2 DEF Following
        <5>2. \A j \in D[m] : j \in D[p] /\ p < j /\ j \in Int
          BY <2>2, <3>3, <3>4
        <5>3. k \in Int
          BY <2>2
        <5>4. k \in D[p] => k \in D[m] \/ k = p \/ k < p
          BY <3>3, <3>4
        <5> QED
          BY <3>1, <5>1, <5>2, <5>3, <5>4
      <4>3. D[m] \subseteq D[p]
        BY <3>3, <3>4
      <4>4. q \in M \cup {0} /\ (q # 0 => \A j \in D[m] : j < q)
        BY <4>1, <4>3 DEF Following
      <4>5. \A k \in M : q = 0 \/ k < q => k \in D[m] \/ \A j \in D[m] : k < j
        BY <4>2
      <4> QED
        BY <4>4, <4>5 DEF Following, q
    <3>5. CASE m # t.right[p]
      <4>1. q = p /\ m = t.left[p]
        BY <2>1, <3>2, <3>5
      <4>2. \A j \in D[m] : j < p /\ j \in D[p] /\ j \in Int
        BY <2>2, <3>3, <4>1
      <4>3. ASSUME NEW k \in M, k < p, k \notin D[m], NEW j \in D[m] PROVE k < j
        <5>3. k \in Int /\ p \in Int /\ k < p
          BY <2>2, <3>1, <4>3
        <5>4. k # p /\ ~(k > p)
          BY <5>3
        <5>5. k \notin D[t.right[p]]
          BY <3>3, <5>4
        <5>1. k \in Int /\ k \notin D[p]
          BY <3>3, <4>1, <4>3, <5>3, <5>4, <5>5
        <5>2. ~(j < k)
          BY <3>1, <3>6, <4>2, <4>3, <5>1
        <5> QED
          BY <4>2, <5>1, <5>2
      <4> QED
        BY <3>1, <4>1, <4>2, <4>3 DEF Following, q
    <3> QED
      BY <3>4, <3>5
  <2> QED
    BY <2>3, <2>4
<1>2. G \in SUBSET M
  OBVIOUS
<1> HIDE DEF G
<1>3. G = M
  BY <1>1, <1>2, Upwards
<1> QED
  BY <1>3 DEF G

\* A step of a walk comes to the next key.
LEMMA NextIs ==
  ASSUME TreeKeys \in Nat, NEW t, NEW D, NEW M, Shaped(t, D, M), NEW n \in M
  PROVE  LET q == Tree!NextNode(t, n) IN
         /\ q \in M \cup {0} /\ (q # 0 => q > n)
         /\ \A k \in M : k > n => q # 0 /\ ~(k < q)
<1> DEFINE q == Tree!NextNode(t, n)
           r == t.right[n]
<1>1. /\ M \subseteq Int /\ 0 \notin M /\ D[n] \subseteq M /\ n \in D[n]
      /\ D[n] = {n} \cup D[t.left[n]] \cup D[r]
      /\ \A k \in D[t.left[n]] : k < n
      /\ \A k \in D[r] : k > n
      /\ r \in M \cup {0}
      /\ \A a, b \in D[n], k \in M : a < k /\ k < b => k \in D[n]
  <2>1. M \subseteq Int /\ 0 \notin M /\ D[n] \subseteq M /\ n \in D[n]
    BY Kin
  <2>2. Node(t, D, M, n) /\ Convex(D[n], M)
    BY DEF Shaped
  <2> QED
    BY <2>1, <2>2 DEF Node, Convex
<1>2. CASE r = 0
  <2>1. q = Tree!Climb(t, n, TRUE)
    BY <1>2 DEF Tree!NextNode, Tree!LEAF
  <2>2. Following(D, M, n, q)
    BY <2>1, ClimbsRight
  <2>3. D[r] = {}
    BY <1>2 DEF Shaped
  <2> HIDE DEF q, r
  <2>4. \A k \in M : k > n => k \notin D[n] /\ k \in Int /\ n \in Int /\ ~(k < n)
    BY <1>1, <2>3
  <2>5. \A k \in M : k > n => q # 0 /\ ~(k < q)
    BY <1>1, <2>2, <2>4 DEF Following
  <2>6. q \in M \cup {0} /\ (q # 0 => q > n)
    BY <1>1, <2>2 DEF Following
  <2> QED
    BY <2>5, <2>6 DEF q
<1>3. CASE r # 0
  <2>1. q = Tree!FirstNode(t, r)
    BY <1>3 DEF Tree!NextNode, Tree!LEAF
  <2>2. IsFirst(t, D, r, q)
    BY <1>1, <1>3, <2>1, FirstIs
  <2> HIDE DEF q, r
  <2>3. q \in D[r] /\ q \in M /\ q > n /\ q # 0 /\ q \in D[n]
    BY <1>1, <2>2 DEF IsFirst
  <2>4. ASSUME NEW k \in M, k > n, k < q PROVE FALSE
    <3>1. k \in D[n]
      BY <1>1, <2>3, <2>4
    <3>2. k \in Int /\ n \in Int
      BY <1>1
    <3>3. k \in D[r]
      BY <1>1, <2>4, <3>1, <3>2
    <3> QED
      BY <2>2, <2>4, <3>3 DEF IsFirst
  <2>5. \A k \in M : k > n => q # 0 /\ ~(k < q)
    BY <2>3, <2>4
  <2>6. q \in M \cup {0} /\ (q # 0 => q > n)
    BY <2>3
  <2> QED
    BY <2>5, <2>6 DEF q
<1> QED
  BY <1>2, <1>3

\* q is what comes before the keys below n.
Preceding(D, M, n, q) ==
  /\ q \in M \cup {0}
  /\ q # 0 => \A j \in D[n] : j > q
  /\ \A k \in M : q = 0 \/ k > q => k \in D[n] \/ \A j \in D[n] : k > j
LEMMA ClimbsLeft ==
  ASSUME TreeKeys \in Nat, NEW t, NEW D, NEW M, Shaped(t, D, M), NEW n \in M
  PROVE  Preceding(D, M, n, Tree!Climb(t, n, FALSE))
<1> DEFINE G == {m \in M : Preceding(D, M, m, Tree!Climb(t, m, FALSE))}
<1>1. ASSUME NEW m \in M, m # t.root => t.parent[m] \in G PROVE m \in G
  <2> DEFINE p == t.parent[m]
             q == Tree!Climb(t, m, FALSE)
  <2>1. q = IF p # 0 /\ m = t.left[p] THEN Tree!Climb(t, p, FALSE) ELSE p
    <3>1. t \in Tree!Trees
      BY DEF Shaped
    <3>2. m \in Tree!Nodes /\ m # 0
      BY Kin
    <3> QED
      BY <3>1, <3>2, ClimbStep
  <2>2. M \subseteq Int /\ D[m] \subseteq M
    BY Kin
  <2>3. CASE m = t.root
    <3>1. q = 0 /\ D[m] = M
      BY <2>1, <2>3 DEF Shaped
    <3> QED
      BY <3>1 DEF Preceding
  <2>4. CASE m # t.root
    <3>7. p \in M /\ p \in G
      BY <1>1, <2>4
    <3>1. p \in M /\ p \in G /\ p # 0 /\ p \in D[p] /\ p \in Int
      <4> HIDE DEF p, G
      <4> QED
        BY <3>7, Kin
    <3>2. m \in {t.left[p], t.right[p]}
      BY <2>4 DEF Shaped, Node
    <3>3. /\ D[p] = {p} \cup D[t.right[p]] \cup D[t.left[p]]
          /\ \A k \in D[t.right[p]] : k > p
          /\ \A k \in D[t.left[p]] : k < p
      BY <3>1 DEF Shaped, Node
    <3>6. \A a, b \in D[p], k \in M : a > k /\ k > b => k \in D[p]
      BY <3>1 DEF Shaped, Convex
    <3> HIDE DEF p, q
    <3>4. CASE m = t.left[p]
      <4>1. Preceding(D, M, p, q)
        BY <2>1, <3>1, <3>4
      <4>2. ASSUME NEW k \in M, q = 0 \/ k > q PROVE k \in D[m] \/ \A j \in D[m] : k > j
        <5>1. k \in D[p] \/ \A j \in D[p] : k > j
          BY <4>1, <4>2 DEF Preceding
        <5>2. \A j \in D[m] : j \in D[p] /\ p > j /\ j \in Int
          BY <2>2, <3>3, <3>4
        <5>3. k \in Int
          BY <2>2
        <5>4. k \in D[p] => k \in D[m] \/ k = p \/ k > p
          BY <3>3, <3>4
        <5> QED
          BY <3>1, <5>1, <5>2, <5>3, <5>4
      <4>3. D[m] \subseteq D[p]
        BY <3>3, <3>4
      <4>4. q \in M \cup {0} /\ (q # 0 => \A j \in D[m] : j > q)
        BY <4>1, <4>3 DEF Preceding
      <4>5. \A k \in M : q = 0 \/ k > q => k \in D[m] \/ \A j \in D[m] : k > j
        BY <4>2
      <4> QED
        BY <4>4, <4>5 DEF Preceding, q
    <3>5. CASE m # t.left[p]
      <4>1. q = p /\ m = t.right[p]
        BY <2>1, <3>2, <3>5
      <4>2. \A j \in D[m] : j > p /\ j \in D[p] /\ j \in Int
        BY <2>2, <3>3, <4>1
      <4>3. ASSUME NEW k \in M, k > p, k \notin D[m], NEW j \in D[m] PROVE k > j
        <5>3. k \in Int /\ p \in Int /\ k > p
          BY <2>2, <3>1, <4>3
        <5>4. k # p /\ ~(k < p)
          BY <5>3
        <5>5. k \notin D[t.left[p]]
          BY <3>3, <5>4
        <5>1. k \in Int /\ k \notin D[p]
          BY <3>3, <4>1, <4>3, <5>3, <5>4, <5>5
        <5>2. ~(j > k)
          BY <3>1, <3>6, <4>2, <4>3, <5>1
        <5> QED
          BY <4>2, <5>1, <5>2
      <4> QED
        BY <3>1, <4>1, <4>2, <4>3 DEF Preceding, q
    <3> QED
      BY <3>4, <3>5
  <2> QED
    BY <2>3, <2>4
<1>2. G \in SUBSET M
  OBVIOUS
<1> HIDE DEF G
<1>3. G = M
  BY <1>1, <1>2, Upwards
<1> QED
  BY <1>3 DEF G

LEMMA PrevIs ==
  ASSUME TreeKeys \in Nat, NEW t, NEW D, NEW M, Shaped(t, D, M), NEW n \in M
  PROVE  LET q == Tree!PrevNode(t, n) IN
         /\ q \in M \cup {0} /\ (q # 0 => q < n)
         /\ \A k \in M : k < n => q # 0 /\ ~(k > q)
<1> DEFINE q == Tree!PrevNode(t, n)
           r == t.left[n]
<1>1. /\ M \subseteq Int /\ 0 \notin M /\ D[n] \subseteq M /\ n \in D[n]
      /\ D[n] = {n} \cup D[t.right[n]] \cup D[r]
      /\ \A k \in D[t.right[n]] : k > n
      /\ \A k \in D[r] : k < n
      /\ r \in M \cup {0}
      /\ \A a, b \in D[n], k \in M : a > k /\ k > b => k \in D[n]
  <2>1. M \subseteq Int /\ 0 \notin M /\ D[n] \subseteq M /\ n \in D[n]
    BY Kin
  <2>2. Node(t, D, M, n) /\ Convex(D[n], M)
    BY DEF Shaped
  <2> QED
    BY <2>1, <2>2 DEF Node, Convex
<1>2. CASE r = 0
  <2>1. q = Tree!Climb(t, n, FALSE)
    BY <1>2 DEF Tree!PrevNode, Tree!LEAF
  <2>2. Preceding(D, M, n, q)
    BY <2>1, ClimbsLeft
  <2>3. D[r] = {}
    BY <1>2 DEF Shaped
  <2> HIDE DEF q, r
  <2>4. \A k \in M : k < n => k \notin D[n] /\ k \in Int /\ n \in Int /\ ~(k > n)
    BY <1>1, <2>3
  <2>5. \A k \in M : k < n => q # 0 /\ ~(k > q)
    BY <1>1, <2>2, <2>4 DEF Preceding
  <2>6. q \in M \cup {0} /\ (q # 0 => q < n)
    BY <1>1, <2>2 DEF Preceding
  <2> QED
    BY <2>5, <2>6 DEF q
<1>3. CASE r # 0
  <2>1. q = Tree!LastNode(t, r)
    BY <1>3 DEF Tree!PrevNode, Tree!LEAF
  <2>2. IsLast(t, D, r, q)
    BY <1>1, <1>3, <2>1, LastIs
  <2> HIDE DEF q, r
  <2>3. q \in D[r] /\ q \in M /\ q < n /\ q # 0 /\ q \in D[n]
    BY <1>1, <2>2 DEF IsLast
  <2>4. ASSUME NEW k \in M, k < n, k > q PROVE FALSE
    <3>1. k \in D[n]
      BY <1>1, <2>3, <2>4
    <3>2. k \in Int /\ n \in Int
      BY <1>1
    <3>3. k \in D[r]
      BY <1>1, <2>4, <3>1, <3>2
    <3> QED
      BY <2>2, <2>4, <3>3 DEF IsLast
  <2>5. \A k \in M : k < n => q # 0 /\ ~(k > q)
    BY <2>3, <2>4
  <2>6. q \in M \cup {0} /\ (q # 0 => q < n)
    BY <2>3
  <2> QED
    BY <2>5, <2>6 DEF q
<1> QED
  BY <1>2, <1>3

\* Where a new key goes: no other key is between it and the node above it.
Beside(M, key, n) == \A k \in M : k # n => (k < key <=> k < n)
Below(t, M, key, n) ==
  /\ n \in M /\ Beside(M, key, n)
  /\ (IF key < n THEN t.left[n] ELSE t.right[n]) = 0

LEMMA PlaceStep ==
  ASSUME NEW t \in Tree!Trees, NEW key \in Tree!Nodes
  PROVE  \E f : /\ Tree!Place(t, key) = f[t.root]
                /\ \A n \in Tree!Nodes :
                     f[n] = IF (IF key < n THEN t.left[n] ELSE t.right[n]) = 0 THEN n
                            ELSE f[IF key < n THEN t.left[n] ELSE t.right[n]]
<1> DEFINE To(n) == IF key < n THEN t.left[n] ELSE t.right[n]
           Is(g) == g = [n \in Tree!Nodes |-> IF To(n) = 0 THEN n ELSE g[To(n)]]
           f == CHOOSE g : Is(g)
<1>1. \E g : Is(g)
  <2> DEFINE Going == {m \in Tree!Nodes : To(m) # 0}
             Base == [m \in Tree!Nodes |-> m]
             Step == [m \in Tree!Nodes |-> To(m)]
  <2>1. \A m \in Tree!Nodes \cap Going : Step[m] \in Tree!Nodes
    BY Fields
  <2>2. PICK g : Tails(g, Tree!Nodes, Going, Step, Base)
    <3> HIDE DEF Going, Base, Step
    <3> QED
      BY <2>1, TailsExist
  <2>3. Is(g)
    <3> HIDE DEF To
    <3> QED
      BY <2>2 DEF Tails
  <2> QED
    BY <2>3
<1>2. Is(f)
  <2> HIDE DEF Is
  <2> QED
    BY <1>1
<1>3. Tree!Place(t, key) = f[t.root]
  BY DEF Tree!Place, Tree!LEAF
<1> HIDE DEF f
<1>4. \A n \in Tree!Nodes : f[n] = IF To(n) = 0 THEN n ELSE f[To(n)]
  <2> HIDE DEF To
  <2> QED
    BY <1>2
<1> QED
  BY <1>3, <1>4

LEMMA Places ==
  ASSUME TreeKeys \in Nat, NEW t, NEW D, NEW M, Shaped(t, D, M), NEW key \in 1 .. TreeKeys,
         key \notin M, t.root # 0
  PROVE  Below(t, M, key, Tree!Place(t, key))
<1>1. t \in Tree!Trees /\ key \in Tree!Nodes /\ key # 0 /\ key \in Int
  BY DEF Shaped, Tree!Nodes
<1>2. PICK f : /\ Tree!Place(t, key) = f[t.root]
               /\ \A n \in Tree!Nodes :
                    f[n] = IF (IF key < n THEN t.left[n] ELSE t.right[n]) = 0 THEN n
                           ELSE f[IF key < n THEN t.left[n] ELSE t.right[n]]
  BY <1>1, PlaceStep
<1>8. M \subseteq Int
  BY Kin
<1> DEFINE Sep(n) == \A k \in M : k \notin D[n] => \A j \in D[n] : k < key <=> k < j
           G == {n \in M : Sep(n) => Below(t, M, key, f[n])}
<1>3. ASSUME NEW n \in M, t.left[n] # 0 => t.left[n] \in G, t.right[n] # 0 => t.right[n] \in G
      PROVE  n \in G
  <2> DEFINE m == IF key < n THEN t.left[n] ELSE t.right[n]
  <2>1. n \in Tree!Nodes /\ n \in Int /\ n \in D[n] /\ D[n] \subseteq M /\ n # key
    BY Kin
  <2>2. /\ D[n] = {n} \cup D[t.left[n]] \cup D[t.right[n]]
        /\ \A k \in D[t.left[n]] : k < n
        /\ \A k \in D[t.right[n]] : k > n
    BY DEF Shaped, Node
  <2>3. f[n] = IF m = 0 THEN n ELSE f[m]
    BY <1>2, <2>1
  <2> SUFFICES ASSUME Sep(n) PROVE Below(t, M, key, f[n])
    OBVIOUS
  <2>4. CASE m = 0
    <3>1. f[n] = n /\ D[0] = {}
      BY <2>3, <2>4 DEF Shaped
    <3>2. ASSUME NEW k \in M, k # n PROVE k < key <=> k < n
      <4>1. k \in Int
        BY <1>8
      <4>2. CASE k \notin D[n]
        BY <2>1, <4>2
      <4>3. CASE k \in D[n]
        BY <1>1, <2>1, <2>2, <2>4, <3>1, <3>2, <4>1, <4>3
      <4> QED
        BY <4>2, <4>3
    <3> QED
      BY <2>4, <3>1, <3>2 DEF Below, Beside
  <2>5. CASE m # 0
    <3>1. m \in G
      BY <1>3, <2>5
    <3>2. Sep(m)
      <4> SUFFICES ASSUME NEW k \in M, k \notin D[m], NEW j \in D[m] PROVE k < key <=> k < j
        OBVIOUS
      <4>1. k \in Int /\ j \in Int /\ j \in D[n]
        BY <1>8, <2>1, <2>2
      <4>2. CASE k \notin D[n]
        BY <4>1, <4>2
      <4>3. CASE k \in D[n] /\ key < n
        BY <1>1, <2>1, <2>2, <4>1, <4>3
      <4>4. CASE k \in D[n] /\ ~(key < n)
        BY <1>1, <2>1, <2>2, <4>1, <4>4
      <4> QED
        BY <4>2, <4>3, <4>4
    <3> QED
      BY <2>3, <2>5, <3>1, <3>2
  <2> QED
    BY <2>4, <2>5
<1>4. G \in SUBSET M
  OBVIOUS
<1>5. t.root \in M /\ D[t.root] = M
  BY DEF Shaped
<1>6. t.root \in G => Below(t, M, key, f[t.root])
  BY <1>5
<1> HIDE DEF G
<1>7. G = M
  BY <1>3, <1>4, Downwards
<1> QED
  BY <1>2, <1>5, <1>6, <1>7

\* A new node at its place.
Attached(t, key, stem, u) ==
  /\ u \in Tree!Trees /\ u.root = t.root
  /\ \A x \in Tree!Nodes :
       /\ u.left[x] = IF x = key THEN 0 ELSE IF x = stem /\ key < stem THEN key ELSE t.left[x]
       /\ u.right[x] = IF x = key THEN 0 ELSE IF x = stem /\ ~(key < stem) THEN key ELSE t.right[x]
       /\ u.parent[x] = IF x = key THEN stem ELSE t.parent[x]
LEMMA AttachKeeps ==
  ASSUME TreeKeys \in Nat, NEW t, NEW D, NEW M, Shaped(t, D, M), NEW key \in 1 .. TreeKeys,
         key \notin M, NEW stem, Below(t, M, key, stem), NEW u, Attached(t, key, stem, u)
  PROVE  \E E : Shaped(u, E, M \cup {key})
<1> DEFINE N == M \cup {key}
           E == [x \in Tree!Nodes |-> IF x = key THEN {key}
                                      ELSE IF stem \in D[x] THEN D[x] \cup {key} ELSE D[x]]
<1>1. /\ key \in Tree!Nodes /\ key # 0 /\ key \in Int /\ stem \in M /\ M \subseteq Int /\ 0 \notin M
      /\ M \subseteq Tree!Nodes /\ stem # key /\ stem # 0 /\ N \subseteq 1 .. TreeKeys /\ stem \in D[stem]
      /\ 0 \in Tree!Nodes
  <2>1. key \in Tree!Nodes /\ key # 0 /\ key \in Int /\ 0 \in Tree!Nodes
    BY DEF Tree!Nodes
  <2>2. stem \in M
    BY DEF Below
  <2>3. M \subseteq Int /\ 0 \notin M /\ M \subseteq Tree!Nodes /\ stem \in D[stem]
    BY <2>2, Kin
  <2>4. N \subseteq 1 .. TreeKeys
    BY DEF Shaped
  <2> QED
    BY <2>1, <2>2, <2>3, <2>4
<1>2. /\ t.left[0] = 0 /\ t.right[0] = 0 /\ t.parent[0] = 0 /\ t.root \in M \cup {0}
      /\ t.parent[t.root] = 0 /\ D \in [Tree!Nodes -> SUBSET M] /\ D[0] = {} /\ D[t.root] = M
      /\ \A x \in M : Node(t, D, M, x) /\ Convex(D[x], M)
  BY DEF Shaped
<1>3. /\ \A k \in M : k # stem => (k < key <=> k < stem)
      /\ (IF key < stem THEN t.left[stem] ELSE t.right[stem]) = 0
  BY DEF Below, Beside
<1>4. /\ u \in Tree!Trees /\ u.root = t.root
      /\ \A x \in Tree!Nodes :
           /\ u.left[x] = IF x = key THEN 0 ELSE IF x = stem /\ key < stem THEN key ELSE t.left[x]
           /\ u.right[x] = IF x = key THEN 0 ELSE IF x = stem /\ ~(key < stem) THEN key ELSE t.right[x]
           /\ u.parent[x] = IF x = key THEN stem ELSE t.parent[x]
  BY DEF Attached
<1>5. /\ E \in [Tree!Nodes -> SUBSET N] /\ E[key] = {key} /\ E[0] = {}
      /\ \A x \in M \cup {0} : E[x] = IF stem \in D[x] THEN D[x] \cup {key} ELSE D[x]
  BY <1>1, <1>2
<1> HIDE DEF E, N
<1>6. Node(u, E, N, key)
  <2>1. u.left[key] = 0 /\ u.right[key] = 0 /\ u.parent[key] = stem
    BY <1>1, <1>4
  <2>2. stem \in N /\ key \in {u.left[stem], u.right[stem]}
    BY <1>1, <1>4 DEF N
  <2> QED
    BY <1>5, <2>1, <2>2 DEF Node
<1>7. ASSUME NEW x \in M PROVE Node(u, E, N, x)
  <2> DEFINE l == t.left[x]
             r == t.right[x]
             p == t.parent[x]
  <2>1. /\ l \in M \cup {0} /\ r \in M \cup {0} /\ D[x] = {x} \cup D[l] \cup D[r]
        /\ \A k \in D[l] : k < x
        /\ \A k \in D[r] : k > x
        /\ l # 0 => t.parent[l] = x
        /\ r # 0 => t.parent[r] = x
        /\ x # t.root => p \in M /\ x \in {t.left[p], t.right[p]}
    BY <1>2 DEF Node
  <2>2. /\ u.left[x] = IF x = stem /\ key < stem THEN key ELSE l
        /\ u.right[x] = IF x = stem /\ ~(key < stem) THEN key ELSE r
        /\ u.parent[x] = p /\ x \in Int /\ x # key
    BY <1>1, <1>4
  <2>3. x = stem => (IF key < stem THEN l ELSE r) = 0
    BY <1>3
  <2>4. /\ u.left[x] \in N \cup {0} /\ (u.left[x] # 0 => u.parent[u.left[x]] = x)
        /\ u.right[x] \in N \cup {0} /\ (u.right[x] # 0 => u.parent[u.right[x]] = x)
    BY <1>1, <1>4, <2>1, <2>2 DEF N
  <2>5. x # u.root => u.parent[x] \in N /\ x \in {u.left[u.parent[x]], u.right[u.parent[x]]}
    <3> SUFFICES ASSUME x # u.root PROVE p \in N /\ x \in {u.left[p], u.right[p]}
      BY <2>2
    <3>1. p \in M /\ x \in {t.left[p], t.right[p]} /\ x # 0
      BY <1>1, <1>4, <2>1
    <3>2. p = stem => (IF key < stem THEN t.left[p] ELSE t.right[p]) = 0
      BY <1>3
    <3> HIDE DEF p, l, r
    <3> QED
      BY <1>1, <1>4, <3>1, <3>2 DEF N
  <2>8. E[l] = IF stem \in D[l] THEN D[l] \cup {key} ELSE D[l]
    BY <1>5, <2>1
  <2>9. E[r] = IF stem \in D[r] THEN D[r] \cup {key} ELSE D[r]
    BY <1>5, <2>1
  <2>10. E[x] = IF stem \in D[x] THEN D[x] \cup {key} ELSE D[x]
    BY <1>5
  <2> HIDE DEF l, r, p
  <2>6. CASE x = stem
    <3>1. key < stem => l = 0 /\ E[u.left[x]] = {key} /\ E[u.right[x]] = D[r]
      <4>1. stem \notin D[r]
        BY <1>1, <2>1, <2>6
      <4> QED
        BY <1>5, <2>2, <2>3, <2>9, <2>6, <4>1
    <3>2. ~(key < stem) => r = 0 /\ E[u.right[x]] = {key} /\ E[u.left[x]] = D[l] /\ key > stem
      <4>1. stem \notin D[l]
        BY <1>1, <2>1, <2>6
      <4> QED
        BY <1>1, <1>5, <2>2, <2>3, <2>8, <2>6, <4>1
    <3>3. E[x] = D[x] \cup {key}
      BY <1>1, <2>6, <2>10
    <3>4. /\ E[x] = {x} \cup E[u.left[x]] \cup E[u.right[x]]
          /\ \A k \in E[u.left[x]] : k < x
          /\ \A k \in E[u.right[x]] : k > x
      BY <1>2, <2>1, <2>6, <3>1, <3>2, <3>3
    <3> QED
      BY <2>4, <2>5, <3>4 DEF Node
  <2>7. CASE x # stem
    <3>1. u.left[x] = l /\ u.right[x] = r
      BY <2>2, <2>7
    <3>2. stem \in D[x] <=> stem \in D[l] \/ stem \in D[r]
      BY <2>1, <2>7
    <3>3. E[x] = {x} \cup E[l] \cup E[r]
      BY <2>1, <2>8, <2>9, <2>10, <3>2
    <3>4. \A k \in E[l] : k < x
      <4>1. stem \in D[l] => key < x
        BY <1>1, <1>3, <2>1, <2>2, <2>7
      <4> QED
        BY <2>1, <2>8, <4>1
    <3>5. \A k \in E[r] : k > x
      <4>1. stem \in D[r] => key > x
        BY <1>1, <1>3, <2>1, <2>2, <2>7
      <4> QED
        BY <2>1, <2>9, <4>1
    <3> QED
      BY <2>4, <2>5, <3>1, <3>3, <3>4, <3>5 DEF Node
  <2> QED
    BY <2>6, <2>7
<1>8. ASSUME NEW x \in M PROVE Convex(E[x], N)
  <2> SUFFICES ASSUME NEW a \in E[x], NEW b \in E[x], NEW k \in N, a < k, k < b PROVE k \in E[x]
    BY DEF Convex
  <2>1. \A i, j \in D[x], h \in M : i < h /\ h < j => h \in D[x]
    BY <1>2 DEF Convex
  <2>2. E[x] = (IF stem \in D[x] THEN D[x] \cup {key} ELSE D[x]) /\ D[x] \subseteq M
    BY <1>1, <1>2, <1>5
  <2>3. a \in Int /\ b \in Int /\ k \in Int /\ stem \in Int /\ a # k /\ b # k
    BY <1>1, <2>2 DEF N
  <2>4. CASE k = key
    <3> SUFFICES ASSUME stem \notin D[x] PROVE FALSE
      BY <2>2, <2>4
    <3>1. a \in D[x] /\ b \in D[x] /\ a # stem /\ b # stem /\ a \in M /\ b \in M
      BY <2>2
    <3>2. a < stem /\ stem < b
      BY <1>3, <2>3, <2>4, <3>1
    <3> QED
      BY <1>1, <2>1, <3>1, <3>2
  <2>5. CASE k # key /\ a = key
    <3>1. stem \in D[x] /\ b \in D[x] /\ k \in M
      BY <1>1, <2>2, <2>3, <2>5 DEF N
    <3>2. k = stem \/ stem < k
      BY <1>3, <2>3, <2>5, <3>1
    <3> QED
      BY <2>1, <2>2, <3>1, <3>2
  <2>6. CASE k # key /\ b = key
    <3>1. stem \in D[x] /\ a \in D[x] /\ k \in M
      BY <1>1, <2>2, <2>3, <2>6 DEF N
    <3>2. k = stem \/ k < stem
      BY <1>3, <2>3, <2>6, <3>1
    <3> QED
      BY <2>1, <2>2, <3>1, <3>2
  <2>7. CASE k # key /\ a # key /\ b # key
    <3>1. a \in D[x] /\ b \in D[x] /\ k \in M
      BY <2>2, <2>7 DEF N
    <3> QED
      BY <2>1, <2>2, <3>1
  <2> QED
    BY <2>4, <2>5, <2>6, <2>7
<1>9. Convex(E[key], N)
  <2>1. \A a, b \in E[key], k \in N : a < k /\ k < b => FALSE
    BY <1>1, <1>5 DEF N
  <2> QED
    BY <2>1 DEF Convex
<1>10. /\ u.left[0] = 0 /\ u.right[0] = 0 /\ u.parent[0] = 0 /\ u.root \in N \cup {0}
       /\ u.parent[u.root] = 0 /\ E[u.root] = N
  <2>1. t.root \in M
    BY <1>1, <1>2
  <2>2. E[t.root] = N
    BY <1>1, <1>2, <1>5, <2>1 DEF N
  <2>3. u.parent[t.root] = 0
    BY <1>1, <1>2, <1>4, <2>1
  <2> QED
    BY <1>1, <1>2, <1>4, <2>1, <2>2, <2>3 DEF N
<1>11. Shaped(u, E, N)
  <2>1. N \subseteq 1 .. TreeKeys
    BY <1>1
  <2>2. \A x \in N : Node(u, E, N, x) /\ Convex(E[x], N)
    BY <1>6, <1>7, <1>8, <1>9 DEF N
  <2> QED
    BY <1>4, <1>5, <1>10, <2>1, <2>2 DEF Shaped
<1> QED
  BY <1>11 DEF N

\* pico_tree_insert keeps the shape.
LEMMA InsertKeeps ==
  ASSUME TreeKeys \in Nat, NEW t, NEW D, NEW M, Shaped(t, D, M), NEW key \in 1 .. TreeKeys,
         key \notin M
  PROVE  \E E : Shaped(Tree!InsertNode(t, key), E, M \cup {key})
<1> DEFINE stem == Tree!Place(t, key)
           new == [t EXCEPT !.left[key] = 0, !.right[key] = 0, !.color[key] = "RED"]
           u == IF t.root = 0 THEN [new EXCEPT !.root = key, !.parent[key] = 0]
                ELSE IF key < stem THEN [new EXCEPT !.parent[key] = stem, !.left[stem] = key]
                ELSE [new EXCEPT !.parent[key] = stem, !.right[stem] = key]
<1>1. Tree!InsertNode(t, key) = Tree!FixInsertCollisions[<<u, key>>]
  BY DEF Tree!InsertNode, Tree!LEAF
<1>2. t \in Tree!Trees /\ key \in Tree!Nodes /\ 0 \in Tree!Nodes /\ key # 0 /\ key \in Int
  BY DEF Shaped, Tree!Nodes
<1> HIDE DEF stem
<1>5. /\ new \in Tree!Trees /\ new.root = t.root /\ new.parent = t.parent
      /\ \A x \in Tree!Nodes : /\ new.left[x] = IF x = key THEN 0 ELSE t.left[x]
                               /\ new.right[x] = IF x = key THEN 0 ELSE t.right[x]
  BY <1>2 DEF Tree!Trees
<1> HIDE DEF new
<1>3. PICK E : Shaped(u, E, M \cup {key})
  <2>1. CASE t.root = 0
    <3> DEFINE F == [x \in Tree!Nodes |-> IF x = key THEN {key} ELSE {}]
    <3>1. M = {}
      BY <2>1 DEF Shaped
    <3>2. /\ u \in Tree!Trees /\ u.root = key
          /\ \A x \in Tree!Nodes :
               /\ u.left[x] = IF x = key THEN 0 ELSE t.left[x]
               /\ u.right[x] = IF x = key THEN 0 ELSE t.right[x]
               /\ u.parent[x] = IF x = key THEN 0 ELSE t.parent[x]
      BY <1>2, <1>5, <2>1 DEF Tree!Trees
    <3> HIDE DEF u
    <3>3. /\ F \in [Tree!Nodes -> SUBSET {key}] /\ F[key] = {key} /\ F[0] = {}
      BY <1>2
    <3> HIDE DEF F
    <3>4. Node(u, F, {key}, key)
      <4>1. u.left[key] = 0 /\ u.right[key] = 0
        BY <1>2, <3>2
      <4> QED
        BY <3>2, <3>3, <4>1 DEF Node
    <3>5. Convex(F[key], {key})
      BY <1>2, <3>3 DEF Convex
    <3>6. t.left[0] = 0 /\ t.right[0] = 0 /\ t.parent[0] = 0
      BY DEF Shaped
    <3>7. u.left[0] = 0 /\ u.right[0] = 0 /\ u.parent[0] = 0 /\ u.parent[key] = 0
      BY <1>2, <3>2, <3>6
    <3>8. Shaped(u, F, {key})
      BY <1>2, <3>2, <3>3, <3>4, <3>5, <3>7 DEF Shaped
    <3> QED
      BY <3>1, <3>8
  <2>2. CASE t.root # 0
    <3>1. Below(t, M, key, stem)
      BY <2>2, Places DEF stem
    <3>2. stem \in Tree!Nodes /\ stem # key
      <4>1. stem \in M
        BY <3>1 DEF Below
      <4> QED
        BY <4>1, Kin
    <3>3. CASE key < stem
      <4>1. u = [new EXCEPT !.parent[key] = stem, !.left[stem] = key]
        BY <2>2, <3>3
      <4> HIDE DEF u
      <4>2. Attached(t, key, stem, u)
        BY <1>2, <1>5, <3>2, <3>3, <4>1 DEF Attached, Tree!Trees
      <4> QED
        BY <3>1, <4>2, AttachKeeps
    <3>4. CASE ~(key < stem)
      <4>1. u = [new EXCEPT !.parent[key] = stem, !.right[stem] = key]
        BY <2>2, <3>4
      <4> HIDE DEF u
      <4>2. Attached(t, key, stem, u)
        BY <1>2, <1>5, <3>2, <3>4, <4>1 DEF Attached, Tree!Trees
      <4> QED
        BY <3>1, <4>2, AttachKeeps
    <3> QED
      BY <3>3, <3>4
  <2> QED
    BY <2>1, <2>2
<1> HIDE DEF u
<1>4. \E G : Shaped(Tree!FixInsertCollisions[<<u, key>>], G, M \cup {key})
  BY <1>3, FixInsertKeeps
<1> QED
  BY <1>1, <1>4

\* b takes the place of a.
Switched(t, a, b, u) ==
  LET p == t.parent[a]
  IN /\ u \in Tree!Trees /\ u.color = t.color
     /\ u.root = IF p = 0 THEN b ELSE t.root
     /\ \A x \in Tree!Nodes :
          /\ u.left[x] = IF p # 0 /\ x = p /\ a = t.left[p] THEN b ELSE t.left[x]
          /\ u.right[x] = IF p # 0 /\ x = p /\ a # t.left[p] THEN b ELSE t.right[x]
          /\ u.parent[x] = IF b # 0 /\ x = b THEN p ELSE t.parent[x]
LEMMA Switches ==
  ASSUME NEW t \in Tree!Trees, NEW a \in Tree!Nodes, a # 0, NEW b \in Tree!Nodes
  PROVE  Switched(t, a, b, Tree!SwitchNodes(t, a, b))
<1> DEFINE p == t.parent[a]
           r == Tree!Replace(t, a, b)
           u == Tree!Adopt(r, b, p)
<1>1. p \in Tree!Nodes
  BY Fields
<1>2. Tree!SwitchNodes(t, a, b) = u
  BY DEF Tree!SwitchNodes, Tree!LEAF
<1> HIDE DEF p
<1>3. /\ r \in Tree!Trees /\ r.color = t.color /\ r.parent = t.parent
      /\ r.root = IF p = 0 THEN b ELSE t.root
      /\ \A x \in Tree!Nodes :
           /\ r.left[x] = IF p # 0 /\ x = p /\ a = t.left[p] THEN b ELSE t.left[x]
           /\ r.right[x] = IF p # 0 /\ x = p /\ a # t.left[p] THEN b ELSE t.right[x]
  BY <1>1 DEF Tree!Replace, Tree!AmILeft, Tree!Trees, Tree!LEAF, p
<1> HIDE DEF r
<1>4. /\ u \in Tree!Trees /\ u.color = r.color /\ u.root = r.root /\ u.left = r.left /\ u.right = r.right
      /\ \A x \in Tree!Nodes : u.parent[x] = IF b # 0 /\ x = b THEN p ELSE r.parent[x]
  BY <1>1, <1>3 DEF Tree!Adopt, Tree!Trees, Tree!LEAF
<1> HIDE DEF u
<1>5. Switched(t, a, b, u)
  BY <1>3, <1>4 DEF Switched, p
<1> QED
  BY <1>2, <1>5

\* A node with at most one child is taken out.
LEMMA SpliceKeeps ==
  ASSUME TreeKeys \in Nat, NEW t, NEW D, NEW M, Shaped(t, D, M), NEW a \in M,
         NEW b \in {t.left[a], t.right[a]}, {t.left[a], t.right[a]} \subseteq {b, 0},
         NEW u, Switched(t, a, b, u)
  PROVE  LET E == [x \in Tree!Nodes |-> IF x = a THEN {} ELSE D[x] \ {a}]
         IN Shaped(u, E, M \ {a})
<1> DEFINE N == M \ {a}
           p == t.parent[a]
           E == [x \in Tree!Nodes |-> IF x = a THEN {} ELSE D[x] \ {a}]
<1>1. /\ M \subseteq Tree!Nodes /\ 0 \in Tree!Nodes /\ 0 \notin M /\ a \in D[a] /\ M \subseteq Int
      /\ p = 0 <=> a = t.root
      /\ p # 0 => p \in M /\ p # a /\ a \in {t.left[p], t.right[p]}
                  /\ (t.left[p] = a => t.right[p] # a)
  <2>1. /\ M \subseteq Tree!Nodes /\ 0 \notin M /\ a \in D[a] /\ M \subseteq Int
        /\ p = 0 <=> a = t.root
        /\ a # t.root => p \in M /\ p # a
    BY Kin
  <2>2. a # t.root => a \in {t.left[p], t.right[p]}
    BY DEF Shaped, Node
  <2>3. p \in M => (t.left[p] # 0 => t.left[p] # t.right[p])
    BY Kin
  <2> HIDE DEF p
  <2>4. p # 0 => (t.left[p] = a => t.right[p] # a)
    BY <2>1, <2>3
  <2>5. 0 \in Tree!Nodes
    BY DEF Tree!Nodes
  <2> QED
    BY <2>1, <2>2, <2>4, <2>5
<1>2. /\ t.left[0] = 0 /\ t.right[0] = 0 /\ t.parent[0] = 0 /\ t.root \in M \cup {0}
      /\ t.parent[t.root] = 0 /\ D \in [Tree!Nodes -> SUBSET M] /\ D[0] = {} /\ D[t.root] = M
      /\ M \subseteq 1 .. TreeKeys
      /\ \A x \in M : Node(t, D, M, x) /\ Convex(D[x], M)
  BY DEF Shaped
<1>3. /\ b \in M \cup {0} /\ D[a] = {a} \cup D[b] /\ a \notin D[b]
      /\ b # 0 => t.parent[b] = a /\ b # a
  <2>1. Node(t, D, M, a)
    BY <1>2
  <2>2. a \notin D[t.left[a]] /\ a \notin D[t.right[a]]
    BY Kin
  <2>3. D[0] = {}
    BY <1>2
  <2>4. b # 0 => b # a
    BY Kin
  <2> QED
    BY <2>1, <2>2, <2>3, <2>4 DEF Node
<1>4. /\ u \in Tree!Trees
      /\ u.root = IF p = 0 THEN b ELSE t.root
      /\ \A x \in Tree!Nodes :
           /\ u.left[x] = IF p # 0 /\ x = p /\ a = t.left[p] THEN b ELSE t.left[x]
           /\ u.right[x] = IF p # 0 /\ x = p /\ a # t.left[p] THEN b ELSE t.right[x]
           /\ u.parent[x] = IF b # 0 /\ x = b THEN p ELSE t.parent[x]
  BY DEF Switched
<1>5. E \in [Tree!Nodes -> SUBSET N] /\ E[0] = {} /\ \A x \in N \cup {0} : E[x] = D[x] \ {a}
  BY <1>1, <1>2
<1>6. \A x \in M : t.left[x] = a \/ t.right[x] = a => x = p
  BY <1>1, <1>2 DEF Node
<1> HIDE DEF E, p
<1>7. ASSUME NEW x \in N PROVE Node(u, E, N, x)
  <2> DEFINE l == t.left[x]
             r == t.right[x]
             y == t.parent[x]
  <2>1. /\ l \in M \cup {0} /\ r \in M \cup {0} /\ D[x] = {x} \cup D[l] \cup D[r]
        /\ \A k \in D[l] : k < x
        /\ \A k \in D[r] : k > x
        /\ l # 0 => t.parent[l] = x
        /\ r # 0 => t.parent[r] = x
        /\ x # t.root => y \in M /\ x \in {t.left[y], t.right[y]}
    BY <1>2 DEF Node
  <2>2. x \in M /\ x # a /\ x \in Tree!Nodes /\ x # 0
    BY <1>1
  <2>3. /\ u.left[x] = IF l = a THEN b ELSE l
        /\ u.right[x] = IF r = a THEN b ELSE r
    BY <1>1, <1>4, <1>6, <2>2
  <2>4. /\ u.left[x] \in N \cup {0} /\ E[u.left[x]] = D[l] \ {a}
        /\ u.left[x] # 0 => u.parent[u.left[x]] = x
    <3> HIDE DEF l, r, y
    <3>1. CASE l = a
      <4>1. x = p /\ b \in N \cup {0} /\ u.left[x] = b
        BY <1>3, <1>6, <2>2, <2>3, <3>1 DEF l
      <4> QED
        BY <1>1, <1>3, <1>4, <1>5, <3>1, <4>1
    <3>2. CASE l # a
      <4>1. l \in N \cup {0} /\ u.left[x] = l
        BY <2>1, <2>3, <3>2
      <4>2. l # 0 => l # b
        BY <1>3, <2>1, <2>2
      <4> QED
        BY <1>1, <1>4, <1>5, <2>1, <4>1, <4>2
    <3> QED
      BY <3>1, <3>2
  <2>5. /\ u.right[x] \in N \cup {0} /\ E[u.right[x]] = D[r] \ {a}
        /\ u.right[x] # 0 => u.parent[u.right[x]] = x
    <3> HIDE DEF l, r, y
    <3>1. CASE r = a
      <4>1. x = p /\ b \in N \cup {0} /\ u.right[x] = b
        BY <1>3, <1>6, <2>2, <2>3, <3>1 DEF r
      <4> QED
        BY <1>1, <1>3, <1>4, <1>5, <3>1, <4>1
    <3>2. CASE r # a
      <4>1. r \in N \cup {0} /\ u.right[x] = r
        BY <2>1, <2>3, <3>2
      <4>2. r # 0 => r # b
        BY <1>3, <2>1, <2>2
      <4> QED
        BY <1>1, <1>4, <1>5, <2>1, <4>1, <4>2
    <3> QED
      BY <3>1, <3>2
  <2>6. x # u.root => u.parent[x] \in N /\ x \in {u.left[u.parent[x]], u.right[u.parent[x]]}
    <3> SUFFICES ASSUME x # u.root
                 PROVE  u.parent[x] \in N /\ x \in {u.left[u.parent[x]], u.right[u.parent[x]]}
      OBVIOUS
    <3>1. CASE x = b
      <4>1. u.parent[x] = p /\ p # 0
        BY <1>4, <2>2, <3>1
      <4> QED
        BY <1>1, <1>4, <3>1, <4>1
    <3>2. CASE x # b
      <4>1. u.parent[x] = y
        BY <1>4, <2>2, <3>2
      <4>2. x # t.root
        BY <1>1, <1>4, <2>2
      <4>3. y \in M /\ x \in {t.left[y], t.right[y]}
        BY <2>1, <4>2
      <4> HIDE DEF y
      <4>4. y # a
        BY <2>2, <3>2, <4>3
      <4>5. x = t.left[y] => u.left[y] = x
        BY <1>1, <1>4, <2>2, <4>3
      <4>6. x = t.right[y] => u.right[y] = x
        BY <1>1, <1>4, <2>2, <4>3
      <4> QED
        BY <4>1, <4>3, <4>4, <4>5, <4>6
    <3> QED
      BY <3>1, <3>2
  <2>7. E[x] = {x} \cup E[u.left[x]] \cup E[u.right[x]]
    BY <1>5, <2>1, <2>2, <2>4, <2>5
  <2>8. \A k \in E[u.left[x]] : k < x
    BY <2>1, <2>4
  <2>9. \A k \in E[u.right[x]] : k > x
    BY <2>1, <2>5
  <2> QED
    BY <2>4, <2>5, <2>6, <2>7, <2>8, <2>9 DEF Node
<1>8. \A x \in N : Convex(E[x], N)
  <2> TAKE x \in N
  <2>1. Convex(D[x], M) /\ E[x] = D[x] \ {a}
    BY <1>2, <1>5
  <2> QED
    BY <2>1 DEF Convex
<1>9. /\ u.left[0] = 0 /\ u.right[0] = 0 /\ u.parent[0] = 0 /\ u.root \in N \cup {0}
      /\ u.parent[u.root] = 0 /\ E[u.root] = N
  <2>1. u.left[0] = 0 /\ u.right[0] = 0 /\ u.parent[0] = 0
    BY <1>1, <1>2, <1>4
  <2>2. CASE p = 0
    <3>1. u.root = b /\ b \in N \cup {0} /\ D[a] = M
      BY <1>1, <1>2, <1>3, <1>4, <2>2
    <3>2. E[b] = N
      BY <1>3, <1>5, <3>1
    <3>3. u.parent[b] = 0
      BY <1>1, <1>4, <2>1, <2>2, <3>1
    <3> QED
      BY <2>1, <3>1, <3>2, <3>3
  <2>3. CASE p # 0
    <3>1. u.root = t.root /\ t.root # a /\ t.root \in N
      BY <1>1, <1>2, <1>4, <2>3
    <3>2. E[t.root] = N
      BY <1>2, <1>5, <3>1
    <3>3. u.parent[t.root] = 0
      BY <1>1, <1>2, <1>3, <1>4, <3>1
    <3> QED
      BY <2>1, <3>1, <3>2, <3>3
  <2> QED
    BY <2>2, <2>3
<1>10. Shaped(u, E, N)
  BY <1>2, <1>4, <1>5, <1>7, <1>8, <1>9 DEF Shaped
<1> QED
  BY <1>10 DEF E

\* The node m gets the place and the neighbours of d.
As(d, m, x) == IF x = d THEN m ELSE x
Renamed(t, N, d, m, v) ==
  /\ v \in Tree!Trees /\ v.root = As(d, m, t.root)
  /\ v.left[0] = 0 /\ v.right[0] = 0 /\ v.parent[0] = 0
  /\ \A x \in (N \ {d}) \cup {m} :
       LET y == As(m, d, x)
       IN /\ v.left[x] = As(d, m, t.left[y])
          /\ v.right[x] = As(d, m, t.right[y])
          /\ v.parent[x] = As(d, m, t.parent[y])
LEMMA RenameKeeps ==
  ASSUME TreeKeys \in Nat, NEW t, NEW D, NEW N, Shaped(t, D, N), NEW d \in N,
         NEW m \in 1 .. TreeKeys, m \notin N, Beside(N, m, d), NEW v, Renamed(t, N, d, m, v)
  PROVE  \E E : Shaped(v, E, (N \ {d}) \cup {m})
<1> DEFINE S == (N \ {d}) \cup {m}
           O(x) == As(m, d, x)
           R(x) == As(d, m, x)
           E == [x \in Tree!Nodes |-> IF x \in S THEN {k \in S : O(k) \in D[O(x)]} ELSE {}]
<1>1. /\ N \subseteq 1 .. TreeKeys /\ S \subseteq 1 .. TreeKeys /\ N \subseteq Int /\ 0 \notin N
      /\ 0 \in Tree!Nodes /\ m # 0 /\ d # 0 /\ m # d /\ S \subseteq Tree!Nodes /\ S \subseteq Int /\ 0 \notin S
      /\ N \subseteq Tree!Nodes
  BY DEF Shaped, Tree!Nodes
<1>2. /\ t.left[0] = 0 /\ t.right[0] = 0 /\ t.parent[0] = 0 /\ t.root \in N \cup {0}
      /\ t.parent[t.root] = 0 /\ D \in [Tree!Nodes -> SUBSET N] /\ D[0] = {} /\ D[t.root] = N
      /\ \A x \in N : Node(t, D, N, x) /\ Convex(D[x], N)
  BY DEF Shaped
<1>3. /\ v \in Tree!Trees /\ v.root = R(t.root)
      /\ v.left[0] = 0 /\ v.right[0] = 0 /\ v.parent[0] = 0
      /\ \A x \in S : /\ v.left[x] = R(t.left[O(x)])
                      /\ v.right[x] = R(t.right[O(x)])
                      /\ v.parent[x] = R(t.parent[O(x)])
  BY DEF Renamed
<1>4. /\ \A x \in N : R(x) \in S /\ O(R(x)) = x
      /\ \A x \in S : O(x) \in N /\ R(O(x)) = x
      /\ R(0) = 0 /\ O(0) = 0
      /\ \A x, y \in N : R(x) = R(y) => x = y
  BY <1>1 DEF As
<1>5. \A a, b \in S : a < b <=> O(a) < O(b)
  <2>1. \A k \in N : k # d => (k < m <=> k < d)
    BY DEF Beside
  <2>2. \A k \in N : k # d => (m < k <=> d < k)
    BY <1>1, <2>1
  <2> QED
    BY <1>1, <2>1, <2>2 DEF As
<1>6. /\ E \in [Tree!Nodes -> SUBSET S] /\ E[0] = {}
      /\ \A x \in S : E[x] = {k \in S : O(k) \in D[O(x)]}
  BY <1>1
<1> HIDE DEF E, S, O, R
<1>7. \A y \in N \cup {0} : \A k \in S : k \in E[R(y)] <=> O(k) \in D[y]
  <2> TAKE y \in N \cup {0}
  <2> TAKE k \in S
  <2>1. CASE y = 0
    BY <1>2, <1>4, <1>6, <2>1
  <2>2. CASE y \in N
    <3>1. R(y) \in S /\ O(R(y)) = y
      BY <1>4, <2>2
    <3> QED
      BY <1>6, <3>1
  <2> QED
    BY <2>1, <2>2
<1>8. ASSUME NEW x \in S PROVE Node(v, E, S, x)
  <2> DEFINE y == O(x)
             l == t.left[y]
             r == t.right[y]
             p == t.parent[y]
  <2>1. y \in N /\ R(y) = x /\ v.left[x] = R(l) /\ v.right[x] = R(r) /\ v.parent[x] = R(p)
    BY <1>3, <1>4
  <2>2. /\ l \in N \cup {0} /\ r \in N \cup {0} /\ D[y] = {y} \cup D[l] \cup D[r]
        /\ \A k \in D[l] : k < y
        /\ \A k \in D[r] : k > y
        /\ l # 0 => t.parent[l] = y
        /\ r # 0 => t.parent[r] = y
        /\ y # t.root => p \in N /\ y \in {t.left[p], t.right[p]}
    BY <1>2, <2>1 DEF Node
  <2>12. y = O(x)
    OBVIOUS
  <2> HIDE DEF y, l, r, p
  <2>3. v.left[x] \in S \cup {0} /\ v.right[x] \in S \cup {0}
    BY <1>4, <2>1, <2>2
  <2>4. /\ v.left[x] # 0 => v.parent[v.left[x]] = x
        /\ v.right[x] # 0 => v.parent[v.right[x]] = x
    <3>1. l # 0 => R(l) \in S /\ O(R(l)) = l /\ v.parent[R(l)] = R(y)
      BY <1>3, <1>4, <2>2
    <3>2. r # 0 => R(r) \in S /\ O(R(r)) = r /\ v.parent[R(r)] = R(y)
      BY <1>3, <1>4, <2>2
    <3> QED
      BY <1>4, <2>1, <3>1, <3>2
  <2>5. E[v.left[x]] \subseteq S /\ E[v.right[x]] \subseteq S /\ E[x] \subseteq S
    BY <1>1, <1>6, <2>3
  <2>6. \A k \in S : /\ k \in E[v.left[x]] <=> O(k) \in D[l]
                     /\ k \in E[v.right[x]] <=> O(k) \in D[r]
                     /\ k \in E[x] <=> O(k) \in D[y]
    BY <1>7, <2>1, <2>2
  <2>7. \A k \in S : O(k) = y => k = x
    BY <1>4, <2>1
  <2>8. E[x] = {x} \cup E[v.left[x]] \cup E[v.right[x]]
    <3>1. \A k \in S : k \in E[x] <=> k \in {x} \cup E[v.left[x]] \cup E[v.right[x]]
      BY <2>2, <2>6, <2>7, <2>12
    <3> QED
      BY <2>5, <3>1
  <2>9. \A k \in E[v.left[x]] : k < x
    BY <1>5, <2>2, <2>5, <2>6, <2>12
  <2>10. \A k \in E[v.right[x]] : k > x
    <3>1. \A k \in E[v.right[x]] : k \in S /\ y < O(k)
      <4>1. \A k \in D[r] : y < k
        BY <1>1, <2>1, <2>2
      <4> QED
        BY <2>5, <2>6, <4>1
    <3>2. \A k \in E[v.right[x]] : x < k
      BY <1>5, <2>12, <3>1
    <3> QED
      BY <1>1, <2>5, <3>2
  <2>11. x # v.root => v.parent[x] \in S /\ x \in {v.left[v.parent[x]], v.right[v.parent[x]]}
    <3> SUFFICES ASSUME x # v.root
                 PROVE  v.parent[x] \in S /\ x \in {v.left[v.parent[x]], v.right[v.parent[x]]}
      OBVIOUS
    <3>1. p \in N /\ y \in {t.left[p], t.right[p]}
      BY <1>3, <2>1, <2>2
    <3>2. R(p) \in S /\ O(R(p)) = p
      BY <1>4, <3>1
    <3>3. v.left[R(p)] = R(t.left[p]) /\ v.right[R(p)] = R(t.right[p])
      BY <1>3, <3>2
    <3> QED
      BY <2>1, <3>1, <3>2, <3>3
  <2> QED
    BY <2>3, <2>4, <2>8, <2>9, <2>10, <2>11 DEF Node
<1>9. ASSUME NEW x \in S PROVE Convex(E[x], S)
  <2> SUFFICES ASSUME NEW a \in E[x], NEW b \in E[x], NEW k \in S, a < k, k < b PROVE k \in E[x]
    BY DEF Convex
  <2>1. a \in S /\ b \in S /\ O(a) \in D[O(x)] /\ O(b) \in D[O(x)] /\ O(k) \in N /\ O(x) \in N
    BY <1>4, <1>6
  <2>2. O(a) < O(k) /\ O(k) < O(b)
    BY <1>5, <2>1
  <2>3. O(k) \in D[O(x)]
    BY <1>2, <2>1, <2>2 DEF Convex
  <2> QED
    BY <1>6, <2>3
<1>10. v.root \in S \cup {0} /\ v.parent[v.root] = 0 /\ E[v.root] = S
  <2>1. t.root \in N
    BY <1>2
  <2>2. v.root \in S /\ O(v.root) = t.root
    BY <1>3, <1>4, <2>1
  <2>3. v.parent[v.root] = 0
    BY <1>2, <1>3, <1>4, <2>2
  <2>4. E[v.root] = {k \in S : O(k) \in N}
    BY <1>2, <1>6, <2>2
  <2>5. {k \in S : O(k) \in N} = S
    BY <1>4
  <2> QED
    BY <2>2, <2>3, <2>4, <2>5
<1>11. Shaped(v, E, S)
  BY <1>1, <1>3, <1>6, <1>8, <1>9, <1>10 DEF Shaped
<1> QED
  BY <1>11 DEF S

\* What pico_tree_delete_node works with: d, its successor min and the tree s without min.
Succession(t, D, M, d, min, s, E) ==
  LET N == M \ {min}
  IN /\ min \in M /\ d \in N /\ d \in M
     /\ t.left[min] = 0 /\ t.parent[min] # 0 /\ t.right[min] \in N \cup {0} /\ t.right[min] # d
     /\ t.parent[min] = d => min = t.right[d]
     /\ t.parent[min] # d => t.right[d] # min
     /\ t.parent[min] # d => min = t.left[t.parent[min]]
     /\ Beside(N, min, d)
     /\ Switched(t, min, t.right[min], s) /\ Shaped(s, E, N)
LEMMA Successions ==
  ASSUME TreeKeys \in Nat, NEW t, NEW D, NEW M, Shaped(t, D, M), NEW d \in M, t.right[d] # 0
  PROVE  LET min == Tree!FirstNode(t, t.right[d]) IN
         \E E : Succession(t, D, M, d, min, Tree!SwitchNodes(t, min, t.right[min]), E)
<1> DEFINE r == t.right[d]
           min == Tree!FirstNode(t, r)
           N == M \ {min}
           s == Tree!SwitchNodes(t, min, t.right[min])
<1>1. /\ r \in M /\ d \in D[d] /\ d \notin D[r] /\ D[r] \subseteq D[d] /\ D[d] \subseteq M
      /\ t.parent[r] = d /\ D[d] = {d} \cup D[t.left[d]] \cup D[r]
      /\ \A k \in D[t.left[d]] : k < d
      /\ \A k \in D[r] : k > d
      /\ \A a, b \in D[d], k \in M : a < k /\ k < b => k \in D[d]
      /\ M \subseteq Int
  <2>1. Node(t, D, M, d) /\ Convex(D[d], M)
    BY DEF Shaped
  <2>2. d \in D[d] /\ d \notin D[r] /\ D[r] \subseteq D[d] /\ D[d] \subseteq M /\ M \subseteq Int
    BY Kin
  <2> QED
    BY <2>1, <2>2 DEF Node, Convex
<1>2. IsFirst(t, D, r, min)
  BY <1>1, FirstIs
<1> HIDE DEF r, min
<1>3. min \in D[r] /\ min \in M /\ min # d /\ t.left[min] = 0 /\ \A k \in D[r] : ~(k < min)
  BY <1>1, <1>2 DEF IsFirst
<1>4. /\ min # r => t.parent[min] # d /\ min = t.left[t.parent[min]]
  BY <1>1, <1>2 DEF IsFirst
<1>5. t.parent[min] # 0
  <2>1. 0 \notin M
    BY Kin
  <2> QED
    BY <1>1, <1>2, <2>1 DEF IsFirst
<1>6. t.right[min] \in N \cup {0} /\ t.right[min] # d
  <2>1. t.right[min] \in M \cup {0}
    BY <1>3, Around
  <2>2. t.right[min] # 0 => t.right[min] # min
    BY <1>3, Kin
  <2>3. t.right[min] # d
    <3> SUFFICES ASSUME t.right[min] = d PROVE FALSE
      OBVIOUS
    <3>1. d > min
      BY <1>3, Kin
    <3> QED
      BY <1>1, <1>3, <3>1
  <2> QED
    BY <2>1, <2>2, <2>3
<1>7. Beside(N, min, d)
  <2> SUFFICES ASSUME NEW k \in N, k # d PROVE k < min <=> k < d
    BY DEF Beside
  <2>1. k \in Int /\ min \in Int /\ d \in Int /\ min > d
    BY <1>1, <1>3
  <2>2. ASSUME k < min, ~(k < d) PROVE FALSE
    <3>1. d < k
      BY <2>1, <2>2
    <3>2. k \in D[d]
      BY <1>1, <1>3, <2>2, <3>1
    <3>3. k \in D[r]
      BY <1>1, <2>1, <3>1, <3>2
    <3> QED
      BY <1>3, <2>2, <3>3
  <2> QED
    BY <2>1, <2>2
<1>8. Switched(t, min, t.right[min], s)
  <2>1. t \in Tree!Trees
    BY DEF Shaped
  <2>2. min \in Tree!Nodes /\ min # 0
    BY <1>3, Kin
  <2>3. t.right[min] \in Tree!Nodes
    BY <2>1, <2>2, Fields
  <2> QED
    BY <2>1, <2>2, <2>3, Switches
<1> HIDE DEF s
<1>9. \E E : Shaped(s, E, N)
  BY <1>3, <1>8, SpliceKeeps
<1>10. /\ t.parent[min] = d => min = t.right[d]
       /\ t.parent[min] # d => t.right[d] # min
  BY <1>1, <1>4 DEF r
<1>11. \E E : Succession(t, D, M, d, min, s, E)
  BY <1>3, <1>4, <1>5, <1>6, <1>7, <1>8, <1>9, <1>10 DEF Succession, r
<1> QED
  BY <1>11 DEF r, min, s

\* The first half of the deletion: min has the right side of d.
Promoted(s, N, d, min, p) ==
  /\ p \in Tree!Trees /\ p.root = s.root /\ p.right[min] = s.right[d]
  /\ \A x \in N \cup {0} :
       /\ p.left[x] = s.left[x]
       /\ x # d => p.right[x] = s.right[x]
       /\ p.parent[x] = IF s.right[d] # 0 /\ x = s.right[d] THEN min ELSE s.parent[x]
LEMMA Promotes ==
  ASSUME TreeKeys \in Nat, NEW t, NEW D, NEW M, Shaped(t, D, M), NEW d, NEW min, NEW s, NEW E,
         Succession(t, D, M, d, min, s, E), s = Tree!SwitchNodes(t, min, t.right[min])
  PROVE  Promoted(s, M \ {min}, d, min, Tree!Promote(t, d, min))
<1> DEFINE N == M \ {min}
           b == t.right[min]
           q == t.parent[min]
           c == s.right[d]
           p == Tree!Promote(t, d, min)
<1>1. /\ min \in M /\ d \in N /\ d \in M /\ q # 0 /\ b \in N \cup {0} /\ b # d
      /\ q = d => min = t.right[d]
      /\ q # d => min = t.left[q]
      /\ Shaped(s, E, N)
  BY DEF Succession
<1>2. t \in Tree!Trees /\ N \cup {0} \subseteq Tree!Nodes /\ min \in Tree!Nodes /\ min # 0 /\ 0 \notin N
  <2>1. M \cup {0} \subseteq Tree!Nodes
    BY Around
  <2>2. 0 \notin M
    BY <1>1, Kin
  <2> QED
    BY <1>1, <2>1, <2>2 DEF Shaped
<1>3. q = d => min # t.left[d]
  BY <1>1, <1>2, Kin
<1>4. Switched(t, min, b, s)
  BY DEF Succession
<1> HIDE DEF b, q
<1>5. /\ s \in Tree!Trees /\ s.root = t.root
      /\ \A x \in Tree!Nodes :
           /\ s.left[x] = IF x = q /\ min = t.left[q] THEN b ELSE t.left[x]
           /\ s.right[x] = IF x = q /\ min # t.left[q] THEN b ELSE t.right[x]
           /\ s.parent[x] = IF b # 0 /\ x = b THEN q ELSE t.parent[x]
  BY <1>1, <1>4 DEF Switched, q
<1>6. CASE q = d /\ b # 0
  <2>1. p = Tree!Adopt(t, b, min)
    BY <1>6 DEF Tree!Promote, Tree!LEAF, b, q
  <2> HIDE DEF p
  <2>2. /\ p \in Tree!Trees /\ p.root = t.root /\ p.left = t.left /\ p.right = t.right
        /\ \A x \in Tree!Nodes : p.parent[x] = IF x = b THEN min ELSE t.parent[x]
    BY <1>1, <1>2, <1>6, <2>1 DEF Tree!Adopt, Tree!Trees, Tree!LEAF
  <2>3. c = b /\ p.right[min] = b
    BY <1>1, <1>2, <1>3, <1>5, <1>6, <2>2 DEF b
  <2> HIDE DEF c
  <2>4. ASSUME NEW x \in N \cup {0}
        PROVE  /\ p.left[x] = s.left[x]
               /\ x # d => p.right[x] = s.right[x]
               /\ p.parent[x] = IF c # 0 /\ x = c THEN min ELSE s.parent[x]
    BY <1>1, <1>2, <1>3, <1>5, <1>6, <2>2, <2>3
  <2>5. p.root = s.root /\ p.right[min] = c
    BY <1>5, <2>2, <2>3
  <2> QED
    BY <2>2, <2>4, <2>5 DEF Promoted, p, c
<1>7. CASE ~(q = d /\ b # 0)
  <2> DEFINE w == [s EXCEPT !.right[min] = c]
  <2>1. p = Tree!Adopt(w, c, min)
    BY <1>7 DEF Tree!Promote, Tree!LEAF, b, q
  <2>2. c \in Tree!Nodes /\ c # min /\ d \in Tree!Nodes
    <3>1. c \in N \cup {0}
      BY <1>1, Around
    <3> QED
      BY <1>1, <1>2, <3>1
  <2> HIDE DEF p, c
  <2>3. /\ w \in Tree!Trees /\ w.root = s.root /\ w.left = s.left /\ w.parent = s.parent
        /\ \A x \in Tree!Nodes : w.right[x] = IF x = min THEN c ELSE s.right[x]
    BY <1>2, <1>5, <2>2 DEF Tree!Trees
  <2> HIDE DEF w
  <2>4. /\ p \in Tree!Trees /\ p.root = w.root /\ p.left = w.left /\ p.right = w.right
        /\ \A x \in Tree!Nodes : p.parent[x] = IF c # 0 /\ x = c THEN min ELSE w.parent[x]
    BY <1>2, <2>1, <2>2, <2>3 DEF Tree!Adopt, Tree!Trees, Tree!LEAF
  <2>5. ASSUME NEW x \in N \cup {0}
        PROVE  /\ p.left[x] = s.left[x]
               /\ x # d => p.right[x] = s.right[x]
               /\ p.parent[x] = IF c # 0 /\ x = c THEN min ELSE s.parent[x]
    BY <1>2, <2>3, <2>4
  <2>6. p.root = s.root /\ p.right[min] = c
    BY <1>2, <2>3, <2>4
  <2> QED
    BY <2>4, <2>5, <2>6 DEF Promoted, p, c
<1> QED
  BY <1>6, <1>7

\* The second half: min has the left side and the place of d, and its colour.
LEMMA DeleteRenames ==
  ASSUME TreeKeys \in Nat, NEW t, NEW D, NEW M, Shaped(t, D, M), NEW d, NEW min, NEW s, NEW E,
         Succession(t, D, M, d, min, s, E), NEW p, Promoted(s, M \ {min}, d, min, p),
         NEW c \in {"BLACK", "RED"}
  PROVE  LET u == Tree!SwitchNodes(p, d, min)
             v == Tree!Adopt([u EXCEPT !.left[min] = u.left[d]], u.left[d], min)
         IN Renamed(s, M \ {min}, d, min, Tree!Paint(v, min, c))
<1> DEFINE N == M \ {min}
           u == Tree!SwitchNodes(p, d, min)
           k == u.left[d]
           w == [u EXCEPT !.left[min] = k]
           v == Tree!Adopt(w, k, min)
           f == Tree!Paint(v, min, c)
           l == s.left[d]
           r == s.right[d]
           P == s.parent[d]
<1>1. min \in M /\ d \in N /\ d \in M /\ Shaped(s, E, N) /\ min \notin N
  BY DEF Succession
<1>2. N \cup {0} \subseteq Tree!Nodes /\ min \in Tree!Nodes /\ min # 0 /\ 0 \notin N /\ d # 0
  <2>1. M \cup {0} \subseteq Tree!Nodes
    BY Around
  <2>2. 0 \notin M
    BY <1>1, Kin
  <2> QED
    BY <1>1, <2>1, <2>2
<1>3. /\ l \in N \cup {0} /\ r \in N \cup {0} /\ P \in N \cup {0} /\ P # d /\ l # d /\ r # d
      /\ l # 0 => s.parent[l] = d /\ l # r
      /\ r # 0 => s.parent[r] = d
      /\ P # 0 => d \in {s.left[P], s.right[P]} /\ (s.left[P] = d => s.right[P] # d)
      /\ P = 0 <=> d = s.root
  <2>1. l \in N \cup {0} /\ r \in N \cup {0} /\ P \in N \cup {0}
    BY <1>1, Around
  <2>2. /\ P # d
        /\ l # 0 => l # d /\ l # r
        /\ r # 0 => r # d
        /\ P = 0 <=> d = s.root
    BY <1>1, <1>2, Kin
  <2>3. Node(s, E, N, d)
    BY <1>1 DEF Shaped
  <2>4. P # 0 => d \in {s.left[P], s.right[P]}
    BY <2>2, <2>3 DEF Node
  <2>5. P # 0 => (s.left[P] # 0 => s.left[P] # s.right[P])
    BY <1>1, <2>1, Kin
  <2>6. /\ l # 0 => s.parent[l] = d
        /\ r # 0 => s.parent[r] = d
    BY <2>3 DEF Node
  <2> HIDE DEF P, l, r
  <2> QED
    BY <1>2, <2>1, <2>2, <2>4, <2>5, <2>6
<1>4. \A x \in N : /\ s.left[x] = d => x = P
                   /\ s.right[x] = d => x = P
                   /\ s.parent[x] = d => x = l \/ x = r
                   /\ s.left[x] \in N \cup {0} /\ s.right[x] \in N \cup {0} /\ s.parent[x] \in N \cup {0}
  <2> TAKE x \in N
  <2>1. Node(s, E, N, x)
    BY <1>1 DEF Shaped
  <2>2. x = s.root => s.parent[x] = 0
    BY <1>1 DEF Shaped
  <2>3. s.left[x] \in N \cup {0} /\ s.right[x] \in N \cup {0} /\ s.parent[x] \in N \cup {0}
    BY <1>1, Around
  <2> QED
    BY <1>2, <2>1, <2>2, <2>3 DEF Node
<1>5. s.left[0] = 0 /\ s.right[0] = 0 /\ s.parent[0] = 0
  BY <1>1 DEF Shaped
<1> HIDE DEF l, r, P
<1>6. /\ p \in Tree!Trees /\ p.root = s.root /\ p.right[min] = r
      /\ \A x \in N \cup {0} :
           /\ p.left[x] = s.left[x]
           /\ x # d => p.right[x] = s.right[x]
           /\ p.parent[x] = IF r # 0 /\ x = r THEN min ELSE s.parent[x]
  BY DEF Promoted, r
<1>7. p.parent[d] = P
  BY <1>1, <1>3, <1>6 DEF P
<1>8. Switched(p, d, min, u)
  BY <1>1, <1>2, <1>6, Switches
<1> HIDE DEF u
<1>9. /\ u \in Tree!Trees
      /\ u.root = IF P = 0 THEN min ELSE s.root
      /\ \A x \in Tree!Nodes :
           /\ u.left[x] = IF P # 0 /\ x = P /\ d = s.left[P] THEN min ELSE p.left[x]
           /\ u.right[x] = IF P # 0 /\ x = P /\ d # s.left[P] THEN min ELSE p.right[x]
           /\ u.parent[x] = IF x = min THEN P ELSE p.parent[x]
  BY <1>2, <1>3, <1>6, <1>7, <1>8 DEF Switched
<1>10. k = l
  BY <1>1, <1>2, <1>3, <1>6, <1>9 DEF l
<1> HIDE DEF k
<1>11. /\ w \in Tree!Trees /\ w.root = u.root /\ w.right = u.right /\ w.parent = u.parent
       /\ \A x \in Tree!Nodes : w.left[x] = IF x = min THEN l ELSE u.left[x]
  BY <1>2, <1>3, <1>9, <1>10 DEF Tree!Trees
<1> HIDE DEF w
<1>12. /\ v \in Tree!Trees /\ v.root = w.root /\ v.left = w.left /\ v.right = w.right
       /\ \A x \in Tree!Nodes : v.parent[x] = IF l # 0 /\ x = l THEN min ELSE w.parent[x]
  BY <1>2, <1>3, <1>10, <1>11 DEF Tree!Adopt, Tree!Trees, Tree!LEAF
<1> HIDE DEF v
<1>13. /\ f \in Tree!Trees /\ f.root = v.root /\ f.left = v.left /\ f.right = v.right
       /\ f.parent = v.parent
  BY <1>2, <1>12 DEF Tree!Paint, Tree!Trees
<1> HIDE DEF f
<1>14. /\ f.root = IF P = 0 THEN min ELSE s.root
       /\ \A x \in Tree!Nodes :
            /\ f.left[x] = IF x = min THEN l
                           ELSE IF P # 0 /\ x = P /\ d = s.left[P] THEN min ELSE p.left[x]
            /\ f.right[x] = IF P # 0 /\ x = P /\ d # s.left[P] THEN min ELSE p.right[x]
            /\ f.parent[x] = IF l # 0 /\ x = l THEN min ELSE IF x = min THEN P ELSE p.parent[x]
  BY <1>9, <1>11, <1>12, <1>13
<1>15. f.root = As(d, min, s.root)
  BY <1>3, <1>14 DEF As
<1>16. f.left[0] = 0 /\ f.right[0] = 0 /\ f.parent[0] = 0
  <2>1. 0 \in Tree!Nodes /\ 0 # min
    BY <1>2
  <2>2. p.left[0] = 0 /\ p.right[0] = 0 /\ p.parent[0] = 0
    BY <1>2, <1>5, <1>6
  <2> QED
    BY <1>14, <2>1, <2>2
<1>17. /\ f.left[min] = l /\ f.right[min] = r /\ f.parent[min] = P
  BY <1>1, <1>2, <1>3, <1>6, <1>14
<1>18. ASSUME NEW x \in N, x # d
       PROVE  /\ f.left[x] = As(d, min, s.left[x]) /\ f.right[x] = As(d, min, s.right[x])
              /\ f.parent[x] = As(d, min, s.parent[x])
  <2>1. x \in Tree!Nodes /\ x # min /\ x # 0
    BY <1>1, <1>2
  <2>2. f.left[x] = As(d, min, s.left[x])
    BY <1>3, <1>4, <1>6, <1>14, <1>18, <2>1 DEF As
  <2>3. f.right[x] = As(d, min, s.right[x])
    BY <1>3, <1>4, <1>6, <1>14, <1>18, <2>1 DEF As
  <2>4. f.parent[x] = As(d, min, s.parent[x])
    BY <1>3, <1>4, <1>6, <1>14, <1>18, <2>1 DEF As
  <2> QED
    BY <2>2, <2>3, <2>4
<1>19. ASSUME NEW x \in (N \ {d}) \cup {min}
       PROVE  LET y == As(min, d, x)
              IN /\ f.left[x] = As(d, min, s.left[y]) /\ f.right[x] = As(d, min, s.right[y])
                 /\ f.parent[x] = As(d, min, s.parent[y])
  <2>1. CASE x = min
    <3>1. As(min, d, x) = d
      BY <2>1 DEF As
    <3>2. As(d, min, l) = l /\ As(d, min, r) = r /\ As(d, min, P) = P
      BY <1>3 DEF As
    <3> QED
      BY <1>17, <2>1, <3>1, <3>2 DEF l, r, P
  <2>2. CASE x # min
    <3>1. x \in N /\ x # d /\ As(min, d, x) = x
      BY <2>2 DEF As
    <3> QED
      BY <1>18, <3>1
  <2> QED
    BY <2>1, <2>2
<1> HIDE DEF N
<1>20. Renamed(s, N, d, min, f)
  BY <1>12, <1>13, <1>15, <1>16, <1>19 DEF Renamed
<1> QED
  BY <1>20 DEF f, v, w, k, u, N

\* A deletion before its repair: t is the tree without d, temp the node that went up.
TakenOut(r, M, d) ==
  /\ r.temp \in (M \ {d}) \cup {0} /\ \E E : Shaped(r.t, E, M \ {d})
LEMMA DeletesNode ==
  ASSUME TreeKeys \in Nat, NEW t, NEW D, NEW M, Shaped(t, D, M), NEW d \in M, t.right[d] # 0
  PROVE  TakenOut(Tree!DeleteNode(t, d), M, d)
<1> DEFINE min == Tree!FirstNode(t, t.right[d])
           s == Tree!SwitchNodes(t, min, t.right[min])
           p == Tree!Promote(t, d, min)
           u == Tree!SwitchNodes(p, d, min)
           v == Tree!Adopt([u EXCEPT !.left[min] = u.left[d]], u.left[d], min)
           f == Tree!Paint(v, min, t.color[d])
           N == M \ {min}
<1>1. Tree!DeleteNode(t, d) = [t |-> f, temp |-> t.right[min], color |-> t.color[min]]
  BY DEF Tree!DeleteNode
<1>2. PICK E : Succession(t, D, M, d, min, s, E)
  BY Successions
<1>3. t.color[d] \in {"BLACK", "RED"}
  <2>1. t \in Tree!Trees
    BY DEF Shaped
  <2>2. d \in Tree!Nodes
    BY Kin
  <2> QED
    BY <2>1, <2>2, Fields
<1> HIDE DEF min
<1>4. Promoted(s, N, d, min, p)
  BY <1>2, Promotes
<1>5. Renamed(s, N, d, min, f)
  <2> HIDE DEF p, s
  <2> QED
    BY <1>2, <1>3, <1>4, DeleteRenames
<1> HIDE DEF f, s
<1>6. min \in M /\ d \in N /\ t.right[min] \in N \cup {0} /\ t.right[min] # d /\ Beside(N, min, d)
      /\ Shaped(s, E, N)
  BY <1>2 DEF Succession
<1>7. min \in 1 .. TreeKeys
  BY <1>6 DEF Shaped
<1>8. \E F : Shaped(f, F, (N \ {d}) \cup {min})
  BY <1>5, <1>6, <1>7, RenameKeeps
<1>9. (N \ {d}) \cup {min} = M \ {d}
  BY <1>6
<1> QED
  BY <1>1, <1>6, <1>8, <1>9 DEF TakenOut

LEMMA SwitchKeeps ==
  ASSUME TreeKeys \in Nat, NEW t, NEW D, NEW M, Shaped(t, D, M), NEW d \in M
  PROVE  TakenOut(Tree!DeleteCheckSwitch(t, d), M, d)
<1>1. t \in Tree!Trees /\ d \in Tree!Nodes /\ d # 0
  <2>1. t \in Tree!Trees
    BY DEF Shaped
  <2> QED
    BY <2>1, Kin
<1>2. ASSUME NEW b \in {t.left[d], t.right[d]}, {t.left[d], t.right[d]} \subseteq {b, 0},
             NEW c
      PROVE  TakenOut([t |-> Tree!SwitchNodes(t, d, b), temp |-> b, color |-> c], M, d)
  <2>1. b \in Tree!Nodes
    BY <1>1, Fields
  <2> DEFINE u == Tree!SwitchNodes(t, d, b)
  <2>2. Switched(t, d, b, u)
    BY <1>1, <2>1, Switches
  <2> HIDE DEF u
  <2>3. \E E : Shaped(u, E, M \ {d})
    BY <1>2, <2>2, SpliceKeeps
  <2>4. b \in (M \ {d}) \cup {0}
    <3>1. t.left[d] \in M \cup {0} /\ t.right[d] \in M \cup {0}
      BY Around
    <3>2. /\ t.left[d] # 0 => t.left[d] # d
          /\ t.right[d] # 0 => t.right[d] # d
      BY Kin
    <3> QED
      BY <3>1, <3>2
  <2> QED
    BY <2>3, <2>4 DEF TakenOut, u
<1>3. CASE t.left[d] = 0
  BY <1>2, <1>3 DEF Tree!DeleteCheckSwitch, Tree!LEAF
<1>4. CASE t.left[d] # 0 /\ t.right[d] = 0
  BY <1>2, <1>4 DEF Tree!DeleteCheckSwitch, Tree!LEAF
<1>5. CASE t.left[d] # 0 /\ t.right[d] # 0
  <2>1. Tree!DeleteCheckSwitch(t, d) = Tree!DeleteNode(t, d)
    BY <1>5 DEF Tree!DeleteCheckSwitch, Tree!LEAF
  <2> QED
    BY <1>5, <2>1, DeletesNode
<1> QED
  BY <1>3, <1>4, <1>5

LEMMA ResetKeeps ==
  ASSUME TreeKeys \in Nat, NEW t, NEW D, NEW M, Shaped(t, D, M), NEW d \in 1 .. TreeKeys, d \notin M
  PROVE  Shaped([t EXCEPT !.parent[d] = 0, !.left[d] = 0, !.right[d] = 0, !.color[d] = "BLACK"], D, M)
<1> DEFINE u == [t EXCEPT !.parent[d] = 0, !.left[d] = 0, !.right[d] = 0, !.color[d] = "BLACK"]
<1>1. t \in Tree!Trees /\ 0 \in Tree!Nodes /\ M \subseteq Tree!Nodes /\ d \in Tree!Nodes /\ d # 0
  BY DEF Shaped, Tree!Nodes
<1>2. /\ u \in Tree!Trees /\ u.root = t.root
      /\ \A x \in Tree!Nodes :
           /\ u.left[x] = IF x = d THEN 0 ELSE t.left[x]
           /\ u.right[x] = IF x = d THEN 0 ELSE t.right[x]
           /\ u.parent[x] = IF x = d THEN 0 ELSE t.parent[x]
  BY <1>1 DEF Tree!Trees
<1> HIDE DEF u
<1>3. \A x \in M \cup {0} : u.left[x] = t.left[x] /\ u.right[x] = t.right[x] /\ u.parent[x] = t.parent[x]
  BY <1>1, <1>2
<1>4. \A x \in M : Node(t, D, M, x) => Node(u, D, M, x)
  BY <1>2, <1>3 DEF Node
<1>5. Shaped(u, D, M)
  BY <1>2, <1>3, <1>4 DEF Shaped
<1> QED
  BY <1>5 DEF u

\* pico_tree_delete keeps the shape.
LEMMA DeleteKeeps ==
  ASSUME TreeKeys \in Nat, NEW t, NEW D, NEW M, Shaped(t, D, M), NEW d \in M
  PROVE  \E E : Shaped(Tree!DeleteKey(t, d), E, M \ {d})
<1> DEFINE s == Tree!DeleteCheckSwitch(t, d)
           u == IF s.color = "BLACK" THEN Tree!FixDeleteCollisions[<<s.t, s.temp>>] ELSE s.t
<1>1. Tree!DeleteKey(t, d) =
        [u EXCEPT !.parent[d] = 0, !.left[d] = 0, !.right[d] = 0, !.color[d] = "BLACK"]
  BY DEF Tree!DeleteKey, Tree!LEAF
<1>2. TakenOut(s, M, d)
  BY SwitchKeeps
<1> HIDE DEF s
<1>3. PICK E : Shaped(s.t, E, M \ {d})
  BY <1>2 DEF TakenOut
<1>4. PICK F : Shaped(u, F, M \ {d})
  <2>1. \E F : Shaped(Tree!FixDeleteCollisions[<<s.t, s.temp>>], F, M \ {d})
    BY <1>2, <1>3, FixDeleteKeeps DEF TakenOut
  <2> QED
    BY <1>3, <2>1
<1> HIDE DEF u
<1>5. d \in 1 .. TreeKeys
  BY DEF Shaped
<1>6. Shaped([u EXCEPT !.parent[d] = 0, !.left[d] = 0, !.right[d] = 0, !.color[d] = "BLACK"], F, M \ {d})
  BY <1>4, <1>5, ResetKeeps
<1> QED
  BY <1>1, <1>6

-----------------------------------------------------------------------------
(* RbTree: what is in the tree                                             *)

TreeInv == \E D : Shaped(tree, D, members)

LEMMA TreeInitially ==
  ASSUME TreeKeys \in Nat, Tree!Init
  PROVE  TreeInv
<1> DEFINE D == [x \in Tree!Nodes |-> {}]
<1>1. 0 \in Tree!Nodes
  BY DEF Tree!Nodes
<1>2. /\ tree \in Tree!Trees /\ tree.root = 0 /\ members = {}
      /\ tree.left[0] = 0 /\ tree.right[0] = 0 /\ tree.parent[0] = 0
  BY <1>1 DEF Tree!Init, Tree!Trees, Tree!LEAF
<1>3. Shaped(tree, D, members)
  BY <1>1, <1>2 DEF Shaped
<1> QED
  BY <1>3 DEF TreeInv

LEMMA TreeStep ==
  ASSUME TreeKeys \in Nat, TreeInv, [Tree!Next]_(Tree!vars)
  PROVE  TreeInv'
<1>1. PICK D : Shaped(tree, D, members)
  BY DEF TreeInv
<1>2. CASE UNCHANGED Tree!vars
  BY <1>1, <1>2 DEF TreeInv, Tree!vars
<1>3. ASSUME NEW key \in 1 .. TreeKeys, Tree!Insert(key) PROVE TreeInv'
  <2>1. key \notin members
    <3>1. Tree!FindNode(tree, key) = 0 /\ key # 0
      BY <1>3 DEF Tree!Insert, Tree!LEAF
    <3> QED
      BY <1>1, <3>1, Finds
  <2>2. \E E : Shaped(Tree!InsertNode(tree, key), E, members \cup {key})
    BY <1>1, <2>1, InsertKeeps
  <2> QED
    BY <1>3, <2>2 DEF Tree!Insert, TreeInv
<1>4. ASSUME NEW key \in 1 .. TreeKeys, Tree!Delete(key) PROVE TreeInv'
  <2>1. key \in members
    <3>1. Tree!FindNode(tree, key) = key /\ key # 0
      BY <1>4 DEF Tree!Delete
    <3> QED
      BY <1>1, <3>1, Finds
  <2>2. \E E : Shaped(Tree!DeleteKey(tree, key), E, members \ {key})
    BY <1>1, <2>1, DeleteKeeps
  <2> QED
    BY <1>4, <2>2 DEF Tree!Delete, TreeInv
<1> QED
  BY <1>2, <1>3, <1>4 DEF Tree!Next

LEMMA TreeMeans ==
  ASSUME TreeKeys \in Nat, TreeInv
  PROVE  Tree!MembersAreFound /\ Tree!WalkIsSorted
<1>1. PICK D : Shaped(tree, D, members)
  BY DEF TreeInv
<1>2. members \subseteq 1 .. TreeKeys /\ members \subseteq Int /\ 0 \notin members
  BY <1>1 DEF Shaped
<1>3. Tree!MembersAreFound
  <2>1. \A key \in 1 .. TreeKeys : Tree!FindNode(tree, key) = IF key \in members THEN key ELSE 0
    BY <1>1, Finds
  <2>2. \A key \in 1 .. TreeKeys : Tree!FindNode(tree, key) = key <=> key \in members
    BY <2>1
  <2> QED
    BY <1>2, <2>2 DEF Tree!MembersAreFound
<1>4. ASSUME members # {}
      PROVE  /\ Tree!Before(Tree!FirstNode(tree, tree.root)) = {}
             /\ Tree!After(Tree!LastNode(tree, tree.root)) = {}
  <2>1. tree.root \in members /\ D[tree.root] = members
    BY <1>1, <1>4 DEF Shaped
  <2>2. IsFirst(tree, D, tree.root, Tree!FirstNode(tree, tree.root))
    BY <1>1, <2>1, FirstIs
  <2>3. IsLast(tree, D, tree.root, Tree!LastNode(tree, tree.root))
    BY <1>1, <2>1, LastIs
  <2> QED
    BY <2>1, <2>2, <2>3 DEF IsFirst, IsLast, Tree!Before, Tree!After
<1>5. ASSUME NEW n \in members
      PROVE  LET m == Tree!NextNode(tree, n)
             IN IF m = 0 THEN Tree!After(n) = {}
                ELSE m \in Tree!After(n) /\ Tree!Before(m) \cap Tree!After(n) = {}
  <2> DEFINE m == Tree!NextNode(tree, n)
  <2>1. /\ m \in members \cup {0} /\ (m # 0 => m > n)
        /\ \A k \in members : k > n => m # 0 /\ ~(k < m)
    BY <1>1, NextIs
  <2> HIDE DEF m
  <2>2. m = 0 => Tree!After(n) = {}
    BY <2>1 DEF Tree!After
  <2>3. m # 0 => m \in Tree!After(n) /\ Tree!Before(m) \cap Tree!After(n) = {}
    BY <2>1 DEF Tree!After, Tree!Before
  <2> QED
    BY <2>2, <2>3 DEF m
<1>6. ASSUME NEW n \in members
      PROVE  LET m == Tree!PrevNode(tree, n)
             IN IF m = 0 THEN Tree!Before(n) = {}
                ELSE m \in Tree!Before(n) /\ Tree!After(m) \cap Tree!Before(n) = {}
  <2> DEFINE m == Tree!PrevNode(tree, n)
  <2>1. /\ m \in members \cup {0} /\ (m # 0 => m < n)
        /\ \A k \in members : k < n => m # 0 /\ ~(k > m)
    BY <1>1, PrevIs
  <2> HIDE DEF m
  <2>2. m = 0 => Tree!Before(n) = {}
    BY <2>1 DEF Tree!Before
  <2>3. m # 0 => m \in Tree!Before(n) /\ Tree!After(m) \cap Tree!Before(n) = {}
    BY <2>1 DEF Tree!After, Tree!Before
  <2> QED
    BY <2>2, <2>3 DEF m
<1>7. Tree!WalkIsSorted
  BY <1>4, <1>5, <1>6 DEF Tree!WalkIsSorted, Tree!LEAF
<1> QED
  BY <1>3, <1>7

-----------------------------------------------------------------------------
(* The containers in the composition                                       *)

LEMMA StepOfHeap ==
  ASSUME [Next]_vars
  PROVE  Heap!Next \/ UNCHANGED Heap!vars
<1>1. CASE Next /\ part = "heap"
  BY <1>1 DEF Next
<1>2. CASE Next /\ part # "heap"
  BY <1>2 DEF Next, heapVars, Heap!vars
<1>3. CASE UNCHANGED vars
  BY <1>3 DEF vars, heapVars, Heap!vars
<1> QED
  BY <1>1, <1>2, <1>3

LEMMA StepOfQueue ==
  ASSUME [Next]_vars
  PROVE  Queue!Next \/ UNCHANGED Queue!vars
<1>1. CASE Next /\ part = "queue"
  BY <1>1 DEF Next
<1>2. CASE Next /\ part # "queue"
  BY <1>2 DEF Next, queueVars, Queue!vars
<1>3. CASE UNCHANGED vars
  BY <1>3 DEF vars, queueVars, Queue!vars
<1> QED
  BY <1>1, <1>2, <1>3

LEMMA StepOfTree ==
  ASSUME [Next]_vars
  PROVE  Tree!Next \/ UNCHANGED Tree!vars
<1>1. CASE Next /\ part = "tree"
  BY <1>1 DEF Next
<1>2. CASE Next /\ part # "tree"
  BY <1>2 DEF Next, treeVars, Tree!vars
<1>3. CASE UNCHANGED vars
  BY <1>3 DEF vars, treeVars, Tree!vars
<1> QED
  BY <1>1, <1>2, <1>3

\* Whatever timers are added and cancelled, by the functions of other timers too: a
\* timer that runs is past its time, and none was due before it (heap.h, pico_stack.c).
THEOREM TimersRunInOrder ==
  ASSUME Delaying
  PROVE  Spec => FiresInOrder
<1>1. Init => HeapInv
  BY HeapInitially DEF Init
<1>2. HeapInv /\ [Next]_vars => HeapInv'
  BY StepOfHeap, HeapStep
<1>3. HeapInv /\ [Next]_vars =>
        [\A r \in Heap!Armed : r.id \in fired' \ fired =>
           r.expire < clock /\ \A s \in Heap!Armed : r.expire <= s.expire]_(Heap!vars)
  BY StepOfHeap, TopRuns
<1> QED
  BY <1>1, <1>2, <1>3, PTL DEF Spec, FiresInOrder, Heap!FiresInOrder

\* However many timers, frames and keys come and go: a timer that was added is in the
\* heap once, ran or was cancelled; a key that was inserted and not deleted is found,
\* and the walks over the tree come to every key once, in order; the frames of a queue
\* stay within its limit, and an empty one takes what is not itself too long
\* (heap.h, pico_tree.c, pico_queue.h).
THEOREM NothingIsMislaid ==
  ASSUME Delaying, QueueFits, TreeKeys \in Nat
  PROVE  Spec => []ContainersKeepAll
<1> DEFINE Kept == HeapInv /\ Summed(frameQueue) /\ TreeInv
<1>1. Init => Kept
  BY HeapInitially, QueueInitially, TreeInitially DEF Init
<1>2. Kept /\ [Next]_vars => Kept'
  BY StepOfHeap, StepOfQueue, StepOfTree, HeapStep, QueueStep, TreeStep
<1>3. Kept => ContainersKeepAll
  BY HeapMeans, QueueMeans, TreeMeans DEF ContainersKeepAll
<1> QED
  BY <1>1, <1>2, <1>3, PTL DEF Spec
=============================================================================
