------------------------ MODULE MgmtChannel_proofs ------------------------
(***************************************************************************)
(* Proofs about MgmtChannel, for any number of calls, any commands and any *)
(* way recv() cuts the stream.  If one thread owns the socket, as when one *)
(* front end is started and serves one request at a time, a response is    *)
(* that of its command and the histories pair the two; with two threads    *)
(* this is false (run MgmtMixedUp).  The sole owner gets the service that  *)
(* MgmtService promises: the refinement stands at the end.  What is left   *)
(* for any number of threads: the socket is quiet between calls, and each  *)
(* history has the command of a call before its response.                  *)
(***************************************************************************)
EXTENDS MgmtChannel, SequenceTheorems, FiniteSetTheorems, WellFoundedInduction, TLAPS

-----------------------------------------------------------------------------
(* Responses                                                               *)

\* The locals x of get_response after k lines of the response to r, the
\* status line not being one of them.
Progress(x, r, k) ==
  /\ x.text = IF k < 2 THEN <<>> ELSE << Line(r.id, DataKind(r)) >>
  /\ x.status = NoStatus
  /\ x.end_char <=> k # 0
  /\ x.is_end <=> k = 3

\* How many lines get_response may have consumed while it reads on.
Consumed(r) == IF HasData(r) THEN 0..3 ELSE {0}

LEMMA RequestFacts ==
  ASSUME NEW r \in Requests
  PROVE  /\ r.id \in 1..MaxCalls
         /\ r.id # NoStatus
         /\ HasData(r) \in BOOLEAN
         /\ DataKind(r) \in {"data", "row"}
         /\ r # NoRequest
BY CallsAssumption DEF Requests, NoStatus, HasData, DataKind, NoRequest

\* The lines of a response: three of data before the status line, or none.
LEMMA ResponseLines ==
  ASSUME NEW r \in Requests
  PROVE  /\ Response(r) \in Seq(Lines)
         /\ HasData(r) => /\ Len(Response(r)) = 4
                          /\ Response(r)[1] = Line(r.id, "begin")
                          /\ Response(r)[2] = Line(r.id, DataKind(r))
                          /\ Response(r)[3] = Line(r.id, "end")
                          /\ Response(r)[4] = Line(r.id, "status")
         /\ ~HasData(r) => /\ Len(Response(r)) = 1
                           /\ Response(r)[1] = Line(r.id, "status")
<1>1. \A k \in {"begin", "data", "row", "end", "status"} : Line(r.id, k) \in Lines
  BY RequestFacts, CallsAssumption DEF Line, Lines
<1>2. CASE HasData(r)
  BY <1>1, <1>2, RequestFacts DEF Response
<1>3. CASE ~HasData(r)
  BY <1>1, <1>3 DEF Response
<1> QED
  BY <1>2, <1>3

LEMMA ProgressFacts ==
  ASSUME NEW r \in Requests, NEW k \in 0..3, NEW x, Progress(x, r, k)
  PROVE  /\ \A i \in DOMAIN x.text : x.text[i].id = r.id
         /\ x.text # <<>> <=> k >= 2
<1>1. Line(r.id, DataKind(r)).id = r.id
  BY DEF Line
<1> QED
  BY <1>1 DEF Progress

\* The three lines that get_response consumes before the status line.
LEMMA ProgressSteps ==
  ASSUME NEW r \in Requests, NEW x \in Responses
  PROVE  /\ Progress(Empty, r, 0)
         /\ Progress(x, r, 0) => Progress(BeginSeen(x), r, 1)
         /\ Progress(x, r, 1) => Progress(Keep(x, Line(r.id, DataKind(r))), r, 2)
         /\ Progress(x, r, 2) => Progress(EndSeen(x), r, 3)
<1>1. Progress(Empty, r, 0)
  BY DEF Progress, Empty
<1>2. ASSUME Progress(x, r, 0) PROVE Progress(BeginSeen(x), r, 1)
  BY <1>2 DEF Progress, BeginSeen, Responses
<1>3. ASSUME Progress(x, r, 1) PROVE Progress(Keep(x, Line(r.id, DataKind(r))), r, 2)
  <2>1. ~x.is_end
    BY <1>3 DEF Progress
  <2>2. Keep(x, Line(r.id, DataKind(r)))
          = [x EXCEPT !.text = Append(x.text, Line(r.id, DataKind(r)))]
    BY <2>1 DEF Keep
  <2> QED
    BY <1>3, <2>2 DEF Progress, Responses
<1>4. ASSUME Progress(x, r, 2) PROVE Progress(EndSeen(x), r, 3)
  BY <1>4 DEF Progress, EndSeen, Responses
<1> QED
  BY <1>1, <1>2, <1>3, <1>4

\* Once get_response has returned, nobody waits.
After == {"rows", "return", "html_cmd", "html_res"}
LEMMA AfterFacts ==
  ASSUME NEW r \in Requests, NEW text
  PROVE  AfterResponse(r, text) \in After
BY DEF AfterResponse, AfterText, After, Requests

-----------------------------------------------------------------------------
(* Types of the socket, the threads and get_response, for any threads *)

ChannelTypes ==
  /\ toSwitch \in Seq(Requests)
  /\ fromSwitch \in Seq(Lines)
  /\ calls \in Nat
  /\ pc \in [Clients -> PCs]
  /\ req \in [Clients -> Requests \cup {NoRequest}]
  /\ buffer \in [Clients -> Seq(Lines)]
  /\ resp \in [Clients -> Responses]
  /\ result \in [Clients -> Responses]
  /\ \A c \in Clients : pc[c] # "idle" => req[c] \in Requests

LEMMA EmptyIsResponse == Empty \in Responses
BY CallsAssumption DEF Empty, Responses, NoStatus

LEMMA TypesStart == Init => ChannelTypes
BY EmptyIsResponse DEF Init, ChannelTypes, PCs

LEMMA SwitchTypes ==
  ASSUME ChannelTypes, SwitchAnswers \/ SwitchCloses
  PROVE  ChannelTypes'
<1> USE DEF ChannelTypes
<1>1. CASE SwitchAnswers
  <2>1. PICK n \in 1..Len(toSwitch) :
          /\ fromSwitch' = fromSwitch \o (IF n = 1 THEN Response(Head(toSwitch))
                                                   ELSE << Line(0, "status") >>)
          /\ toSwitch' = SubSeq(toSwitch, n + 1, Len(toSwitch))
          /\ UNCHANGED <<closed, calls, threads, shared>>
    BY <1>1 DEF SwitchAnswers
  <2>2. toSwitch # <<>>
    BY <2>1
  <2>3. Response(Head(toSwitch)) \in Seq(Lines)
    BY <2>2, HeadTailProperties, ResponseLines
  <2>4. << Line(0, "status") >> \in Seq(Lines)
    BY CallsAssumption DEF Line, Lines
  <2>5. fromSwitch' \in Seq(Lines)
    BY <2>1, <2>3, <2>4, ConcatProperties
  <2>6. toSwitch' \in Seq(Requests)
    BY <2>1, ElementOfSeq, SubSeqProperties, LenProperties
  <2> QED
    BY <2>1, <2>5, <2>6 DEF threads
<1>2. CASE SwitchCloses
  <2>1. toSwitch' = <<>> /\ UNCHANGED <<calls, threads, shared>>
    BY <1>2 DEF SwitchCloses
  <2>2. fromSwitch' \in Seq(Lines)
    <3>1. CASE UNCHANGED fromSwitch
      BY <3>1
    <3>2. ASSUME toSwitch # <<>>,
                 NEW n \in 1..Len(Response(Head(toSwitch))) - 1,
                 fromSwitch' = fromSwitch \o SubSeq(Response(Head(toSwitch)), 1, n)
          PROVE  fromSwitch' \in Seq(Lines)
      <4>1. Response(Head(toSwitch)) \in Seq(Lines)
        BY <3>2, HeadTailProperties, ResponseLines
      <4>2. SubSeq(Response(Head(toSwitch)), 1, n) \in Seq(Lines)
        BY <4>1, ElementOfSeq, SubSeqProperties, LenProperties
      <4> QED
        BY <3>2, <4>2, ConcatProperties
    <3> QED
      BY <1>2, <3>1, <3>2 DEF SwitchCloses
  <2> QED
    BY <2>1, <2>2 DEF threads
<1> QED
  BY <1>1, <1>2

\* The text that ParseLine extends, and the buffer it takes a line from.
LEMMA ParseTypes ==
  ASSUME ChannelTypes, NEW c \in Clients, ParseLine(c)
  PROVE  ChannelTypes'
<1> USE DEF ChannelTypes
<1> DEFINE line == Head(buffer[c])
<1>1. /\ buffer[c] \in Seq(Lines) /\ buffer[c] # <<>>
      /\ resp[c] \in Responses /\ req[c] \in Requests
      /\ UNCHANGED <<toSwitch, fromSwitch, calls, req, result>>
  BY DEF ParseLine, queues
<1>2. line \in Lines /\ Tail(buffer[c]) \in Seq(Lines) /\ <<>> \in Seq(Lines)
  BY <1>1, HeadTailProperties, EmptySeq
<1>3. resp[c].text \in Seq(Lines) /\ Append(resp[c].text, line) \in Seq(Lines)
  BY <1>1, <1>2 DEF Responses
<1>4. line.id \in 0..NoStatus
  BY <1>2, CallsAssumption DEF Lines, NoStatus
<1>5. /\ BeginSeen(resp[c]) \in Responses
      /\ EndSeen(resp[c]) \in Responses
      /\ Keep(resp[c], line) \in Responses
  BY <1>1, <1>3 DEF Responses, BeginSeen, EndSeen, Keep
<1>6. [resp[c] EXCEPT !.status = line.id] \in Responses
  BY <1>1, <1>4 DEF Responses
<1>7. AfterResponse(req[c], resp[c].text) \in PCs
  BY <1>1, AfterFacts DEF After, PCs
<1>8. ASSUME NEW x \in Responses, Consume(c, x) PROVE ChannelTypes'
  BY <1>1, <1>2, <1>8 DEF Consume
<1>9. ASSUME Finish(c, line.id) PROVE ChannelTypes'
  BY <1>1, <1>2, <1>6, <1>7, <1>9 DEF Finish
<1>10. \/ Finish(c, line.id)
       \/ \E x \in {BeginSeen(resp[c]), EndSeen(resp[c]), Keep(resp[c], line)} :
            Consume(c, x)
  BY Zenon DEF ParseLine
<1> QED
  BY <1>5, <1>8, <1>9, <1>10

LEMMA ThreadTypes ==
  ASSUME ChannelTypes, NEW c \in Clients,
         send(c) \/ showinfo(c) \/ list_commands(c) \/ Step(c)
  PROVE  ChannelTypes'
<1> USE DEF ChannelTypes, PCs
<1>1. ASSUME NEW r \in Requests, SendRequest(c, r) PROVE ChannelTypes'
  <2>1. toSwitch' \in Seq(Requests)
    BY <1>1 DEF SendRequest
  <2>2. UNCHANGED <<fromSwitch, buffer, result>> /\ calls' \in Nat
    BY <1>1 DEF SendRequest
  <2>3. req' \in [Clients -> Requests \cup {NoRequest}]
    BY <1>1 DEF SendRequest
  <2>4. pc' \in [Clients -> PCs] /\ resp' \in [Clients -> Responses]
    BY <1>1, EmptyIsResponse DEF SendRequest
  <2>5. \A d \in Clients : pc'[d] # "idle" => req'[d] \in Requests
    BY <1>1 DEF SendRequest
  <2> QED
    BY <2>1, <2>2, <2>3, <2>4, <2>5
<1>2. CASE send(c) \/ showinfo(c) \/ list_commands(c)
  BY <1>1, <1>2 DEF send, showinfo, list_commands
<1>3. CASE Recv(c)
  <2>1. /\ pc[c] = "recv" /\ req[c] \in Requests
        /\ UNCHANGED <<toSwitch, calls, req, resp, result>>
    BY <1>3 DEF Recv
  <2>2. ASSUME NEW n \in 1..Len(fromSwitch),
               buffer' = [buffer EXCEPT ![c] = SubSeq(fromSwitch, 1, n)],
               fromSwitch' = SubSeq(fromSwitch, n + 1, Len(fromSwitch)),
               pc' = [pc EXCEPT ![c] = "parse"]
        PROVE  ChannelTypes'
    <3>1. /\ SubSeq(fromSwitch, 1, n) \in Seq(Lines)
          /\ SubSeq(fromSwitch, n + 1, Len(fromSwitch)) \in Seq(Lines)
      BY ElementOfSeq, SubSeqProperties, LenProperties
    <3> QED
      BY <2>1, <2>2, <3>1
  <2>3. ASSUME pc' = [pc EXCEPT ![c] = AfterResponse(req[c], resp[c].text)],
               UNCHANGED <<fromSwitch, buffer>>
        PROVE  ChannelTypes'
    BY <2>1, <2>3, AfterFacts DEF After
  <2> QED
    BY <1>3, <2>2, <2>3 DEF Recv
<1>4. CASE ReadMore(c)
  BY <1>4 DEF ReadMore, queues
<1>5. CASE add_history(c)
  BY <1>5 DEF add_history, AppendHtml, AppendHistory, AfterText, queues
<1>6. CASE AddRows(c)
  BY <1>6 DEF AddRows, queues
<1>7. CASE Return(c)
  BY <1>7 DEF Return, queues
<1> QED
  BY <1>2, <1>3, <1>4, <1>5, <1>6, <1>7, ParseTypes DEF Step

LEMMA TypesHold == Spec => []ChannelTypes
<1>1. ChannelTypes /\ UNCHANGED vars => ChannelTypes'
  BY DEF ChannelTypes, vars, queues, threads
<1>2. ChannelTypes /\ [Next]_vars => ChannelTypes'
  BY <1>1, SwitchTypes, ThreadTypes DEF Next
<1> QED
  BY <1>2, TypesStart, PTL DEF Spec

-----------------------------------------------------------------------------
(* One thread owns the socket *)

\* Its command waits for the switch, or is empty and nobody will answer.
Sent(c) == /\ toSwitch = IF req[c].cmd = Blank THEN <<>> ELSE << req[c] >>
           /\ ~closed
           /\ fromSwitch = <<>> /\ buffer[c] = <<>> /\ resp[c] = Empty

\* What is in its buffer and still on the socket is the rest of the response
\* to its command, of which it has consumed k lines; when the switch has
\* closed, the end of it may be missing.
Rest(c, k) ==
  LET lines == Response(req[c])
      held == Len(buffer[c])
  IN /\ k + held + Len(fromSwitch) <= Len(lines)
     /\ closed \/ k + held + Len(fromSwitch) = Len(lines)
     /\ \A i \in 1..held : buffer[c][i] = lines[k + i]
     /\ \A i \in 1..Len(fromSwitch) : fromSwitch[i] = lines[k + held + i]
Answering(c) == /\ toSwitch = <<>>
                /\ \E k \in Consumed(req[c]) :
                     Progress(resp[c], req[c], k) /\ Rest(c, k)

\* A response that may be returned.
Good(x, r) == Belongs(x, r) /\ (x.status = NoStatus => closed)

SoleInv(c) ==
  /\ closed => toSwitch = <<>>
  /\ pc[c] # "parse" => buffer[c] = <<>>
  /\ Waiting(c) => Sent(c) \/ Answering(c)
  /\ ~Waiting(c) => toSwitch = <<>> /\ fromSwitch = <<>>
  /\ ~Waiting(c) /\ pc[c] # "idle" => Good(resp[c], req[c])
  /\ pc[c] = "idle" /\ req[c] # NoRequest => Good(result[c], req[c])

LEMMA SoleStart ==
  ASSUME NEW c \in Clients, Init
  PROVE  SoleInv(c)
BY DEF Init, SoleInv, Waiting

\* A response cut short is still one of its command.
LEMMA CutIsGood ==
  ASSUME NEW r \in Requests, NEW k \in 0..3, NEW x, Progress(x, r, k), closed
  PROVE  Good(x, r)
BY ProgressFacts, RequestFacts DEF Good, Belongs, Progress

\* The switch reads the command of the only thread, and answers it.
LEMMA SoleAnswered ==
  ASSUME NEW c \in Clients, ChannelTypes, SoleInv(c), SwitchAnswers
  PROVE  SoleInv(c)'
<1>1. PICK n \in 1..Len(toSwitch) :
        /\ fromSwitch' = fromSwitch \o (IF n = 1 THEN Response(Head(toSwitch))
                                                 ELSE << Line(0, "status") >>)
        /\ toSwitch' = SubSeq(toSwitch, n + 1, Len(toSwitch))
        /\ UNCHANGED <<closed, calls, pc, req, buffer, resp, result>>
  BY DEF SwitchAnswers, threads
<1>2. toSwitch \in Seq(Requests) /\ toSwitch # <<>>
  BY <1>1 DEF ChannelTypes
<1>3. Waiting(c) /\ Sent(c)
  BY <1>2 DEF SoleInv, Answering
<1>4. toSwitch = << req[c] >> /\ req[c] \in Requests
  BY <1>2, <1>3 DEF Sent, Waiting, ChannelTypes
<1>5. n = 1 /\ Head(toSwitch) = req[c] /\ toSwitch' = <<>>
  <2>1. Len(toSwitch) = 1 /\ Head(toSwitch) = req[c]
    BY <1>4
  <2>2. n = 1
    BY <1>1, <2>1
  <2> QED
    BY <1>1, <2>1, <2>2, SubSeqEmpty
<1>6. fromSwitch' = Response(req[c])
  <2>1. Response(req[c]) \in Seq(Lines) /\ fromSwitch = <<>>
    BY <1>3, <1>4, ResponseLines DEF Sent
  <2> QED
    BY <1>1, <1>5, <2>1, ConcatEmptySeq
<1>7. Rest(c, 0)'
  <2>1. Response(req[c]) \in Seq(Lines)
    BY <1>4, ResponseLines
  <2>2. buffer'[c] = <<>> /\ req'[c] = req[c]
    BY <1>1, <1>3 DEF Sent
  <2> QED
    BY <1>6, <2>1, <2>2 DEF Rest
<1>8. Answering(c)'
  <2>1. 0 \in Consumed(req[c]) /\ Progress(resp[c], req[c], 0)
    BY <1>3, <1>4, ProgressSteps, EmptyIsResponse DEF Sent, Consumed
  <2> QED
    BY <1>1, <1>5, <1>7, <2>1 DEF Answering
<1> QED
  BY <1>1, <1>3, <1>5, <1>8 DEF SoleInv, Waiting

\* The switch terminates: what it has written stays a beginning of the rest.
LEMMA SoleClosed ==
  ASSUME NEW c \in Clients, ChannelTypes, SoleInv(c), SwitchCloses
  PROVE  SoleInv(c)'
<1>1. /\ closed' = TRUE /\ ~closed /\ toSwitch' = <<>>
      /\ UNCHANGED <<pc, req, buffer, resp, result>>
      /\ toSwitch = <<>> => UNCHANGED fromSwitch
  BY DEF SwitchCloses, threads
<1>2. CASE ~Waiting(c)
  BY <1>1, <1>2 DEF SoleInv, Waiting, Good
<1>3. CASE Waiting(c)
  <2> req[c] \in Requests
    BY <1>3 DEF Waiting, ChannelTypes
  <2>1. Answering(c)'
    <3>1. CASE Answering(c)
      <4>1. fromSwitch' = fromSwitch
        BY <1>1, <3>1 DEF Answering
      <4> QED
        BY <1>1, <3>1, <4>1 DEF Answering, Rest
    <3>2. CASE Sent(c)
      <4>1. 0 \in Consumed(req[c]) /\ Progress(resp[c], req[c], 0)
        BY <3>2, ProgressSteps, EmptyIsResponse DEF Sent, Consumed
      <4>2. buffer[c] = <<>> /\ fromSwitch = <<>>
        BY <3>2 DEF Sent
      <4>3. Response(req[c]) \in Seq(Lines) /\ Len(Response(req[c])) \in Nat
        BY ResponseLines, LenProperties
      <4>4. CASE UNCHANGED fromSwitch
        BY <1>1, <4>1, <4>2, <4>3, <4>4 DEF Answering, Rest
      <4>5. ASSUME toSwitch # <<>>,
                   NEW n \in 1..Len(Response(Head(toSwitch))) - 1,
                   fromSwitch' = fromSwitch \o SubSeq(Response(Head(toSwitch)), 1, n)
            PROVE  Answering(c)'
        <5>1. Head(toSwitch) = req[c]
          BY <3>2, <4>5 DEF Sent
        <5>2. n \in Int /\ 1 <= n /\ n < Len(Response(req[c]))
          BY <4>3, <4>5, <5>1
        <5>3. \A i \in 1..n : Response(req[c])[i] \in Lines
          BY <4>3, <5>2, ElementOfSeq
        <5>4. /\ SubSeq(Response(req[c]), 1, n) \in Seq(Lines)
              /\ Len(SubSeq(Response(req[c]), 1, n)) = n
              /\ \A i \in 1..n : SubSeq(Response(req[c]), 1, n)[i] = Response(req[c])[i]
          BY <5>2, <5>3, SubSeqProperties
        <5>5. fromSwitch' = SubSeq(Response(req[c]), 1, n)
          BY <4>2, <4>5, <5>1, <5>4, ConcatEmptySeq
        <5>6. Rest(c, 0)'
          BY <1>1, <4>2, <4>3, <5>2, <5>4, <5>5 DEF Rest
        <5> QED
          BY <1>1, <4>1, <5>6 DEF Answering
      <4> QED
        BY <4>4, <4>5 DEF SwitchCloses
    <3> QED
      BY <1>3, <3>1, <3>2 DEF SoleInv
  <2> QED
    BY <1>1, <1>3, <2>1 DEF SoleInv, Waiting
<1> QED
  BY <1>2, <1>3

\* A call starts on a quiet socket.
LEMMA SoleAsks ==
  ASSUME NEW c \in Clients, ChannelTypes, SoleInv(c),
         NEW r \in Requests, SendRequest(c, r)
  PROVE  SoleInv(c)'
<1>1. /\ pc[c] = "idle" /\ toSwitch = <<>> /\ fromSwitch = <<>> /\ buffer[c] = <<>>
      /\ UNCHANGED <<fromSwitch, closed, buffer, result>>
  BY DEF SendRequest, SoleInv, Waiting
<1>2. /\ req'[c] = r /\ resp'[c] = Empty
      /\ pc'[c] = IF closed THEN "return" ELSE "recv"
      /\ toSwitch' = IF closed \/ r.cmd = Blank THEN <<>> ELSE << r >>
  BY <1>1 DEF SendRequest, ChannelTypes
<1>3. CASE closed
  <2>1. Good(Empty, r)
    BY <1>3, CutIsGood, ProgressSteps, EmptyIsResponse
  <2> QED
    BY <1>1, <1>2, <1>3, <2>1 DEF SoleInv, Waiting, Good
<1>4. CASE ~closed
  BY <1>1, <1>2, <1>4 DEF SoleInv, Waiting, Sent
<1> QED
  BY <1>3, <1>4

\* recv() moves a beginning of what is on the socket into the buffer, or
\* returns nothing at the end of the stream.
LEMMA SoleReceives ==
  ASSUME NEW c \in Clients, ChannelTypes, SoleInv(c), Recv(c)
  PROVE  SoleInv(c)'
<1>1. /\ pc[c] = "recv" /\ Waiting(c) /\ req[c] \in Requests /\ buffer[c] = <<>>
      /\ UNCHANGED <<toSwitch, closed, calls, req, resp, result>>
  BY DEF Recv, Waiting, SoleInv, ChannelTypes
<1>2. ASSUME NEW n \in 1..Len(fromSwitch),
             buffer' = [buffer EXCEPT ![c] = SubSeq(fromSwitch, 1, n)],
             fromSwitch' = SubSeq(fromSwitch, n + 1, Len(fromSwitch)),
             pc' = [pc EXCEPT ![c] = "parse"]
      PROVE  SoleInv(c)'
  <2>1. fromSwitch \in Seq(Lines) /\ Len(fromSwitch) \in Nat /\ fromSwitch # <<>>
    BY <1>2, LenProperties DEF ChannelTypes
  <2>2. \A i \in 1..Len(fromSwitch) : fromSwitch[i] \in Lines
    BY <2>1, ElementOfSeq
  <2>3. /\ Len(SubSeq(fromSwitch, 1, n)) = n
        /\ \A i \in 1..n : SubSeq(fromSwitch, 1, n)[i] = fromSwitch[i]
    BY <2>1, <2>2, SubSeqProperties
  <2>4. /\ Len(SubSeq(fromSwitch, n + 1, Len(fromSwitch))) = Len(fromSwitch) - n
        /\ \A i \in 1..Len(fromSwitch) - n :
             SubSeq(fromSwitch, n + 1, Len(fromSwitch))[i] = fromSwitch[n + i]
    BY <2>1, <2>2, SubSeqProperties
  <2>5. Answering(c)
    BY <1>1, <2>1 DEF SoleInv, Sent
  <2>6. PICK k \in Consumed(req[c]) : Progress(resp[c], req[c], k) /\ Rest(c, k)
    BY <2>5 DEF Answering
  <2>7. k \in Nat /\ Response(req[c]) \in Seq(Lines) /\ Len(Response(req[c])) \in Nat
    BY <1>1, ResponseLines, LenProperties DEF Consumed
  <2>8. buffer'[c] = SubSeq(fromSwitch, 1, n)
    BY <1>2 DEF ChannelTypes
  <2>9. Rest(c, k)'
    <3>1. /\ k + Len(fromSwitch) <= Len(Response(req[c]))
          /\ closed \/ k + Len(fromSwitch) = Len(Response(req[c]))
          /\ \A i \in 1..Len(fromSwitch) : fromSwitch[i] = Response(req[c])[k + i]
      <4> DEFINE got == Len(buffer[c])
      <4>1. got = 0
        BY <1>1
      <4>2. /\ k + got + Len(fromSwitch) <= Len(Response(req[c]))
            /\ closed \/ k + got + Len(fromSwitch) = Len(Response(req[c]))
            /\ \A i \in 1..Len(fromSwitch) : fromSwitch[i] = Response(req[c])[k + got + i]
        BY <2>6, Zenon DEF Rest
      <4>3. k + got = k
        BY <2>7, <4>1
      <4> HIDE DEF got
      <4> QED
        BY <4>2, <4>3
    <3> DEFINE held == Len(buffer'[c])
               left == Len(fromSwitch')
    <3>2. held = n /\ left = Len(fromSwitch) - n
      BY <1>2, <2>3, <2>4, <2>8
    <3>3. \A i \in 1..held : buffer'[c][i] = Response(req[c])[k + i]
      BY <2>1, <2>3, <2>8, <3>1, <3>2
    <3>4. \A i \in 1..left : fromSwitch'[i] = Response(req[c])[k + held + i]
      <4> SUFFICES ASSUME NEW i \in 1..left
                   PROVE  fromSwitch'[i] = Response(req[c])[k + held + i]
        OBVIOUS
      <4>1. fromSwitch'[i] = fromSwitch[n + i]
        BY <1>2, <2>4, <3>2
      <4>2. n + i \in 1..Len(fromSwitch) /\ k + held + i = k + (n + i)
        BY <2>1, <2>7, <3>2
      <4> QED
        BY <3>1, <4>1, <4>2
    <3>5. k + held + left = k + Len(fromSwitch)
      BY <2>1, <2>7, <3>2
    <3>6. /\ k + held + left <= Len(Response(req[c]))
          /\ closed \/ k + held + left = Len(Response(req[c]))
      BY <3>1, <3>5, Zenon
    <3> QED
      BY <1>1, <3>3, <3>4, <3>6 DEF Rest
  <2>10. Answering(c)'
    BY <1>1, <2>5, <2>6, <2>9 DEF Answering
  <2>11. pc'[c] = "parse"
    BY <1>2 DEF ChannelTypes
  <2> QED
    BY <1>1, <2>10, <2>11 DEF SoleInv, Waiting
<1>3. ASSUME fromSwitch = <<>>, closed, UNCHANGED <<fromSwitch, buffer>>,
             pc' = [pc EXCEPT ![c] = AfterResponse(req[c], resp[c].text)]
      PROVE  SoleInv(c)'
  <2>1. toSwitch = <<>> /\ Answering(c)
    BY <1>1, <1>3 DEF SoleInv, Sent
  <2>2. PICK k \in Consumed(req[c]) : Progress(resp[c], req[c], k)
    BY <2>1 DEF Answering
  <2>3. Good(resp[c], req[c])
    BY <1>1, <1>3, <2>2, CutIsGood DEF Consumed
  <2>4. pc'[c] \in After
    BY <1>1, <1>3, AfterFacts DEF ChannelTypes
  <2>5. ~Waiting(c)' /\ pc'[c] # "idle" /\ pc'[c] # "parse"
    BY <2>4 DEF Waiting, After
  <2> QED
    BY <1>1, <1>3, <2>1, <2>3, <2>5 DEF SoleInv, Good
<1> QED
  BY <1>2, <1>3 DEF Recv

\* get_response takes the line it expects next: it has consumed one line more,
\* or it has seen the status line, and nothing is left.
LEMMA SoleParses ==
  ASSUME NEW c \in Clients, ChannelTypes, SoleInv(c), ParseLine(c)
  PROVE  SoleInv(c)'
<1>1. /\ pc[c] = "parse" /\ Waiting(c) /\ req[c] \in Requests
      /\ buffer[c] # <<>> /\ buffer[c] \in Seq(Lines)
      /\ UNCHANGED <<toSwitch, fromSwitch, closed, req, result>>
  BY DEF ParseLine, Waiting, ChannelTypes, queues
<1>2. Answering(c)
  BY <1>1 DEF SoleInv, Sent
<1>3. PICK k \in Consumed(req[c]) : Progress(resp[c], req[c], k) /\ Rest(c, k)
  BY <1>2 DEF Answering
<1> DEFINE lines == Response(req[c])
           line == Head(buffer[c])
<1>4. /\ Len(buffer[c]) \in Nat \ {0} /\ Len(fromSwitch) \in Nat
      /\ line = buffer[c][1]
      /\ Tail(buffer[c]) \in Seq(Lines)
      /\ Len(Tail(buffer[c])) = Len(buffer[c]) - 1
      /\ \A i \in 1..Len(Tail(buffer[c])) : Tail(buffer[c])[i] = buffer[c][i + 1]
  BY <1>1, HeadTailProperties, EmptySeq, LenProperties DEF ChannelTypes
<1>5. /\ line = lines[k + 1]
      /\ k + Len(buffer[c]) + Len(fromSwitch) <= Len(lines)
      /\ k \in 0..3
  BY <1>3, <1>4 DEF Rest, Consumed
<1>6. HasData(req[c]) \in BOOLEAN /\ DataKind(req[c]) \in {"data", "row"}
  BY <1>1, RequestFacts
<1>7. ASSUME k + 1 \in Consumed(req[c]), NEW x, Progress(x, req[c], k + 1),
             Consume(c, x)
      PROVE  SoleInv(c)'
  <2>1. resp'[c] = x /\ buffer'[c] = Tail(buffer[c]) /\ pc' = pc
    BY <1>7 DEF Consume, ChannelTypes
  <2>2. Rest(c, k + 1)'
    <3>1. \A i \in 1..Len(Tail(buffer[c])) : Tail(buffer[c])[i] = lines[(k + 1) + i]
      <4> SUFFICES ASSUME NEW i \in 1..Len(Tail(buffer[c]))
                   PROVE  Tail(buffer[c])[i] = lines[(k + 1) + i]
        OBVIOUS
      <4>1. i + 1 \in 1..Len(buffer[c]) /\ k + (i + 1) = (k + 1) + i
        BY <1>4, <1>5
      <4> QED
        BY <1>3, <1>4, <4>1 DEF Rest
    <3>2. (k + 1) + Len(Tail(buffer[c])) = k + Len(buffer[c])
      <4> DEFINE held == Len(buffer[c])
                 rest == Len(Tail(buffer[c]))
      <4>1. held \in Nat \ {0} /\ rest = held - 1 /\ k \in 0..3
        BY <1>4, <1>5
      <4> HIDE DEF held, rest
      <4>2. (k + 1) + rest = k + held
        BY <4>1
      <4> QED
        BY <4>2 DEF held, rest
    <3>3. (k + 1) + Len(Tail(buffer[c])) + Len(fromSwitch)
            = k + Len(buffer[c]) + Len(fromSwitch)
      BY <3>2
    <3>4. closed \/ k + Len(buffer[c]) + Len(fromSwitch) = Len(lines)
      BY <1>3 DEF Rest
    <3>5. /\ (k + 1) + Len(Tail(buffer[c])) + Len(fromSwitch) <= Len(lines)
          /\ closed \/ (k + 1) + Len(Tail(buffer[c])) + Len(fromSwitch) = Len(lines)
      BY <1>5, <3>3, <3>4, Zenon
    <3>6. \A i \in 1..Len(fromSwitch) : fromSwitch[i] = lines[k + Len(buffer[c]) + i]
      BY <1>3 DEF Rest
    <3>7. \A i \in 1..Len(fromSwitch) :
            fromSwitch[i] = lines[(k + 1) + Len(Tail(buffer[c])) + i]
      BY <3>2, <3>6, Zenon
    <3>8. /\ fromSwitch' = fromSwitch /\ closed' = closed /\ req' = req
          /\ buffer'[c] = Tail(buffer[c])
      BY <1>1, <2>1
    <3> DEFINE held == Len(buffer'[c])
    <3>9. /\ (k + 1) + held + Len(fromSwitch') <= Len(lines)
          /\ closed' \/ (k + 1) + held + Len(fromSwitch') = Len(lines)
      BY <3>5, <3>8, Zenon
    <3>10. /\ \A i \in 1..held : buffer'[c][i] = lines[(k + 1) + i]
           /\ \A i \in 1..Len(fromSwitch') :
                fromSwitch'[i] = lines[(k + 1) + held + i]
      BY <3>1, <3>7, <3>8, Zenon
    <3> HIDE DEF lines
    <3>11. lines = Response(req'[c])
      BY <3>8, Zenon DEF lines
    <3> QED
      BY <3>9, <3>10, <3>11, Zenon DEF Rest
  <2>3. Answering(c)'
    BY <1>1, <1>2, <1>7, <2>1, <2>2 DEF Answering
  <2> QED
    BY <1>1, <2>1, <2>3 DEF SoleInv, Waiting
<1>8. ASSUME k = IF HasData(req[c]) THEN 3 ELSE 0, line.id = req[c].id,
             Len(lines) = k + 1, Finish(c, line.id)
      PROVE  SoleInv(c)'
  <2>1. toSwitch' = <<>> /\ fromSwitch' = <<>> /\ buffer'[c] = <<>>
    <3>1. /\ Len(buffer[c]) \in Nat \ {0} /\ Len(fromSwitch) \in Nat /\ k \in 0..3
          /\ k + Len(buffer[c]) + Len(fromSwitch) <= k + 1
      BY <1>4, <1>5, <1>8, Zenon
    <3>2. Len(fromSwitch) = 0
      BY <3>1
    <3> QED
      BY <1>1, <1>2, <1>8, <3>2, EmptySeq DEF Answering, ChannelTypes, Finish
  <2>2. pc'[c] \in After
    BY <1>1, <1>8, AfterFacts DEF ChannelTypes, Finish
  <2>3. ~Waiting(c)' /\ pc'[c] # "idle" /\ pc'[c] # "parse"
    BY <2>2 DEF Waiting, After
  <2>4. resp'[c].status = req[c].id /\ resp'[c].text = resp[c].text
    BY <1>8 DEF ChannelTypes, Responses, Finish
  <2>5. resp[c].text # <<>> <=> HasData(req[c])
    BY <1>1, <1>3, <1>5, <1>8, ProgressFacts
  <2>6. \A i \in DOMAIN resp[c].text : resp[c].text[i].id = req[c].id
    BY <1>1, <1>3, <1>5, ProgressFacts
  <2>7. Good(resp'[c], req[c])
    BY <1>1, <2>4, <2>5, <2>6, RequestFacts DEF Good, Belongs
  <2> QED
    BY <1>1, <2>1, <2>3, <2>7 DEF SoleInv, Good
<1>9. /\ line.kind = "begin" => Consume(c, BeginSeen(resp[c]))
      /\ line.kind = "status" => Finish(c, line.id)
      /\ line.kind = "end" /\ resp[c].end_char => Consume(c, EndSeen(resp[c]))
      /\ line.kind \in {"data", "row"} => Consume(c, Keep(resp[c], line))
  BY DEF ParseLine
<1>10. CASE ~HasData(req[c])
  <2>1. k = 0 /\ Len(lines) = 1 /\ line = Line(req[c].id, "status")
    BY <1>1, <1>3, <1>5, <1>10, ResponseLines DEF Consumed
  <2>2. line.kind = "status" /\ line.id = req[c].id
    BY <2>1 DEF Line
  <2> QED
    BY <1>8, <1>9, <1>10, <2>1, <2>2
<1>11. CASE HasData(req[c])
  <2>0. /\ Len(lines) = 4
        /\ lines[1] = Line(req[c].id, "begin")
        /\ lines[2] = Line(req[c].id, DataKind(req[c]))
        /\ lines[3] = Line(req[c].id, "end")
        /\ lines[4] = Line(req[c].id, "status")
        /\ Consumed(req[c]) = 0..3
    BY <1>1, <1>11, ResponseLines DEF Consumed
  <2> resp[c] \in Responses
    BY DEF ChannelTypes
  <2>1. CASE k = 0
    <3>1. line.kind = "begin"
      BY <1>5, <2>0, <2>1 DEF Line
    <3>2. Progress(BeginSeen(resp[c]), req[c], k + 1)
      BY <1>1, <1>3, <2>1, ProgressSteps
    <3> QED
      BY <1>7, <1>9, <2>0, <2>1, <3>1, <3>2
  <2>2. CASE k = 1
    <3>1. line = Line(req[c].id, DataKind(req[c])) /\ line.kind \in {"data", "row"}
      BY <1>5, <1>6, <2>0, <2>2 DEF Line
    <3>2. Progress(Keep(resp[c], line), req[c], k + 1)
      BY <1>1, <1>3, <2>2, <3>1, ProgressSteps
    <3> QED
      BY <1>7, <1>9, <2>0, <2>2, <3>1, <3>2
  <2>3. CASE k = 2
    <3>1. line.kind = "end" /\ resp[c].end_char
      BY <1>3, <1>5, <2>0, <2>3 DEF Line, Progress
    <3>2. Progress(EndSeen(resp[c]), req[c], k + 1)
      BY <1>1, <1>3, <2>3, ProgressSteps
    <3> QED
      BY <1>7, <1>9, <2>0, <2>3, <3>1, <3>2
  <2>4. CASE k = 3
    <3>1. line.kind = "status" /\ line.id = req[c].id
      BY <1>5, <2>0, <2>4 DEF Line
    <3> QED
      BY <1>8, <1>9, <1>11, <2>0, <2>4, <3>1
  <2> QED
    BY <1>5, <2>1, <2>2, <2>3, <2>4
<1> QED
  BY <1>10, <1>11, <1>6

\* What is left of a call: the history, the rows of help and the return.
LEMMA SoleFinishes ==
  ASSUME NEW c \in Clients, ChannelTypes, SoleInv(c),
         ReadMore(c) \/ add_history(c) \/ AddRows(c) \/ Return(c)
  PROVE  SoleInv(c)'
<1> USE DEF ChannelTypes
<1>1. CASE ReadMore(c)
  <2>1. /\ pc[c] = "parse" /\ pc'[c] = "recv" /\ buffer[c] = <<>>
        /\ UNCHANGED <<toSwitch, fromSwitch, closed, req, buffer, resp, result>>
    BY <1>1 DEF ReadMore, queues
  <2>2. Sent(c) \/ Answering(c)
    BY <2>1 DEF SoleInv, Waiting
  <2>3. Sent(c)' \/ Answering(c)'
    BY <2>1, <2>2 DEF Sent, Answering, Rest
  <2> QED
    BY <2>1, <2>3 DEF SoleInv, Waiting
<1>2. CASE add_history(c) \/ AddRows(c)
  <2>1. /\ pc[c] \in {"html_cmd", "hist_cmd", "html_res", "hist_res", "rows"}
        /\ pc'[c] \in {"hist_cmd", "html_res", "hist_res", "return"}
        /\ UNCHANGED <<toSwitch, fromSwitch, closed, req, buffer, resp, result>>
    BY <1>2 DEF add_history, AppendHtml, AppendHistory, AddRows, AfterText, queues
  <2> QED
    BY <2>1 DEF SoleInv, Waiting, Good
<1>3. CASE Return(c)
  <2>1. /\ pc[c] = "return" /\ pc'[c] = "idle" /\ result'[c] = resp[c]
        /\ UNCHANGED <<toSwitch, fromSwitch, closed, req, buffer, resp>>
    BY <1>3 DEF Return, queues
  <2> QED
    BY <2>1 DEF SoleInv, Waiting, Good
<1> QED
  BY <1>1, <1>2, <1>3

LEMMA SoleStep ==
  ASSUME NEW c, Clients = {c}, ChannelTypes, SoleInv(c), [Next]_vars
  PROVE  SoleInv(c)'
<1> c \in Clients
  OBVIOUS
<1>1. CASE UNCHANGED vars
  BY <1>1 DEF vars, queues, threads, SoleInv, Waiting, Sent, Answering, Rest, Good
<1>2. CASE send(c) \/ showinfo(c) \/ list_commands(c)
  BY <1>2, SoleAsks DEF send, showinfo, list_commands
<1>3. CASE Step(c)
  BY <1>3, SoleReceives, SoleParses, SoleFinishes DEF Step
<1> QED
  BY <1>1, <1>2, <1>3, SoleAnswered, SoleClosed DEF Next

\* When a single thread makes all the calls, every response that send(),
\* showinfo() or list_commands() returns is the whole response of the switch
\* to the command of that call, cut only if the switch has gone, and between
\* calls nothing is left on the socket: for any number of calls and any way
\* recv() cuts the stream into pieces.
THEOREM SoleOwnerIsAnswered ==
  ASSUME NEW c, Clients = {c}
  PROVE  Spec => [](QuietChannel /\ ResponseMatchesCommand)
<1>1. Init => SoleInv(c)
  BY SoleStart
<1>2. ChannelTypes /\ SoleInv(c) /\ [Next]_vars => SoleInv(c)'
  BY SoleStep
<1>3. SoleInv(c) => QuietChannel /\ ResponseMatchesCommand
  BY DEF SoleInv, QuietChannel, ResponseMatchesCommand, Good
<1> QED
  BY <1>1, <1>2, <1>3, TypesHold, PTL DEF Spec

-----------------------------------------------------------------------------
(* What is left on the socket, for any threads                             *)

StatusLines(s) == {i \in 1..Len(s) : s[i].kind = "status"}
\* The threads in get_response that have not received a status line yet.
Hungry == {c \in Clients : Waiting(c) /\ StatusLines(buffer[c]) = {}}
\* The switch has closed halfway through a response.
Cut == fromSwitch # <<>> /\ fromSwitch[Len(fromSwitch)].kind # "status"
\* The responses that are still to be received, whole or cut.
Owed == Len(toSwitch) + Cardinality(StatusLines(fromSwitch)) + (IF Cut THEN 1 ELSE 0)

QuietInv ==
  /\ IsFiniteSet(Hungry) /\ Owed <= Cardinality(Hungry)
  /\ closed => toSwitch = <<>>
  /\ Cut => closed
  /\ \A c \in Clients : pc[c] # "parse" => buffer[c] = <<>>

LEMMA StatusCount ==
  ASSUME NEW s \in Seq(Lines)
  PROVE  /\ IsFiniteSet(StatusLines(s)) /\ Cardinality(StatusLines(s)) \in Nat
         /\ Len(s) \in Nat
<1>1. Len(s) \in Nat
  OBVIOUS
<1>2. IsFiniteSet(1..Len(s))
  BY <1>1, FS_Interval
<1>3. StatusLines(s) \subseteq 1..Len(s)
  BY DEF StatusLines
<1> QED
  BY <1>1, <1>2, <1>3, FS_Subset, FS_CardinalityType

\* A response ends with its only status line.
LEMMA StatusAppended ==
  ASSUME NEW s \in Seq(Lines), NEW t \in Seq(Lines), t # <<>>,
         StatusLines(t) = {Len(t)}
  PROVE  /\ Cardinality(StatusLines(s \o t)) = Cardinality(StatusLines(s)) + 1
         /\ s \o t # <<>> /\ (s \o t)[Len(s \o t)].kind = "status"
<1>1. /\ Len(s) \in Nat /\ Len(t) \in Nat \ {0} /\ Len(s \o t) = Len(s) + Len(t)
      /\ \A i \in 1..Len(s) : (s \o t)[i] = s[i]
      /\ \A i \in 1..Len(t) : (s \o t)[Len(s) + i] = t[i]
  OBVIOUS
<1>2. t[Len(t)].kind = "status" /\ \A i \in 1..Len(t) : t[i].kind = "status" => i = Len(t)
  BY DEF StatusLines
<1> DEFINE g == s \o t
<1> HIDE DEF g
<1>3. StatusLines(g) = StatusLines(s) \cup {Len(s) + Len(t)}
  <2>1. ASSUME NEW i \in 1..Len(g), g[i].kind = "status", i \notin 1..Len(s)
        PROVE  i = Len(s) + Len(t)
    <3>1. i - Len(s) \in 1..Len(t) /\ i = Len(s) + (i - Len(s))
      BY <1>1, <2>1 DEF g
    <3>2. t[i - Len(s)].kind = "status"
      BY <1>1, <2>1, <3>1 DEF g
    <3> QED
      BY <1>1, <1>2, <3>1, <3>2
  <2>2. Len(s) + Len(t) \in 1..Len(g) /\ g[Len(s) + Len(t)].kind = "status"
    BY <1>1, <1>2 DEF g
  <2>3. \A i \in 1..Len(s) : i \in 1..Len(g) /\ g[i] = s[i]
    BY <1>1 DEF g
  <2> QED
    BY <2>1, <2>2, <2>3 DEF StatusLines
<1>4. Len(s) + Len(t) \notin StatusLines(s)
  BY <1>1 DEF StatusLines
<1>5. Cardinality(StatusLines(g)) = Cardinality(StatusLines(s)) + 1
  BY <1>3, <1>4, StatusCount, FS_AddElement
<1>6. g # <<>> /\ g[Len(g)].kind = "status"
  BY <1>1, <1>2 DEF g
<1> QED
  BY <1>5, <1>6 DEF g

\* The beginning of a response has none.
LEMMA NoStatusAppended ==
  ASSUME NEW s \in Seq(Lines), NEW t \in Seq(Lines), StatusLines(t) = {}
  PROVE  StatusLines(s \o t) = StatusLines(s)
<1>1. /\ Len(s) \in Nat /\ Len(t) \in Nat /\ Len(s \o t) = Len(s) + Len(t)
      /\ \A i \in 1..Len(s) : (s \o t)[i] = s[i]
      /\ \A i \in 1..Len(t) : (s \o t)[Len(s) + i] = t[i]
  OBVIOUS
<1> DEFINE g == s \o t
<1> HIDE DEF g
<1>2. ASSUME NEW i \in 1..Len(g), g[i].kind = "status", i \notin 1..Len(s)
      PROVE  FALSE
  <2>1. i - Len(s) \in 1..Len(t) /\ i = Len(s) + (i - Len(s))
    BY <1>1, <1>2 DEF g
  <2>2. t[i - Len(s)].kind = "status"
    BY <1>1, <1>2, <2>1 DEF g
  <2> QED
    BY <2>1, <2>2 DEF StatusLines
<1>3. \A i \in 1..Len(s) : i \in 1..Len(g) /\ g[i] = s[i]
  BY <1>1 DEF g
<1>4. StatusLines(g) = StatusLines(s)
  BY <1>2, <1>3 DEF StatusLines
<1> QED
  BY <1>4 DEF g

\* recv() takes the status lines of what it takes.
LEMMA StatusTaken ==
  ASSUME NEW s \in Seq(Lines), NEW n \in 1..Len(s)
  PROVE  LET got  == SubSeq(s, 1, n)
             rest == SubSeq(s, n + 1, Len(s))
         IN /\ got \in Seq(Lines) /\ rest \in Seq(Lines)
            /\ Cardinality(StatusLines(rest)) <= Cardinality(StatusLines(s))
            /\ StatusLines(got) # {} =>
                 Cardinality(StatusLines(rest)) + 1 <= Cardinality(StatusLines(s))
            /\ rest # <<>> => rest[Len(rest)] = s[Len(s)]
<1> DEFINE got  == SubSeq(s, 1, n)
           rest == SubSeq(s, n + 1, Len(s))
<1>1. /\ Len(s) \in Nat
      /\ got \in Seq(Lines) /\ Len(got) = n /\ \A i \in 1..n : got[i] = s[i]
      /\ rest \in Seq(Lines) /\ Len(rest) = Len(s) - n
      /\ \A i \in 1..Len(s) - n : rest[i] = s[n + i]
  <2>1. \A i \in 1..Len(s) : s[i] \in Lines
    BY ElementOfSeq
  <2>2. got \in Seq(Lines) /\ Len(got) = n /\ \A i \in 1..n : got[i] = s[i]
    BY <2>1, SubSeqProperties
  <2>3. /\ rest \in Seq(Lines) /\ Len(rest) = Len(s) - n
        /\ \A i \in 1..Len(s) - n : rest[i] = s[n + i]
    BY <2>1, SubSeqProperties
  <2> QED
    BY <2>2, <2>3
<1> HIDE DEF got, rest
<1> DEFINE f == [i \in StatusLines(rest) |-> n + i]
<1>2. ASSUME NEW i \in StatusLines(rest)
      PROVE  n + i \in StatusLines(s) /\ n + i > n /\ i \in Int
  <2>1. i \in 1..Len(s) - n /\ rest[i].kind = "status" /\ n \in 1..Len(s)
    BY <1>1 DEF StatusLines
  <2>2. n + i \in 1..Len(s) /\ n + i > n
    BY <1>1, <2>1
  <2>3. s[n + i].kind = "status"
    BY <1>1, <2>1
  <2> QED
    BY <2>1, <2>2, <2>3 DEF StatusLines
<1>3. Cardinality(StatusLines(rest)) <= Cardinality(StatusLines(s))
  <2>1. f \in Injection(StatusLines(rest), StatusLines(s))
    BY <1>2 DEF Injection, IsInjective
  <2> QED
    BY <2>1, FS_Injection, StatusCount
<1>4. ASSUME NEW j \in StatusLines(got)
      PROVE  Cardinality(StatusLines(rest)) + 1 <= Cardinality(StatusLines(s))
  <2>1. j \in StatusLines(s) /\ j <= n /\ j \in Int
    BY <1>1 DEF StatusLines
  <2> DEFINE left == StatusLines(s) \ {j}
  <2>2. IsFiniteSet(left) /\ Cardinality(left) = Cardinality(StatusLines(s)) - 1
    BY <2>1, StatusCount, FS_RemoveElement
  <2>3. f \in Injection(StatusLines(rest), left)
    <3>1. \A i \in StatusLines(rest) : n + i \in left
      BY <1>2, <2>1
    <3> HIDE DEF left
    <3> QED
      BY <1>2, <3>1 DEF Injection, IsInjective
  <2>4. Cardinality(StatusLines(rest)) <= Cardinality(left)
    BY <2>2, <2>3, FS_Injection
  <2>5. Cardinality(StatusLines(s)) \in Nat /\ Cardinality(StatusLines(rest)) \in Nat
    BY <1>1, StatusCount
  <2> HIDE DEF left
  <2> QED
    BY <2>2, <2>4, <2>5
<1>5. rest # <<>> => rest[Len(rest)] = s[Len(s)]
  BY <1>1
<1> QED
  BY <1>1, <1>3, <1>4, <1>5 DEF got, rest

\* A response and what the switch may have written of it when it closes.
LEMMA ResponseStatus ==
  ASSUME NEW r \in Requests
  PROVE  /\ Response(r) \in Seq(Lines) /\ Response(r) # <<>>
         /\ StatusLines(Response(r)) = {Len(Response(r))}
         /\ \A n \in 1..Len(Response(r)) - 1 :
              LET t == SubSeq(Response(r), 1, n)
              IN /\ t \in Seq(Lines) /\ t # <<>> /\ StatusLines(t) = {}
                 /\ t[Len(t)].kind # "status"
<1> DEFINE s == Response(r)
<1>1. /\ s \in Seq(Lines) /\ Len(s) \in {1, 4}
      /\ \A i \in 1..Len(s) : s[i].kind = "status" <=> i = Len(s)
  <2> HIDE DEF s
  <2>0. \A i, k : Line(i, k).kind = k
    BY DEF Line
  <2>1. CASE HasData(r)
    <3>1. s \in Seq(Lines) /\ Len(s) = 4
      BY <2>1, ResponseLines DEF s
    <3>2. /\ s[1].kind = "begin" /\ s[2].kind = DataKind(r)
          /\ s[3].kind = "end" /\ s[4].kind = "status"
      BY <2>0, <2>1, ResponseLines DEF s
    <3> QED
      BY <3>1, <3>2, RequestFacts
  <2>2. CASE ~HasData(r)
    <3>1. s \in Seq(Lines) /\ Len(s) = 1
      BY <2>2, ResponseLines DEF s
    <3>2. s[1].kind = "status"
      BY <2>0, <2>2, ResponseLines DEF s
    <3> QED
      BY <3>1, <3>2
  <2> QED
    BY <2>1, <2>2
<1> HIDE DEF s
<1>2. StatusLines(s) = {Len(s)} /\ s # <<>>
  BY <1>1 DEF StatusLines
<1>3. ASSUME NEW n \in 1..Len(s) - 1
      PROVE  /\ SubSeq(s, 1, n) \in Seq(Lines) /\ SubSeq(s, 1, n) # <<>>
             /\ StatusLines(SubSeq(s, 1, n)) = {}
             /\ SubSeq(s, 1, n)[Len(SubSeq(s, 1, n))].kind # "status"
  <2> DEFINE t == SubSeq(s, 1, n)
  <2>1. \A i \in 1..n : s[i] \in Lines
    BY <1>1, ElementOfSeq
  <2>2. t \in Seq(Lines) /\ Len(t) = n /\ \A i \in 1..n : t[i] = s[i]
    BY <1>1, <2>1, SubSeqProperties
  <2> HIDE DEF t
  <2>3. \A i \in 1..n : t[i].kind # "status"
    BY <1>1, <2>2
  <2>4. n \in 1..n
    BY <1>1
  <2> QED
    BY <2>2, <2>3, <2>4 DEF StatusLines, t
<1> QED
  BY <1>1, <1>2, <1>3 DEF s

\* The switch answers one command or several, and owes one response less, or
\* as many as it took for one; it closes, and a response that it has begun
\* is still on its way.
LEMMA QuietSwitch ==
  ASSUME QuietInv, ChannelTypes, SwitchAnswers \/ SwitchCloses
  PROVE  QuietInv'
<1> DEFINE stats == Cardinality(StatusLines(fromSwitch))
<1>1. /\ toSwitch \in Seq(Requests) /\ fromSwitch \in Seq(Lines)
      /\ Len(toSwitch) \in Nat /\ stats \in Nat /\ Cardinality(Hungry) \in Nat
      /\ UNCHANGED <<pc, buffer>>
  BY StatusCount, FS_CardinalityType
  DEF ChannelTypes, SwitchAnswers, SwitchCloses, threads, QuietInv
<1>2. Hungry' = Hungry
  BY <1>1 DEF Hungry, Waiting, StatusLines
<1>3. CASE SwitchAnswers
  <2>1. PICK n \in 1..Len(toSwitch) :
          /\ fromSwitch' = fromSwitch \o (IF n = 1 THEN Response(Head(toSwitch))
                                                   ELSE << Line(0, "status") >>)
          /\ toSwitch' = SubSeq(toSwitch, n + 1, Len(toSwitch))
          /\ UNCHANGED closed
    BY <1>3 DEF SwitchAnswers
  <2> DEFINE t == IF n = 1 THEN Response(Head(toSwitch)) ELSE << Line(0, "status") >>
  <2>2. toSwitch # <<>> /\ Head(toSwitch) \in Requests /\ ~closed /\ ~Cut
    BY <1>1, <2>1, HeadTailProperties DEF QuietInv
  <2>3. t \in Seq(Lines) /\ t # <<>> /\ StatusLines(t) = {Len(t)}
    <3>1. CASE n = 1
      BY <2>2, <3>1, ResponseStatus
    <3>2. CASE n # 1
      <4>1. Line(0, "status") \in Lines /\ Line(0, "status").kind = "status"
        BY CallsAssumption DEF Line, Lines
      <4> QED
        BY <3>2, <4>1 DEF StatusLines
    <3> QED
      BY <3>1, <3>2
  <2> HIDE DEF t
  <2>4. /\ Cardinality(StatusLines(fromSwitch')) = stats + 1
        /\ fromSwitch' # <<>> /\ fromSwitch'[Len(fromSwitch')].kind = "status"
    BY <1>1, <2>1, <2>3, StatusAppended DEF t
  <2>5. Len(toSwitch') = Len(toSwitch) - n
    <3>1. \A i \in 1..Len(toSwitch) : toSwitch[i] \in Requests
      BY <1>1, ElementOfSeq
    <3> QED
      BY <1>1, <2>1, <3>1, SubSeqProperties
  <2>6. Owed' <= Cardinality(Hungry) /\ ~Cut'
    <3>1. Len(toSwitch) + stats <= Cardinality(Hungry)
      BY <1>1, <2>2 DEF QuietInv, Owed
    <3>2. ~Cut'
      BY <2>4 DEF Cut
    <3>3. Owed' = (Len(toSwitch) - n) + (stats + 1)
      BY <1>1, <2>4, <2>5, <3>2 DEF Owed
    <3> QED
      BY <1>1, <2>1, <3>1, <3>2, <3>3
  <2> QED
    BY <1>1, <1>2, <2>1, <2>2, <2>6 DEF QuietInv
<1>4. CASE SwitchCloses
  <2>1. ~closed /\ closed' /\ toSwitch' = <<>> /\ ~Cut
    BY <1>4 DEF SwitchCloses, QuietInv
  <2>2. Len(toSwitch) + stats <= Cardinality(Hungry)
    BY <1>1, <2>1 DEF QuietInv, Owed
  <2>3. CASE UNCHANGED fromSwitch
    <3>1. Owed' = stats
      BY <1>1, <2>1, <2>3 DEF Owed, Cut
    <3> QED
      BY <1>1, <1>2, <2>1, <2>2, <3>1 DEF QuietInv
  <2>4. ASSUME toSwitch # <<>>,
               NEW n \in 1..Len(Response(Head(toSwitch))) - 1,
               fromSwitch' = fromSwitch \o SubSeq(Response(Head(toSwitch)), 1, n)
        PROVE  QuietInv'
    <3>1. Head(toSwitch) \in Requests /\ Len(toSwitch) >= 1
      BY <1>1, <2>4, HeadTailProperties
    <3> DEFINE t == SubSeq(Response(Head(toSwitch)), 1, n)
    <3>2. t \in Seq(Lines) /\ StatusLines(t) = {}
      BY <3>1, ResponseStatus
    <3> HIDE DEF t
    <3>3. Cardinality(StatusLines(fromSwitch')) = stats
      BY <1>1, <2>4, <3>2, NoStatusAppended DEF t
    <3>4. Owed' <= stats + 1
      BY <1>1, <2>1, <3>3 DEF Owed
    <3>5. Owed' \in Nat
      BY <1>1, <2>1, <3>3 DEF Owed
    <3> QED
      BY <1>1, <1>2, <2>1, <2>2, <3>1, <3>4, <3>5 DEF QuietInv
  <2> QED
    BY <1>4, <2>3, <2>4 DEF SwitchCloses
<1> QED
  BY <1>3, <1>4

\* A thread that has its status line, or had it, leaves; the others stay.
LEMMA QuietElsewhere ==
  ASSUME QuietInv, ChannelTypes, NEW c \in Clients,
         UNCHANGED <<toSwitch, fromSwitch, closed>>,
         Hungry \subseteq Hungry', Hungry' \subseteq Hungry \cup {c},
         \A d \in Clients : pc'[d] # "parse" => buffer'[d] = <<>>
  PROVE  QuietInv'
<1>1. IsFiniteSet(Hungry') /\ Cardinality(Hungry) <= Cardinality(Hungry')
  <2>1. IsFiniteSet(Hungry \cup {c})
    BY FS_AddElement DEF QuietInv
  <2>2. IsFiniteSet(Hungry')
    BY <2>1, FS_Subset
  <2> QED
    BY <2>2, FS_Subset
<1>2. Owed' = Owed /\ Cut' = Cut
  BY DEF Owed, Cut
<1>3. Owed \in Nat /\ Cardinality(Hungry) \in Nat /\ Cardinality(Hungry') \in Nat
  BY <1>1, StatusCount, FS_CardinalityType DEF Owed, QuietInv, ChannelTypes
<1> QED
  BY <1>1, <1>2, <1>3 DEF QuietInv

LEMMA QuietAsks ==
  ASSUME QuietInv, ChannelTypes, NEW c \in Clients,
         NEW r \in Requests, SendRequest(c, r)
  PROVE  QuietInv'
<1>1. /\ pc[c] = "idle" /\ buffer[c] = <<>> /\ c \notin Hungry
      /\ UNCHANGED <<fromSwitch, closed, buffer>>
      /\ pc' = [pc EXCEPT ![c] = IF closed THEN "return" ELSE "recv"]
      /\ toSwitch' = IF closed \/ r.cmd = Blank THEN toSwitch ELSE Append(toSwitch, r)
  BY DEF SendRequest, QuietInv, Hungry, Waiting
<1>2. /\ \A d \in Clients : d # c => pc'[d] = pc[d]
      /\ pc'[c] = IF closed THEN "return" ELSE "recv"
  BY <1>1 DEF ChannelTypes
<1>3. \A d \in Clients : pc'[d] # "parse" => buffer'[d] = <<>>
  BY <1>1, <1>2 DEF QuietInv
<1>4. StatusLines(<<>>) = {}
  BY DEF StatusLines
<1>5. CASE closed
  <2>1. Hungry' = Hungry
    BY <1>1, <1>2, <1>5 DEF Hungry, Waiting, StatusLines
  <2> QED
    BY <1>1, <1>3, <1>5, <2>1, QuietElsewhere
<1>6. CASE ~closed
  <2>1. Hungry' = Hungry \cup {c}
    BY <1>1, <1>2, <1>4, <1>6 DEF Hungry, Waiting, StatusLines
  <2>2. IsFiniteSet(Hungry') /\ Cardinality(Hungry') = Cardinality(Hungry) + 1
    BY <1>1, <2>1, FS_AddElement DEF QuietInv
  <2>3. /\ toSwitch \in Seq(Requests) /\ Len(toSwitch) \in Nat
        /\ Len(toSwitch') \in Nat /\ Len(toSwitch') <= Len(toSwitch) + 1
    BY <1>1 DEF ChannelTypes
  <2>4. Cardinality(StatusLines(fromSwitch)) \in Nat /\ Cardinality(Hungry) \in Nat
    BY StatusCount, FS_CardinalityType DEF ChannelTypes, QuietInv
  <2>5. Cut' = Cut
    BY <1>1 DEF Cut
  <2>6. Owed' <= Owed + 1 /\ Owed \in Nat /\ Owed' \in Nat
    BY <1>1, <2>3, <2>4, <2>5 DEF Owed
  <2> QED
    BY <1>1, <1>3, <1>6, <2>2, <2>4, <2>5, <2>6 DEF QuietInv
<1> QED
  BY <1>5, <1>6

LEMMA QuietReceives ==
  ASSUME QuietInv, ChannelTypes, NEW c \in Clients, Recv(c)
  PROVE  QuietInv'
<1>1. /\ pc[c] = "recv" /\ buffer[c] = <<>> /\ UNCHANGED <<toSwitch, closed>>
      /\ fromSwitch \in Seq(Lines) /\ req[c] \in Requests
  BY DEF Recv, QuietInv, ChannelTypes
<1>2. c \in Hungry
  BY <1>1 DEF Hungry, Waiting, StatusLines
<1>3. ASSUME NEW n \in 1..Len(fromSwitch),
             buffer' = [buffer EXCEPT ![c] = SubSeq(fromSwitch, 1, n)],
             fromSwitch' = SubSeq(fromSwitch, n + 1, Len(fromSwitch)),
             pc' = [pc EXCEPT ![c] = "parse"]
      PROVE  QuietInv'
  <2> DEFINE got   == SubSeq(fromSwitch, 1, n)
             stats == Cardinality(StatusLines(fromSwitch))
             left  == Cardinality(StatusLines(fromSwitch'))
  <2>1. /\ left <= stats
        /\ StatusLines(got) # {} => left + 1 <= stats
        /\ fromSwitch' \in Seq(Lines)
        /\ fromSwitch' # <<>> => fromSwitch'[Len(fromSwitch')] = fromSwitch[Len(fromSwitch)]
    BY <1>1, <1>3, StatusTaken
  <2>2. fromSwitch # <<>> /\ (Cut' => Cut)
    <3>1. fromSwitch # <<>>
      BY <1>1, <1>3
    <3> HIDE <1>3
    <3> QED
      BY <2>1, <3>1, Zenon DEF Cut
  <2>3. /\ pc'[c] = "parse" /\ buffer'[c] = got
        /\ \A d \in Clients : d # c => pc'[d] = pc[d] /\ buffer'[d] = buffer[d]
    BY <1>3 DEF ChannelTypes
  <2> HIDE DEF got
  <2>4. \A d \in Clients : pc'[d] # "parse" => buffer'[d] = <<>>
    BY <2>3 DEF QuietInv
  <2>5. /\ stats \in Nat /\ left \in Nat /\ Cardinality(Hungry) \in Nat
        /\ Len(toSwitch) \in Nat /\ IsFiniteSet(Hungry)
    BY <1>1, <2>1, StatusCount, FS_CardinalityType DEF QuietInv, ChannelTypes
  <2> DEFINE cut  == IF Cut THEN 1 ELSE 0
             cutN == IF Cut' THEN 1 ELSE 0
  <2>8. cut \in {0, 1} /\ cutN \in {0, 1} /\ cutN <= cut
    BY <2>2
  <2>9. Owed = Len(toSwitch) + stats + cut /\ Owed' = Len(toSwitch) + left + cutN
    BY <1>1, Zenon DEF Owed
  <2>10. closed' = closed /\ (closed => toSwitch' = <<>>) /\ (Cut' => closed)
    BY <1>1, <2>2 DEF QuietInv
  <2>11. Owed <= Cardinality(Hungry)
    BY DEF QuietInv
  <2>12. left <= stats /\ (StatusLines(got) # {} => left + 1 <= stats)
    BY <2>1
  <2>13. stats \in Nat /\ left \in Nat /\ Len(toSwitch) \in Nat
    BY <2>5
  <2>14. Cardinality(Hungry) \in Nat
    BY <2>5
  <2> HIDE DEF cut, cutN, stats, left
  <2>6. CASE StatusLines(got) = {}
    <3>1. Hungry' = Hungry
      BY <1>1, <1>2, <2>3, <2>6 DEF Hungry, Waiting
    <3>2. Owed' <= Owed /\ Owed \in Nat /\ Owed' \in Nat
      BY <2>8, <2>9, <2>12, <2>13
    <3> QED
      BY <2>4, <2>5, <2>10, <2>11, <3>1, <3>2 DEF QuietInv
  <2>7. CASE StatusLines(got) # {}
    <3>1. Hungry' = Hungry \ {c}
      BY <1>1, <1>2, <2>3, <2>7 DEF Hungry, Waiting
    <3>2. IsFiniteSet(Hungry') /\ Cardinality(Hungry') = Cardinality(Hungry) - 1
      BY <1>2, <2>5, <3>1, FS_RemoveElement
    <3>3. Owed' + 1 <= Owed /\ Owed \in Nat /\ Owed' \in Nat
      BY <2>7, <2>8, <2>9, <2>12, <2>13
    <3>4. ASSUME NEW a \in Nat, NEW b \in Nat, NEW x \in Nat, NEW y,
                 a + 1 <= b, b <= x, y = x - 1
          PROVE  a <= y
      BY <3>4
    <3>5. Owed' <= Cardinality(Hungry')
      BY <2>11, <2>14, <3>2, <3>3, <3>4, Zenon
    <3> QED
      BY <2>4, <2>10, <3>2, <3>5 DEF QuietInv
  <2> QED
    BY <2>6, <2>7
<1>4. ASSUME fromSwitch = <<>>, closed, UNCHANGED <<fromSwitch, buffer>>,
             pc' = [pc EXCEPT ![c] = AfterResponse(req[c], resp[c].text)]
      PROVE  QuietInv'
  <2>1. /\ pc'[c] \in After /\ buffer' = buffer
        /\ \A d \in Clients : d # c => pc'[d] = pc[d]
    BY <1>1, <1>4, AfterFacts DEF ChannelTypes
  <2>2. Hungry' \subseteq Hungry
    BY <2>1 DEF Hungry, Waiting, After, StatusLines
  <2>3. IsFiniteSet(Hungry') /\ Cardinality(Hungry') \in Nat
    BY <2>2, FS_Subset, FS_CardinalityType DEF QuietInv
  <2>4. Owed' = 0 /\ ~Cut'
    <3>1. StatusLines(<<>>) = {} /\ toSwitch' = <<>> /\ fromSwitch' = <<>>
      BY <1>1, <1>4 DEF StatusLines, QuietInv
    <3>2. ~Cut' /\ Cardinality(StatusLines(fromSwitch')) = 0 /\ Len(toSwitch') = 0
      BY <3>1, FS_EmptySet DEF Cut
    <3> QED
      BY <3>2 DEF Owed
  <2>5. \A d \in Clients : pc'[d] # "parse" => buffer'[d] = <<>>
    BY <1>1, <2>1 DEF QuietInv, After
  <2> QED
    BY <1>1, <1>4, <2>3, <2>4, <2>5 DEF QuietInv
<1> QED
  BY <1>3, <1>4 DEF Recv

LEMMA QuietParses ==
  ASSUME QuietInv, ChannelTypes, NEW c \in Clients, ParseLine(c)
  PROVE  QuietInv'
<1> DEFINE line == Head(buffer[c])
<1>1. /\ pc[c] = "parse" /\ buffer[c] \in Seq(Lines) /\ buffer[c] # <<>>
      /\ req[c] \in Requests
      /\ UNCHANGED <<toSwitch, fromSwitch, closed>>
  BY DEF ParseLine, queues, ChannelTypes
<1>2. CASE line.kind = "status"
  <2>1. Finish(c, line.id)
    BY <1>2, Zenon DEF ParseLine
  <2>2. /\ pc'[c] \in After /\ buffer'[c] = <<>>
        /\ \A d \in Clients : d # c => pc'[d] = pc[d] /\ buffer'[d] = buffer[d]
    BY <1>1, <2>1, AfterFacts DEF Finish, ChannelTypes
  <2>3. c \notin Hungry
    <3>1. 1 \in StatusLines(buffer[c])
      BY <1>1, <1>2, HeadTailProperties DEF StatusLines
    <3> QED
      BY <3>1 DEF Hungry
  <2>4. Hungry' = Hungry
    BY <2>2, <2>3 DEF Hungry, Waiting, After, StatusLines
  <2> QED
    BY <1>1, <2>2, <2>4, QuietElsewhere DEF QuietInv, After
<1>3. CASE line.kind # "status"
  <2>1. \E x : Consume(c, x)
    BY <1>3, Zenon DEF ParseLine
  <2>2. /\ pc' = pc /\ buffer'[c] = Tail(buffer[c])
        /\ \A d \in Clients : d # c => buffer'[d] = buffer[d]
    BY <1>1, <2>1 DEF Consume, ChannelTypes
  <2>3. StatusLines(buffer[c]) = {} => StatusLines(Tail(buffer[c])) = {}
    <3> SUFFICES ASSUME NEW i \in 1..Len(Tail(buffer[c])),
                        Tail(buffer[c])[i].kind = "status"
                 PROVE  StatusLines(buffer[c]) # {}
      BY DEF StatusLines
    <3>1. /\ Len(buffer[c]) \in Nat /\ Len(Tail(buffer[c])) = Len(buffer[c]) - 1
          /\ Tail(buffer[c])[i] = buffer[c][i + 1]
      BY <1>1, HeadTailProperties
    <3>2. i + 1 \in StatusLines(buffer[c])
      BY <3>1 DEF StatusLines
    <3> QED
      BY <3>2
  <2>4. Hungry \subseteq Hungry' /\ Hungry' \subseteq Hungry \cup {c}
    BY <1>1, <2>2, <2>3 DEF Hungry, Waiting
  <2> QED
    BY <1>1, <2>2, <2>4, QuietElsewhere DEF QuietInv
<1> QED
  BY <1>2, <1>3

LEMMA QuietStep ==
  ASSUME QuietInv, ChannelTypes, [Next]_vars
  PROVE  QuietInv'
<1>1. CASE UNCHANGED vars
  BY <1>1 DEF vars, queues, threads, QuietInv, Owed, Cut, Hungry, Waiting, StatusLines
<1>2. ASSUME NEW c \in Clients, send(c) \/ showinfo(c) \/ list_commands(c)
      PROVE  QuietInv'
  BY <1>2, QuietAsks DEF send, showinfo, list_commands
<1>3. ASSUME NEW c \in Clients,
             ReadMore(c) \/ add_history(c) \/ AddRows(c) \/ Return(c)
      PROVE  QuietInv'
  <2>1. /\ UNCHANGED <<toSwitch, fromSwitch, closed, buffer>>
        /\ \A d \in Clients : d # c => pc'[d] = pc[d]
        /\ Waiting(c)' = Waiting(c) /\ pc'[c] # "parse" /\ buffer[c] = <<>>
    BY <1>3 DEF ReadMore, add_history, AppendHtml, AppendHistory, AfterText,
                AddRows, Return, queues, Waiting, ChannelTypes, QuietInv
  <2>2. Hungry' = Hungry
    BY <2>1 DEF Hungry, Waiting, StatusLines
  <2> QED
    BY <2>1, <2>2, QuietElsewhere DEF QuietInv
<1> QED
  BY <1>1, <1>2, <1>3, QuietSwitch, QuietReceives, QuietParses DEF Next, Step

\* However many threads share the socket, and whatever they do to each
\* other's responses, nothing is left on it when none of them is inside
\* get_response: of the responses that are owed there are never more than
\* there are threads without one.
THEOREM ChannelGoesQuiet == Spec => []QuietChannel
<1>1. Init => QuietInv
  <2> SUFFICES ASSUME Init PROVE QuietInv
    OBVIOUS
  <2>1. Hungry = {} /\ StatusLines(<<>>) = {} /\ toSwitch = <<>> /\ fromSwitch = <<>>
    BY DEF Init, Hungry, Waiting, StatusLines
  <2> QED
    BY <2>1, FS_EmptySet DEF Init, QuietInv, Owed, Cut
<1>2. ChannelTypes /\ QuietInv => QuietChannel
  <2> SUFFICES ASSUME ChannelTypes, QuietInv, \A c \in Clients : ~Waiting(c)
               PROVE  toSwitch = <<>> /\ fromSwitch = <<>>
    BY DEF QuietChannel
  <2>1. Hungry = {} /\ Cardinality({}) = 0
    BY FS_EmptySet DEF Hungry
  <2>2. /\ fromSwitch \in Seq(Lines) /\ Cardinality(StatusLines(fromSwitch)) \in Nat
        /\ IsFiniteSet(StatusLines(fromSwitch)) /\ Len(toSwitch) \in Nat
    BY StatusCount DEF ChannelTypes
  <2>3. Len(toSwitch) = 0 /\ Cardinality(StatusLines(fromSwitch)) = 0 /\ ~Cut
    BY <2>1, <2>2 DEF QuietInv, Owed
  <2>4. StatusLines(fromSwitch) = {}
    BY <2>2, <2>3, FS_EmptySet
  <2>5. fromSwitch = <<>>
    BY <2>2, <2>3, <2>4 DEF Cut, StatusLines
  <2> QED
    BY <2>3, <2>5 DEF ChannelTypes
<1> QED
  BY <1>1, <1>2, QuietStep, TypesHold, PTL DEF Spec

-----------------------------------------------------------------------------
(* The histories, for any threads *)

Has(h, i, w) == \E k \in DOMAIN h : h[k] = Entry(i, w)
Uses(h, i) == \E k \in DOMAIN h : h[k].id = i
Known(h) == h \in Seq(Entries) /\ \A k \in DOMAIN h : h[k].id \in 1..calls

\* What thread c finds of its call where it stands in add_history.
HistoryAt(c) ==
  /\ pc[c] # "idle" => req[c].id \in 1..calls
  /\ pc[c] \in {"recv", "parse", "html_cmd"} =>
       ~Uses(HISTORY, req[c].id) /\ ~Uses(HISTORY_HTML, req[c].id)
  /\ pc[c] = "hist_cmd" => /\ ~Uses(HISTORY, req[c].id)
                           /\ Has(HISTORY_HTML, req[c].id, "cmd")
                           /\ ~Has(HISTORY_HTML, req[c].id, "res")
  /\ pc[c] = "html_res" => /\ ~Has(HISTORY, req[c].id, "res")
                           /\ ~Has(HISTORY_HTML, req[c].id, "res")
  /\ pc[c] = "hist_res" => /\ ~Has(HISTORY, req[c].id, "res")
                           /\ Has(HISTORY_HTML, req[c].id, "res")
OwnRequest == \A c, d \in Clients :
  c # d /\ pc[c] # "idle" /\ pc[d] # "idle" => req[c].id # req[d].id
Shown == \A i \in DOMAIN HISTORY : \E j \in DOMAIN HISTORY_HTML :
           HISTORY_HTML[j] = HISTORY[i]
HistoryInv == /\ calls \in Nat /\ calls <= MaxCalls
              /\ Known(HISTORY) /\ Known(HISTORY_HTML)
              /\ OwnRequest
              /\ \A c \in Clients : HistoryAt(c)
              /\ InOrder(HISTORY) /\ InOrder(HISTORY_HTML) /\ Shown

\* An append to a history: a command of which there is nothing yet, or the
\* first response to one.
LEMMA AppendOrdered ==
  ASSUME NEW h \in Seq(Entries), NEW i \in 1..MaxCalls, NEW w \in {"cmd", "res"},
         InOrder(h),
         w = "cmd" => ~Uses(h, i), w = "res" => ~Has(h, i, "res")
  PROVE  InOrder(Append(h, Entry(i, w)))
<1> DEFINE g == Append(h, Entry(i, w))
<1>1. /\ DOMAIN h = 1..Len(h) /\ Len(h) \in Nat /\ DOMAIN g = 1..Len(h) + 1
      /\ \A k \in 1..Len(h) : g[k] = h[k] /\ h[k] \in Entries
      /\ g[Len(h) + 1] = Entry(i, w)
  <2>1. Entry(i, w) \in Entries
    BY DEF Entries, Entry
  <2>2. \A k \in 1..Len(h) : h[k] \in Entries
    BY ElementOfSeq
  <2> QED
    BY <2>1, <2>2
<1>2. Entry(i, w).id = i /\ Entry(i, w).what = w
  BY DEF Entry
<1>3. \A k \in 1..Len(h) : h[k].id = i =>
        /\ w = "res"
        /\ h[k].what = "cmd"
  <2> SUFFICES ASSUME NEW k \in 1..Len(h), h[k].id = i
               PROVE  w = "res" /\ h[k].what = "cmd"
    OBVIOUS
  <2>1. w = "res"
    BY <1>1 DEF Uses
  <2>2. h[k] = Entry(i, h[k].what) /\ h[k].what \in {"cmd", "res"}
    BY <1>1 DEF Entries, Entry
  <2> QED
    BY <1>1, <2>1, <2>2 DEF Has
<1> HIDE DEF g
<1>4. ASSUME NEW a \in DOMAIN g, NEW b \in DOMAIN g, a < b, g[a].id = g[b].id
      PROVE  g[a].what = "cmd" /\ g[b].what = "res"
  <2>1. a \in 1..Len(h)
    BY <1>1, <1>4
  <2>2. CASE b \in 1..Len(h)
    BY <1>1, <1>4, <2>1, <2>2 DEF InOrder
  <2>3. CASE b = Len(h) + 1
    BY <1>1, <1>2, <1>3, <1>4, <2>1, <2>3
  <2> QED
    BY <1>1, <2>2, <2>3
<1> QED
  BY <1>4 DEF InOrder, g

LEMMA AppendHas ==
  ASSUME NEW h \in Seq(Entries), NEW i, NEW w
  PROVE  /\ \A j : Uses(Append(h, Entry(i, w)), j) <=> Uses(h, j) \/ j = i
         /\ \A j, v : Has(Append(h, Entry(i, w)), j, v)
                        <=> Has(h, j, v) \/ Entry(j, v) = Entry(i, w)
<1> DEFINE g == Append(h, Entry(i, w))
<1>1. /\ DOMAIN h = 1..Len(h) /\ Len(h) \in Nat /\ DOMAIN g = 1..Len(h) + 1
      /\ \A k \in 1..Len(h) : g[k] = h[k]
      /\ g[Len(h) + 1] = Entry(i, w)
  OBVIOUS
<1>2. Entry(i, w).id = i
  BY DEF Entry
<1>3. DOMAIN g = DOMAIN h \cup {Len(h) + 1} /\ \A k \in DOMAIN h : g[k] = h[k]
  BY <1>1
<1> HIDE DEF g
<1>4. \A j : Uses(g, j) <=> Uses(h, j) \/ j = i
  BY <1>1, <1>2, <1>3 DEF Uses
<1>5. \A j, v : Has(g, j, v) <=> Has(h, j, v) \/ Entry(j, v) = Entry(i, w)
  BY <1>1, <1>3 DEF Has
<1> QED
  BY <1>4, <1>5 DEF g

LEMMA KnownFacts ==
  ASSUME NEW h, Known(h), NEW i, i \notin 1..calls
  PROVE  ~Uses(h, i)
BY DEF Known, Uses
LEMMA HasUses ==
  ASSUME NEW h, NEW i, NEW w, Has(h, i, w)
  PROVE  Uses(h, i)
BY DEF Has, Uses, Entry
LEMMA EntryInjective ==
  ASSUME NEW i, NEW j, NEW v, NEW w, Entry(i, v) = Entry(j, w)
  PROVE  i = j /\ v = w
BY DEF Entry

LEMMA KnownAppend ==
  ASSUME NEW h, Known(h), calls \in Nat, calls <= MaxCalls,
         NEW i \in 1..calls, NEW w \in {"cmd", "res"}
  PROVE  Known(Append(h, Entry(i, w)))
<1>1. Entry(i, w) \in Entries
  BY CallsAssumption DEF Entries, Entry
<1>2. Entry(i, w).id = i
  BY DEF Entry
<1> QED
  BY <1>1, <1>2 DEF Known

\* What add_history does not touch, and which the step of a thread changes
\* only for itself.
LEMMA HistoryElsewhere ==
  ASSUME NEW c \in Clients, HistoryInv, ChannelTypes, 
         UNCHANGED <<calls, req>>, 
         \A d \in Clients : d # c => pc'[d] = pc[d],
         NEW j, j = req[c].id, pc[c] # "idle",
         \A k : k # j => (Uses(HISTORY', k) <=> Uses(HISTORY, k))
                        /\ (Uses(HISTORY_HTML', k) <=> Uses(HISTORY_HTML, k)),
         \A k, w : k # j => (Has(HISTORY', k, w) <=> Has(HISTORY, k, w))
                        /\ (Has(HISTORY_HTML', k, w) <=> Has(HISTORY_HTML, k, w))
  PROVE  \A d \in Clients : d # c => HistoryAt(d)'
<1> SUFFICES ASSUME NEW d \in Clients, d # c PROVE HistoryAt(d)'
  OBVIOUS
<1>1. HistoryAt(d) /\ pc'[d] = pc[d] /\ req'[d] = req[d] /\ calls' = calls
  BY DEF HistoryInv
<1>2. CASE pc[d] = "idle"
  BY <1>1, <1>2 DEF HistoryAt
<1>3. CASE pc[d] # "idle"
  <2>1. req[d].id # j
    BY <1>3 DEF HistoryInv, OwnRequest
  <2> QED
    BY <1>1, <1>3, <2>1 DEF HistoryAt
<1> QED
  BY <1>2, <1>3

LEMMA ShownAppend ==
  ASSUME NEW h \in Seq(Entries), NEW g \in Seq(Entries), NEW e \in Entries,
         \A i \in DOMAIN h : \E j \in DOMAIN g : g[j] = h[i]
  PROVE  /\ \A i \in DOMAIN h : \E j \in DOMAIN Append(g, e) : Append(g, e)[j] = h[i]
         /\ (\E j \in DOMAIN g : g[j] = e) =>
              \A i \in DOMAIN Append(h, e) : \E j \in DOMAIN g : g[j] = Append(h, e)[i]
<1>1. /\ DOMAIN Append(g, e) = DOMAIN g \cup {Len(g) + 1}
      /\ \A j \in DOMAIN g : Append(g, e)[j] = g[j]
  OBVIOUS
<1>2. /\ DOMAIN Append(h, e) = DOMAIN h \cup {Len(h) + 1}
      /\ \A j \in DOMAIN h : Append(h, e)[j] = h[j]
      /\ Append(h, e)[Len(h) + 1] = e
  OBVIOUS
<1> QED
  BY <1>1, <1>2, Zenon

\* The four appends of add_history.
LEMMA HistoryAppended ==
  ASSUME HistoryInv, ChannelTypes, NEW c \in Clients, add_history(c)
  PROVE  HistoryInv'
<1> DEFINE i == req[c].id
           cmd == Entry(i, "cmd")
           res == Entry(i, "res")
<1>1. /\ UNCHANGED <<calls, req>> /\ pc[c] # "idle"
      /\ \A d \in Clients : d # c => pc'[d] = pc[d]
      /\ calls \in Nat /\ calls <= MaxCalls
  BY DEF add_history, AppendHtml, AppendHistory, ChannelTypes, queues, HistoryInv
<1>2. i \in 1..calls /\ i \in 1..MaxCalls
  BY <1>1, CallsAssumption DEF HistoryInv, HistoryAt
<1>3. /\ HISTORY \in Seq(Entries) /\ HISTORY_HTML \in Seq(Entries)
      /\ cmd \in Entries /\ res \in Entries
  BY <1>2 DEF HistoryInv, Known, Entries, Entry
<1>4. OwnRequest'
  BY <1>1 DEF HistoryInv, OwnRequest
<1>6. \A v, w, k : Entry(k, v) = Entry(i, w) => k = i /\ v = w
  BY EntryInjective
<1>7. "cmd" # "res"
  OBVIOUS
<1> HIDE DEF i
<1>8. ASSUME NEW w \in {"cmd", "res"},
             HISTORY_HTML' = Append(HISTORY_HTML, Entry(i, w)), UNCHANGED HISTORY,
             InOrder(HISTORY_HTML'), HistoryAt(c)'
      PROVE  HistoryInv'
  <2>1. /\ \A j : Uses(HISTORY_HTML', j) <=> Uses(HISTORY_HTML, j) \/ j = i
        /\ \A j, v : Has(HISTORY_HTML', j, v)
                        <=> Has(HISTORY_HTML, j, v) \/ Entry(j, v) = Entry(i, w)
    BY <1>3, <1>8, AppendHas
  <2>2. \A d \in Clients : d # c => HistoryAt(d)'
    BY <1>1, <1>6, <1>8, <2>1, HistoryElsewhere DEF i
  <2>3. Known(HISTORY_HTML)' /\ Known(HISTORY)'
    BY <1>1, <1>2, <1>8, KnownAppend DEF HistoryInv, Known
  <2>4. Shown'
    <3>1. Entry(i, w) \in Entries /\ Shown
      BY <1>3, <1>8 DEF HistoryInv
    <3>2. \A a \in DOMAIN HISTORY : \E b \in DOMAIN Append(HISTORY_HTML, Entry(i, w)) :
            Append(HISTORY_HTML, Entry(i, w))[b] = HISTORY[a]
      BY <1>3, <3>1, ShownAppend, Zenon DEF Shown
    <3> QED
      BY <1>8, <3>2, Zenon DEF Shown
  <2> QED
    BY <1>1, <1>4, <1>8, <2>2, <2>3, <2>4 DEF HistoryInv
<1>9. ASSUME NEW w \in {"cmd", "res"},
             HISTORY' = Append(HISTORY, Entry(i, w)), UNCHANGED HISTORY_HTML,
             Has(HISTORY_HTML, i, w),
             InOrder(HISTORY'), HistoryAt(c)'
      PROVE  HistoryInv'
  <2>1. /\ \A j : Uses(HISTORY', j) <=> Uses(HISTORY, j) \/ j = i
        /\ \A j, v : Has(HISTORY', j, v)
                        <=> Has(HISTORY, j, v) \/ Entry(j, v) = Entry(i, w)
    BY <1>3, <1>9, AppendHas
  <2>2. \A d \in Clients : d # c => HistoryAt(d)'
    BY <1>1, <1>6, <1>9, <2>1, HistoryElsewhere DEF i
  <2>3. Known(HISTORY_HTML)' /\ Known(HISTORY)'
    BY <1>1, <1>2, <1>9, KnownAppend DEF HistoryInv, Known
  <2>4. Shown'
    <3>1. Entry(i, w) \in Entries /\ Shown
      BY <1>3, <1>9 DEF HistoryInv
    <3> QED
      BY <1>3, <1>9, <3>1, ShownAppend, Zenon DEF Shown, Has
  <2> QED
    BY <1>1, <1>4, <1>9, <2>2, <2>3, <2>4 DEF HistoryInv
<1>10. HistoryAt(c) /\ req'[c].id = i /\ calls' = calls
  BY <1>1 DEF HistoryInv, i
<1>11. CASE pc[c] = "html_cmd"
  <2>1. /\ HISTORY_HTML' = Append(HISTORY_HTML, cmd) /\ UNCHANGED HISTORY
        /\ pc'[c] = "hist_cmd"
    BY <1>11 DEF add_history, AppendHtml, AppendHistory, ChannelTypes, i
  <2>2. ~Uses(HISTORY, i) /\ ~Uses(HISTORY_HTML, i)
    BY <1>10, <1>11 DEF HistoryAt, i
  <2>3. InOrder(HISTORY_HTML')
    BY <1>2, <1>3, <2>1, <2>2, AppendOrdered DEF HistoryInv
  <2>4. HistoryAt(c)'
    BY <1>2, <1>3, <1>6, <1>10, <2>1, <2>2, AppendHas, HasUses DEF HistoryAt
  <2> QED
    BY <1>8, <2>1, <2>3, <2>4
<1>12. CASE pc[c] = "hist_cmd"
  <2>1. /\ HISTORY' = Append(HISTORY, cmd) /\ UNCHANGED HISTORY_HTML
        /\ pc'[c] \in {"html_res", "return"}
    BY <1>12 DEF add_history, AppendHtml, AppendHistory, ChannelTypes, AfterText, i
  <2>2. /\ ~Uses(HISTORY, i) /\ Has(HISTORY_HTML, i, "cmd")
        /\ ~Has(HISTORY_HTML, i, "res")
    BY <1>10, <1>12 DEF HistoryAt, i
  <2>3. InOrder(HISTORY')
    BY <1>2, <1>3, <2>1, <2>2, AppendOrdered DEF HistoryInv
  <2>4. HistoryAt(c)'
    BY <1>2, <1>3, <1>6, <1>10, <2>1, <2>2, AppendHas, HasUses DEF HistoryAt
  <2> QED
    BY <1>9, <2>1, <2>2, <2>3, <2>4
<1>13. CASE pc[c] = "html_res"
  <2>1. /\ HISTORY_HTML' = Append(HISTORY_HTML, res) /\ UNCHANGED HISTORY
        /\ pc'[c] = "hist_res"
    BY <1>13 DEF add_history, AppendHtml, AppendHistory, ChannelTypes, i
  <2>2. ~Has(HISTORY, i, "res") /\ ~Has(HISTORY_HTML, i, "res")
    BY <1>10, <1>13 DEF HistoryAt, i
  <2>3. InOrder(HISTORY_HTML')
    BY <1>2, <1>3, <2>1, <2>2, AppendOrdered DEF HistoryInv
  <2>4. HistoryAt(c)'
    BY <1>2, <1>3, <1>10, <2>1, <2>2, AppendHas DEF HistoryAt
  <2> QED
    BY <1>8, <2>1, <2>3, <2>4
<1>14. CASE pc[c] = "hist_res"
  <2>1. /\ HISTORY' = Append(HISTORY, res) /\ UNCHANGED HISTORY_HTML
        /\ pc'[c] = "return"
    BY <1>14 DEF add_history, AppendHtml, AppendHistory, ChannelTypes, i
  <2>2. ~Has(HISTORY, i, "res") /\ Has(HISTORY_HTML, i, "res")
    BY <1>10, <1>14 DEF HistoryAt, i
  <2>3. InOrder(HISTORY')
    BY <1>2, <1>3, <2>1, <2>2, AppendOrdered DEF HistoryInv
  <2>4. HistoryAt(c)'
    BY <1>2, <1>10, <2>1 DEF HistoryAt
  <2> QED
    BY <1>9, <2>1, <2>2, <2>3, <2>4
<1> QED
  BY <1>11, <1>12, <1>13, <1>14 DEF add_history, AppendHtml, AppendHistory

LEMMA HistoryStart == Init => HistoryInv
BY CallsAssumption DEF Init, HistoryInv, Known, OwnRequest, HistoryAt, InOrder, Shown

LEMMA HistoryStep ==
  ASSUME HistoryInv, ChannelTypes, [Next]_vars
  PROVE  HistoryInv'
<1>1. ASSUME UNCHANGED <<calls, req, HISTORY, HISTORY_HTML>>,
             \A c \in Clients : pc'[c] # pc[c] =>
               /\ pc[c] # "idle"
               /\ \/ pc'[c] \in {"idle", "rows", "return"}
                  \/ pc[c] \in {"recv", "parse"} /\ pc'[c] \notin {"hist_cmd", "hist_res"}
      PROVE  HistoryInv'
  <2>1. /\ InOrder(HISTORY)' /\ InOrder(HISTORY_HTML)' /\ Shown'
        /\ Known(HISTORY)' /\ Known(HISTORY_HTML)'
        /\ calls' \in Nat /\ calls' <= MaxCalls
    BY <1>1 DEF HistoryInv, InOrder, Shown, Known
  <2>2. OwnRequest'
    BY <1>1 DEF HistoryInv, OwnRequest
  <2>3. ASSUME NEW c \in Clients PROVE HistoryAt(c)'
    <3>1. HistoryAt(c) /\ pc[c] \in PCs
      BY DEF HistoryInv, ChannelTypes
    <3>2. CASE pc'[c] = pc[c]
      BY <1>1, <3>1, <3>2 DEF HistoryAt
    <3>3. CASE pc'[c] # pc[c]
      BY <1>1, <3>1, <3>3, HasUses DEF HistoryAt
    <3> QED
      BY <3>2, <3>3
  <2> QED
    BY <2>1, <2>2, <2>3 DEF HistoryInv
<1>2. CASE SwitchAnswers \/ SwitchCloses \/ UNCHANGED vars
  BY <1>1, <1>2 DEF SwitchAnswers, SwitchCloses, vars, threads, shared
<1>3. ASSUME NEW c \in Clients, NEW r \in Requests, SendRequest(c, r)
      PROVE  HistoryInv'
  <2>1. /\ calls \in Nat /\ calls < MaxCalls /\ calls' = calls + 1 /\ r.id = calls + 1
        /\ UNCHANGED <<HISTORY, HISTORY_HTML>>
        /\ req'[c] = r /\ pc'[c] \in {"recv", "return"}
        /\ \A d \in Clients : d # c => req'[d] = req[d] /\ pc'[d] = pc[d]
    BY <1>3 DEF SendRequest, ChannelTypes
  <2>2. calls' \in Nat /\ calls' <= MaxCalls
    BY <2>1, CallsAssumption
  <2>3. Known(HISTORY)' /\ Known(HISTORY_HTML)'
    BY <2>1 DEF HistoryInv, Known
  <2>4. /\ \A d \in Clients : pc[d] # "idle" => req[d].id \in 1..calls
        /\ calls + 1 \notin 1..calls
    BY <2>1 DEF HistoryInv, HistoryAt
  <2>5. OwnRequest'
    BY <2>1, <2>4 DEF HistoryInv, OwnRequest
  <2>6. ~Uses(HISTORY, r.id) /\ ~Uses(HISTORY_HTML, r.id)
    BY <2>1, <2>4, KnownFacts DEF HistoryInv
  <2>7. HistoryAt(c)'
    BY <2>1, <2>6 DEF HistoryAt
  <2>8. ASSUME NEW d \in Clients, d # c PROVE HistoryAt(d)'
    BY <2>1, <2>8 DEF HistoryInv, HistoryAt
  <2>9. InOrder(HISTORY)' /\ InOrder(HISTORY_HTML)' /\ Shown'
    BY <2>1 DEF HistoryInv, InOrder, Shown
  <2> QED
    BY <2>2, <2>3, <2>5, <2>7, <2>8, <2>9 DEF HistoryInv
<1>4. ASSUME NEW c \in Clients, send(c) \/ showinfo(c) \/ list_commands(c)
      PROVE  HistoryInv'
  BY <1>3, <1>4 DEF send, showinfo, list_commands
<1>5. ASSUME NEW c \in Clients, Recv(c) \/ ParseLine(c)
      PROVE  HistoryInv'
  <2>1. /\ UNCHANGED <<calls, req, HISTORY, HISTORY_HTML>>
        /\ pc[c] \in {"recv", "parse"}
        /\ pc' = pc \/ \E p \in After \cup {"parse"} : pc' = [pc EXCEPT ![c] = p]
    BY <1>5, AfterFacts
    DEF Recv, ParseLine, Consume, Finish, shared, queues, ChannelTypes
  <2> QED
    BY <1>1, <2>1 DEF After, ChannelTypes
<1>6. ASSUME NEW c \in Clients, ReadMore(c) \/ AddRows(c) \/ Return(c)
      PROVE  HistoryInv'
  <2>1. /\ UNCHANGED <<calls, req, HISTORY, HISTORY_HTML>>
        /\ \/ pc[c] = "parse" /\ pc' = [pc EXCEPT ![c] = "recv"]
           \/ pc[c] \in {"rows", "return"} /\ \E p \in {"return", "idle"} : pc' = [pc EXCEPT ![c] = p]
    BY <1>6 DEF ReadMore, AddRows, Return, shared, queues
  <2> QED
    BY <1>1, <2>1 DEF ChannelTypes
<1> QED
  BY <1>2, <1>4, <1>5, <1>6, HistoryAppended DEF Next, Step

\* However the threads interleave, and whatever they do to each other's
\* responses, each call has at most one command and one response in each
\* history, in this order, and HISTORY shows nothing that HISTORY_HTML does
\* not: a request has one number, and add_history has appended nothing for
\* it, or what its place says, when it appends.
THEOREM HistoriesAreOrdered == Spec => []HistoryInOrder
<1>1. HistoryInv => HistoryInOrder
  BY DEF HistoryInv, HistoryInOrder, Shown
<1> QED
  BY <1>1, HistoryStart, HistoryStep, TypesHold, PTL DEF Spec

-----------------------------------------------------------------------------
(* The histories of a sole owner *)

EndsWith(h, e) == h # <<>> /\ h[Len(h)] = e

\* The command stands at the end of a history until its response goes in; an
\* empty command, which is not recorded, has no response.
PairedAt(c) ==
  /\ pc[c] \in {"hist_cmd", "html_res"} =>
       EndsWith(HISTORY_HTML, Entry(req[c].id, "cmd"))
  /\ pc[c] \in {"html_res", "hist_res"} =>
       EndsWith(HISTORY, Entry(req[c].id, "cmd"))
  /\ pc[c] # "idle" /\ req[c].cmd = Blank =>
       /\ resp[c].text = <<>> /\ toSwitch = <<>>
       /\ buffer[c] = <<>> /\ fromSwitch = <<>>
PairedInv(c) == PairedAt(c) /\ HistoryPaired

LEMMA PairedAppend ==
  ASSUME NEW h \in Seq(Entries), NEW i, NEW w, Paired(h),
         w = "cmd" \/ EndsWith(h, Entry(i, "cmd"))
  PROVE  /\ Paired(Append(h, Entry(i, w)))
         /\ EndsWith(Append(h, Entry(i, w)), Entry(i, w))
<1> DEFINE g == Append(h, Entry(i, w))
<1>1. /\ DOMAIN h = 1..Len(h) /\ Len(h) \in Nat /\ DOMAIN g = 1..Len(h) + 1
      /\ \A k \in 1..Len(h) : g[k] = h[k]
      /\ g[Len(h) + 1] = Entry(i, w) /\ Len(g) = Len(h) + 1
      /\ h # <<>> => Len(h) >= 1
      /\ g # <<>>
  <2>1. Len(g) = Len(h) + 1 /\ Len(h) \in Nat
    OBVIOUS
  <2>2. g # <<>>
    BY <2>1
  <2> QED
    BY <2>1, <2>2
<1>2. Entry(i, w).id = i /\ Entry(i, w).what = w /\ "cmd" # "res"
  BY DEF Entry
<1> HIDE DEF g
<1>3. ASSUME NEW k \in DOMAIN g, g[k].what = "res"
      PROVE  k > 1 /\ g[k-1] = Entry(g[k].id, "cmd")
  <2>1. CASE k \in 1..Len(h)
    <3>1. k > 1 /\ h[k-1] = Entry(h[k].id, "cmd")
      BY <1>1, <1>3, <2>1 DEF Paired
    <3>2. k - 1 \in 1..Len(h)
      BY <1>1, <2>1, <3>1
    <3> QED
      BY <1>1, <2>1, <3>1, <3>2
  <2>2. CASE k = Len(h) + 1
    <3>1. EndsWith(h, Entry(i, "cmd"))
      BY <1>1, <1>2, <1>3, <2>2
    <3>2. Len(h) \in 1..Len(h) /\ k - 1 = Len(h) /\ k > 1
      BY <1>1, <2>2, <3>1 DEF EndsWith
    <3> QED
      BY <1>1, <1>2, <2>2, <3>1, <3>2 DEF EndsWith
  <2> QED
    BY <1>1, <2>1, <2>2
<1>4. Paired(g) /\ EndsWith(g, Entry(i, w))
  BY <1>1, <1>3 DEF Paired, EndsWith
<1> QED
  BY <1>4 DEF g

LEMMA AfterPaired ==
  ASSUME NEW r \in Requests, NEW text, r.cmd = Blank => text = <<>>
  PROVE  AfterResponse(r, text) \in {"rows", "return", "html_cmd"}
BY NamesAssumption DEF AfterResponse, AfterText, Requests

LEMMA PairedStep ==
  ASSUME NEW c, Clients = {c}, ChannelTypes, HistoryInv, SoleInv(c),
         PairedInv(c), [Next]_vars
  PROVE  PairedInv(c)'
<1> c \in Clients
  OBVIOUS
<1>1. ASSUME UNCHANGED <<HISTORY, HISTORY_HTML>>, PairedAt(c)'
      PROVE  PairedInv(c)'
  BY <1>1 DEF PairedInv, HistoryPaired, Paired
<1>2. CASE UNCHANGED vars
  <2>1. PairedAt(c)'
    BY <1>2 DEF PairedInv, PairedAt, vars, queues, threads, shared
  <2> QED
    BY <1>1, <1>2, <2>1 DEF vars, shared
<1>3. CASE SwitchAnswers \/ SwitchCloses
  <2>1. /\ UNCHANGED <<pc, req, resp, buffer, HISTORY, HISTORY_HTML>>
        /\ toSwitch = <<>> => toSwitch' = <<>> /\ fromSwitch' = fromSwitch
    <3>1. CASE SwitchAnswers
      <4>1. Len(toSwitch) >= 1
        BY <3>1 DEF SwitchAnswers, ChannelTypes
      <4> QED
        BY <3>1, <4>1 DEF SwitchAnswers, threads, shared
    <3>2. CASE SwitchCloses
      BY <3>2 DEF SwitchCloses, threads, shared
    <3> QED
      BY <1>3, <3>1, <3>2
  <2>2. PairedAt(c)'
    BY <2>1 DEF PairedInv, PairedAt
  <2> QED
    BY <1>1, <2>1, <2>2
<1>4. ASSUME NEW r \in Requests, SendRequest(c, r)
      PROVE  PairedInv(c)'
  <2>1. /\ UNCHANGED <<HISTORY, HISTORY_HTML, fromSwitch, buffer>>
        /\ pc[c] = "idle" /\ pc'[c] \in {"recv", "return"} /\ req'[c] = r /\ resp'[c] = Empty
        /\ r.cmd = Blank => toSwitch' = toSwitch
    BY <1>4 DEF SendRequest, ChannelTypes
  <2>2. toSwitch = <<>> /\ fromSwitch = <<>> /\ buffer[c] = <<>>
    BY <2>1 DEF SoleInv, Waiting
  <2>3. PairedAt(c)'
    BY <2>1, <2>2 DEF PairedAt, Empty
  <2> QED
    BY <1>1, <2>1, <2>3
<1>5. CASE Recv(c)
  <2>1. /\ UNCHANGED <<HISTORY, HISTORY_HTML, toSwitch, req, resp>>
        /\ req[c] \in Requests /\ pc[c] = "recv"
    BY <1>5 DEF Recv, shared, ChannelTypes
  <2>2. req[c].cmd = Blank => fromSwitch = <<>> /\ resp[c].text = <<>> /\ toSwitch = <<>> /\ buffer[c] = <<>>
    BY <2>1 DEF PairedInv, PairedAt
  <2>3. AfterResponse(req[c], resp[c].text) \in {"rows", "return", "html_cmd"}
    BY <2>1, <2>2, AfterPaired
  <2>4. /\ pc'[c] \in {"parse", "rows", "return", "html_cmd"}
        /\ fromSwitch = <<>> => UNCHANGED <<fromSwitch, buffer>>
    BY <1>5, <2>3 DEF Recv, ChannelTypes
  <2>5. PairedAt(c)'
    BY <2>1, <2>2, <2>4 DEF PairedAt
  <2> QED
    BY <1>1, <2>1, <2>5
<1>6. CASE ParseLine(c)
  <2>1. /\ UNCHANGED <<HISTORY, HISTORY_HTML, toSwitch, req>>
        /\ req[c] \in Requests /\ pc[c] = "parse" /\ buffer[c] # <<>>
    BY <1>6 DEF ParseLine, shared, queues, ChannelTypes
  <2>2. req[c].cmd # Blank
    BY <2>1 DEF PairedInv, PairedAt
  <2>3. AfterResponse(req[c], resp[c].text) \in {"rows", "return", "html_cmd"}
    BY <2>1, <2>2, AfterPaired
  <2>4. pc'[c] \in {"parse", "rows", "return", "html_cmd"}
    BY <1>6, <2>1, <2>3 DEF ParseLine, Consume, Finish, ChannelTypes
  <2>5. PairedAt(c)'
    BY <2>1, <2>2, <2>4 DEF PairedAt
  <2> QED
    BY <1>1, <2>1, <2>5
<1>7. CASE ReadMore(c) \/ AddRows(c) \/ Return(c)
  <2>1. /\ UNCHANGED <<HISTORY, HISTORY_HTML, toSwitch, fromSwitch, req, buffer, resp>>
        /\ pc[c] # "idle" /\ pc'[c] \in {"recv", "return", "idle"}
    BY <1>7 DEF ReadMore, AddRows, Return, shared, queues, ChannelTypes
  <2>2. PairedAt(c)'
    BY <2>1 DEF PairedInv, PairedAt
  <2> QED
    BY <1>1, <2>1, <2>2
<1>8. CASE add_history(c)
  <2>1. /\ UNCHANGED <<toSwitch, fromSwitch, req, buffer, resp>> /\ pc[c] # "idle"
        /\ HISTORY \in Seq(Entries) /\ HISTORY_HTML \in Seq(Entries)
        /\ Paired(HISTORY) /\ Paired(HISTORY_HTML) /\ PairedAt(c)
    BY <1>8 DEF add_history, AppendHtml, AppendHistory, queues, HistoryInv, Known,
                PairedInv, HistoryPaired
  <2> DEFINE i == req[c].id
  <2>2. CASE pc[c] \in {"html_cmd", "html_res"}
    <3> DEFINE w == IF pc[c] = "html_cmd" THEN "cmd" ELSE "res"
    <3>1. /\ HISTORY_HTML' = Append(HISTORY_HTML, Entry(i, w)) /\ UNCHANGED HISTORY
          /\ pc'[c] = IF pc[c] = "html_cmd" THEN "hist_cmd" ELSE "hist_res"
      BY <1>8, <2>2 DEF add_history, AppendHtml, AppendHistory, ChannelTypes
    <3>2. Paired(HISTORY_HTML') /\ EndsWith(HISTORY_HTML', Entry(i, w))
      BY <2>1, <2>2, <3>1, PairedAppend DEF PairedAt
    <3>3. PairedAt(c)'
      BY <2>1, <2>2, <3>1, <3>2 DEF PairedAt
    <3>4. Paired(HISTORY')
      BY <2>1, <3>1
    <3> QED
      BY <3>2, <3>3, <3>4 DEF PairedInv, HistoryPaired
  <2>3. CASE pc[c] \in {"hist_cmd", "hist_res"}
    <3> DEFINE w == IF pc[c] = "hist_cmd" THEN "cmd" ELSE "res"
    <3>1. /\ HISTORY' = Append(HISTORY, Entry(i, w)) /\ UNCHANGED HISTORY_HTML
          /\ pc'[c] \in {"html_res", "return"}
          /\ pc'[c] = "html_res" => pc[c] = "hist_cmd"
      BY <1>8, <2>3 DEF add_history, AppendHtml, AppendHistory, AfterText, ChannelTypes
    <3>2. Paired(HISTORY') /\ EndsWith(HISTORY', Entry(i, w))
      BY <2>1, <2>3, <3>1, PairedAppend DEF PairedAt
    <3>3. PairedAt(c)'
      BY <2>1, <2>3, <3>1, <3>2 DEF PairedAt
    <3>4. Paired(HISTORY_HTML')
      BY <2>1, <3>1
    <3> QED
      BY <3>2, <3>3, <3>4 DEF PairedInv, HistoryPaired
  <2> QED
    BY <1>8, <2>2, <2>3 DEF add_history, AppendHtml, AppendHistory
<1>9. CASE send(c) \/ showinfo(c) \/ list_commands(c)
  BY <1>4, <1>9 DEF send, showinfo, list_commands
<1> QED
  BY <1>2, <1>3, <1>5, <1>6, <1>7, <1>8, <1>9 DEF Next, Step

\* When a single thread makes all the calls, a response stands directly
\* below its command in both histories: add_history appends to each of them
\* command and response of one call before those of the next, and a command
\* that strip() empties gets no response to record.
THEOREM SoleOwnerPairsHistory ==
  ASSUME NEW c, Clients = {c}
  PROVE  Spec => []HistoryPaired
<1>1. Init => SoleInv(c) /\ HistoryInv /\ PairedInv(c)
  <2>1. Init => PairedInv(c)
    BY DEF Init, PairedInv, PairedAt, HistoryPaired, Paired
  <2> QED
    BY <2>1, SoleStart, HistoryStart
<1>2. /\ ChannelTypes /\ SoleInv(c) /\ HistoryInv /\ PairedInv(c)
      /\ [Next]_vars
      => SoleInv(c)' /\ HistoryInv' /\ PairedInv(c)'
  BY SoleStep, HistoryStep, PairedStep
<1>3. PairedInv(c) => HistoryPaired
  BY DEF PairedInv
<1> QED
  BY <1>1, <1>2, <1>3, TypesHold, PTL DEF Spec

-----------------------------------------------------------------------------
(* The abstract service, as a sole owner gets it                           *)

IsLog(a, h, out) == a = [n \in 0..Len(h) |->
  IF n = 0 THEN <<>> ELSE Logging(a[n - 1], h[n], out)]

LEMMA LeastOf ==
  ASSUME NEW S \in SUBSET Nat, S # {}
  PROVE  \E n \in S : \A m \in S : ~(m < n)
<1>1. IsWellFoundedOn(OpToRel(<, Nat), Nat)
  BY NatLessThanWellFounded
<1>2. PICK n \in S : \A m \in S : ~(<<m, n>> \in OpToRel(<, Nat))
  BY <1>1, WFMin
<1> QED
  BY <1>2 DEF OpToRel

\* The recursion that selects the commands has a value for every history.
LEMMA LogExists ==
  ASSUME NEW h \in Seq(Entries), NEW out
  PROVE  \E a : IsLog(a, h, out)
<1> DEFINE Start(a, n) == a = [k \in 0..n |->
             IF k = 0 THEN <<>> ELSE Logging(a[k - 1], h[k], out)]
           S == {n \in Nat : ~\E a : Start(a, n)}
<1>1. S = {}
  <2> SUFFICES ASSUME S # {} PROVE FALSE
    OBVIOUS
  <2>1. PICK m \in S : \A n \in S : ~(n < m)
    <3>1. S \in SUBSET Nat /\ S # {}
      OBVIOUS
    <3> HIDE DEF S
    <3> QED
      BY <3>1, LeastOf
  <2>2. CASE m = 0
    <3> DEFINE a == [k \in 0..0 |-> <<>>]
    <3>1. Start(a, 0)
      OBVIOUS
    <3> QED
      BY <2>1, <2>2, <3>1
  <2>3. CASE m # 0
    <3>0. m - 1 \in Nat /\ m - 1 < m /\ m - 1 \notin S
      <4>1. m \in Nat /\ m - 1 \in Nat /\ m - 1 < m
        BY <2>1, <2>3
      <4> HIDE DEF S
      <4> QED
        BY <4>1, <2>1
    <3>1. PICK b : Start(b, m - 1)
      BY <3>0
    <3> DEFINE last == Logging(b[m - 1], h[m], out)
               a == [k \in 0..m |-> IF k = m THEN last ELSE b[k]]
    <3>2. \A k \in 0..m : a[k] = IF k = 0 THEN <<>> ELSE Logging(a[k - 1], h[k], out)
      BY <2>1, <2>3, <3>1
    <3>3. Start(a, m)
      BY <3>2
    <3> QED
      BY <2>1, <3>3
  <2> QED
    BY <2>2, <2>3
<1>2. Len(h) \in Nat
  OBVIOUS
<1>3. PICK a : Start(a, Len(h))
  BY <1>1, <1>2
<1> QED
  BY <1>3 DEF IsLog

\* Logged(h, out) is the last value of such a function.
LEMMA LogOf ==
  ASSUME NEW h \in Seq(Entries), NEW out
  PROVE  \E a : IsLog(a, h, out) /\ Logged(h, out) = a[Len(h)]
<1> DEFINE a == CHOOSE a : IsLog(a, h, out)
<1>1. Logged(h, out) = a[Len(h)]
  BY DEF Logged, IsLog
<1>2. IsLog(a, h, out)
  BY LogExists
<1> QED
  BY <1>1, <1>2

\* Two histories log the same up to n if the same commands stand there and
\* the same of them are left out.
SameUpTo(h, o, g, q, n) ==
  \A k \in 1..n : \A l : Logging(l, h[k], o) = Logging(l, g[k], q)

LEMMA LogsAgree ==
  ASSUME NEW h \in Seq(Entries), NEW g \in Seq(Entries), NEW o, NEW q,
         NEW n \in Nat, n <= Len(h), n <= Len(g),
         NEW a, IsLog(a, h, o), NEW b, IsLog(b, g, q),
         SameUpTo(h, o, g, q, n)
  PROVE  a[n] = b[n]
<1> DEFINE S == {k \in 0..n : a[k] # b[k]}
<1>1. S = {}
  <2> SUFFICES ASSUME S # {} PROVE FALSE
    OBVIOUS
  <2>1. PICK k \in S : \A m \in S : ~(m < k)
    <3>1. S \in SUBSET Nat /\ S # {}
      OBVIOUS
    <3> HIDE DEF S
    <3> QED
      BY <3>1, LeastOf
  <2>2. Len(h) \in Nat /\ Len(g) \in Nat
    OBVIOUS
  <2>3. CASE k = 0
    BY <2>1, <2>2, <2>3 DEF IsLog
  <2>4. CASE k # 0
    <3>1. k \in 1..n /\ k - 1 \in 0..n /\ k - 1 \notin S
      BY <2>1, <2>4
    <3>2. k \in 0..Len(h) /\ k \in 0..Len(g) /\ k # 0
      BY <2>2, <2>4, <3>1
    <3>3. a[k] = Logging(a[k - 1], h[k], o)
      BY <3>2, Zenon DEF IsLog
    <3>4. b[k] = Logging(b[k - 1], g[k], q)
      BY <3>2, Zenon DEF IsLog
    <3>5. a[k - 1] = b[k - 1]
      BY <3>1
    <3>6. Logging(a[k - 1], h[k], o) = Logging(b[k - 1], g[k], q)
      BY <3>1, <3>5 DEF SameUpTo
    <3> QED
      BY <2>1, <3>3, <3>4, <3>6
  <2> QED
    BY <2>3, <2>4
<1> QED
  BY <1>1

LEMMA LoggedSame ==
  ASSUME NEW h \in Seq(Entries), NEW i, ~Uses(h, i)
  PROVE  Logged(h, {i}) = Logged(h, {})
<1>1. \A k \in 1..Len(h) : \A l : Logging(l, h[k], {i}) = Logging(l, h[k], {})
  BY DEF Uses, Logging
<1>2. PICK o, q : o = {i} /\ q = {}
  OBVIOUS
<1>3. SameUpTo(h, o, h, q, Len(h))
  BY <1>1, <1>2 DEF SameUpTo
<1>4. PICK a : IsLog(a, h, o) /\ Logged(h, o) = a[Len(h)]
  BY LogOf
<1>5. PICK b : IsLog(b, h, q) /\ Logged(h, q) = b[Len(h)]
  BY LogOf
<1>6. Len(h) \in Nat /\ Len(h) <= Len(h)
  OBVIOUS
<1>7. a[Len(h)] = b[Len(h)]
  BY <1>3, <1>4, <1>5, <1>6, LogsAgree
<1> QED
  BY <1>2, <1>4, <1>5, <1>7

LEMMA LoggedAppend ==
  ASSUME NEW h \in Seq(Entries), NEW e \in Entries, NEW out
  PROVE  Logged(Append(h, e), out) = Logging(Logged(h, out), e, out)
<1> DEFINE g == Append(h, e)
<1>1. PICK a : IsLog(a, h, out) /\ Logged(h, out) = a[Len(h)]
  BY LogOf
<1>2. /\ g \in Seq(Entries) /\ Len(g) = Len(h) + 1 /\ Len(h) \in Nat
      /\ g[Len(h) + 1] = e /\ \A k \in 1..Len(h) : g[k] = h[k]
  OBVIOUS
<1> HIDE DEF g
<1>3. PICK b : IsLog(b, g, out) /\ Logged(g, out) = b[Len(g)]
  BY <1>2, LogOf
<1>4. a[Len(h)] = b[Len(h)]
  <2>1. Len(h) <= Len(h) /\ Len(h) <= Len(g) /\ SameUpTo(h, out, g, out, Len(h))
    BY <1>2 DEF SameUpTo
  <2> QED
    BY <1>1, <1>2, <1>3, <2>1, LogsAgree
<1>5. b[Len(g)] = Logging(b[Len(g) - 1], g[Len(g)], out)
  BY <1>2, <1>3 DEF IsLog
<1>6. Len(g) - 1 = Len(h)
  BY <1>2
<1>7. Logged(g, out) = Logging(Logged(h, out), e, out)
  BY <1>1, <1>2, <1>3, <1>4, <1>5, <1>6
<1> QED
  BY <1>7 DEF g

\* The command of the call in progress is in HISTORY from its append on, and
\* if a whole response is returned for a command of send() it is there.
LogAt(c) ==
  LET i == req[c].id
      done == Logged(HISTORY, {i})
      all == Logged(HISTORY, {})
  IN /\ Waiting(c) => ~Uses(HISTORY, i) /\ resp[c].status = NoStatus
     /\ pc[c] \in {"html_cmd", "hist_cmd", "rows"} => ~Uses(HISTORY, i)
     /\ pc[c] \in {"html_cmd", "hist_cmd", "html_res", "hist_res"} => req[c].op = "send"
     /\ pc[c] = "rows" => req[c].op # "send"
     /\ pc[c] \in {"html_res", "hist_res"} => all = Append(done, i)
     /\ pc[c] = "return" =>
          /\ all \in {done, Append(done, i)}
          /\ req[c].op # "send" => all = done
          /\ req[c].op = "send" /\ resp[c].status # NoStatus => all = Append(done, i)

LEMMA AfterLogged ==
  ASSUME NEW r \in Requests, NEW text
  PROVE  /\ AfterResponse(r, text) = "rows" => r.op # "send"
         /\ AfterResponse(r, text) \in {"html_cmd", "html_res"} => r.op = "send"
         /\ AfterResponse(r, text) = "html_res" => r.cmd = Blank
         /\ AfterResponse(r, text) = "return" => r.op # "send" \/ r.cmd = Blank
BY DEF AfterResponse, AfterText, Requests

LEMMA LogStep ==
  ASSUME NEW c, Clients = {c}, ChannelTypes, HistoryInv, SoleInv(c),
         PairedInv(c), LogAt(c), [Next]_vars
  PROVE  LogAt(c)'
<1> c \in Clients
  OBVIOUS
<1> DEFINE i == req[c].id
<1>0. /\ HISTORY \in Seq(Entries) /\ HistoryAt(c) /\ PairedAt(c)
      /\ pc[c] # "idle" => req[c] \in Requests
  BY DEF HistoryInv, Known, PairedInv, ChannelTypes
<1>1. CASE SwitchAnswers \/ SwitchCloses \/ UNCHANGED vars
  <2>1. UNCHANGED <<pc, req, resp, HISTORY>>
    BY <1>1 DEF SwitchAnswers, SwitchCloses, vars, threads, shared
  <2> QED
    BY <2>1 DEF LogAt, Waiting
<1>2. ASSUME NEW r \in Requests, SendRequest(c, r) PROVE LogAt(c)'
  <2>1. /\ UNCHANGED HISTORY /\ r.id = calls + 1 /\ pc'[c] \in {"recv", "return"}
        /\ req'[c] = r /\ resp'[c] = Empty
    BY <1>2 DEF SendRequest, ChannelTypes
  <2>2. ~Uses(HISTORY, r.id)
    BY <2>1 DEF HistoryInv, Known, Uses
  <2>3. Logged(HISTORY, {r.id}) = Logged(HISTORY, {})
    BY <1>0, <2>2, LoggedSame
  <2>4. /\ ~Uses(HISTORY, r.id)' /\ resp'[c].status = NoStatus /\ req'[c] = r
        /\ (Logged(HISTORY, {r.id}) = Logged(HISTORY, {}))'
    BY <2>1, <2>2, <2>3 DEF Empty, Uses
  <2> QED
    BY <2>1, <2>4 DEF LogAt, Waiting, Uses
<1>3. ASSUME Waiting(c), UNCHANGED <<req, HISTORY>>,
             pc'[c] \in {"recv", "parse"} => resp'[c].status = NoStatus,
             pc'[c] \in {"recv", "parse", "rows", "return", "html_cmd"},
             pc'[c] = "rows" => req[c].op # "send",
             pc'[c] = "html_cmd" => req[c].op = "send",
             pc'[c] = "return" => req[c].op # "send" \/ resp'[c].status = NoStatus
      PROVE  LogAt(c)'
  <2>1. ~Uses(HISTORY, i)
    BY <1>3 DEF LogAt
  <2>2. Logged(HISTORY, {i}) = Logged(HISTORY, {})
    BY <1>0, <2>1, LoggedSame
  <2> QED
    BY <1>3, <2>1, <2>2 DEF LogAt, Waiting, Uses
<1>4. CASE Recv(c)
  <2>1. /\ UNCHANGED <<req, resp, HISTORY>> /\ Waiting(c) /\ req[c] \in Requests
        /\ pc'[c] \in {"parse", AfterResponse(req[c], resp[c].text)}
    BY <1>4 DEF Recv, shared, ChannelTypes, Waiting
  <2>2. resp[c].status = NoStatus
    BY <2>1 DEF LogAt
  <2>3. req[c].cmd = Blank => resp[c].text = <<>>
    BY <1>0, <2>1 DEF PairedAt, Waiting
  <2>4. AfterResponse(req[c], resp[c].text) \in {"rows", "return", "html_cmd"}
    BY <2>1, <2>3, AfterPaired
  <2> QED
    BY <1>3, <2>1, <2>2, <2>4, AfterLogged
<1>5. CASE ParseLine(c)
  <2>1. /\ UNCHANGED <<req, HISTORY>> /\ Waiting(c) /\ req[c] \in Requests
        /\ buffer[c] # <<>> /\ pc[c] = "parse" /\ resp[c] \in Responses
    BY <1>5 DEF ParseLine, shared, queues, ChannelTypes, Waiting
  <2>2. req[c].cmd # Blank /\ resp[c].status = NoStatus
    BY <1>0, <2>1 DEF PairedAt, LogAt
  <2>3. AfterResponse(req[c], resp[c].text) \in {"rows", "return", "html_cmd"}
    BY <2>1, <2>2, AfterPaired
  <2>4. \/ pc'[c] = AfterResponse(req[c], resp[c].text)
        \/ pc'[c] = "parse" /\ \E x \in {BeginSeen(resp[c]), EndSeen(resp[c]), Keep(resp[c], Head(buffer[c]))} : resp'[c] = x
    BY <1>5, <2>1 DEF ParseLine, Consume, Finish, ChannelTypes
  <2>5. /\ BeginSeen(resp[c]).status = NoStatus /\ EndSeen(resp[c]).status = NoStatus
        /\ Keep(resp[c], Head(buffer[c])).status = NoStatus
    BY <2>1, <2>2 DEF BeginSeen, EndSeen, Keep, Responses
  <2>6. pc'[c] = "parse" => resp'[c].status = NoStatus
    BY <2>3, <2>4, <2>5
  <2>7. pc'[c] = "return" => req[c].op # "send"
    BY <2>1, <2>2, <2>3, <2>4, AfterLogged
  <2> QED
    BY <1>3, <2>1, <2>3, <2>4, <2>6, <2>7, AfterLogged
<1>6. CASE ReadMore(c)
  <2>1. /\ UNCHANGED <<req, resp, HISTORY>> /\ Waiting(c) /\ pc'[c] = "recv"
    BY <1>6 DEF ReadMore, shared, ChannelTypes, Waiting
  <2> QED
    BY <1>3, <2>1 DEF LogAt
<1>7. CASE AddRows(c)
  <2>1. /\ UNCHANGED <<req, resp, HISTORY>> /\ pc[c] = "rows" /\ pc'[c] = "return"
    BY <1>7 DEF AddRows, ChannelTypes
  <2>2. ~Uses(HISTORY, i) /\ req[c].op # "send"
    BY <2>1 DEF LogAt
  <2>3. Logged(HISTORY, {i}) = Logged(HISTORY, {})
    BY <1>0, <2>2, LoggedSame
  <2> QED
    BY <2>1, <2>2, <2>3 DEF LogAt, Waiting
<1>8. CASE Return(c)
  <2>1. pc'[c] = "idle"
    BY <1>8 DEF Return, ChannelTypes
  <2> QED
    BY <2>1 DEF LogAt, Waiting
<1>9. CASE add_history(c) /\ pc[c] \in {"html_cmd", "html_res"}
  <2>1. /\ UNCHANGED <<req, resp, HISTORY>>
        /\ pc'[c] = IF pc[c] = "html_cmd" THEN "hist_cmd" ELSE "hist_res"
    BY <1>9 DEF add_history, AppendHtml, AppendHistory, ChannelTypes
  <2> QED
    BY <1>9, <2>1 DEF LogAt, Waiting, Uses
<1>10. CASE add_history(c) /\ pc[c] = "hist_cmd"
  <2>1. /\ UNCHANGED <<req, resp>> /\ HISTORY' = Append(HISTORY, Entry(i, "cmd"))
        /\ pc'[c] \in {"html_res", "return"} /\ req[c].op = "send" /\ req[c] \in Requests
    BY <1>0, <1>10 DEF add_history, AppendHtml, AppendHistory, AfterText, ChannelTypes, LogAt
  <2>2. ~Uses(HISTORY, i) /\ Entry(i, "cmd") \in Entries
    BY <1>10, <2>1, RequestFacts DEF LogAt, Entry, Entries
  <2>3. Logged(HISTORY, {i}) = Logged(HISTORY, {})
    BY <1>0, <2>2, LoggedSame
  <2>4. /\ Logged(HISTORY', {i}) = Logged(HISTORY, {i})
        /\ Logged(HISTORY', {}) = Append(Logged(HISTORY, {}), i)
    BY <1>0, <2>1, <2>2, LoggedAppend DEF Logging, Entry
  <2> QED
    BY <2>1, <2>3, <2>4 DEF LogAt, Waiting
<1>11. CASE add_history(c) /\ pc[c] = "hist_res"
  <2>1. /\ UNCHANGED <<req, resp>> /\ HISTORY' = Append(HISTORY, Entry(i, "res"))
        /\ pc'[c] = "return" /\ req[c] \in Requests
    BY <1>0, <1>11 DEF add_history, AppendHtml, AppendHistory, ChannelTypes
  <2>2. Entry(i, "res") \in Entries
    BY <2>1, RequestFacts DEF Entry, Entries
  <2>3. /\ Logged(HISTORY', {i}) = Logged(HISTORY, {i})
        /\ Logged(HISTORY', {}) = Logged(HISTORY, {})
    BY <1>0, <2>1, <2>2, LoggedAppend DEF Logging, Entry
  <2> QED
    BY <1>11, <2>1, <2>3 DEF LogAt, Waiting
<1>12. CASE add_history(c)
  BY <1>9, <1>10, <1>11, <1>12 DEF add_history, AppendHtml, AppendHistory
<1>13. CASE send(c) \/ showinfo(c) \/ list_commands(c)
  BY <1>2, <1>13 DEF send, showinfo, list_commands
<1> QED
  BY <1>1, <1>4, <1>5, <1>6, <1>7, <1>8, <1>12, <1>13 DEF Next, Step

LEMMA ServiceStep ==
  ASSUME NEW c, Clients = {c}, ChannelTypes, HistoryInv, SoleInv(c), PairedInv(c),
         LogAt(c), [Next]_vars
  PROVE  [Service!Next]_(Service!vars)
<1> c \in Clients
  OBVIOUS
<1> DEFINE asked == [d \in Clients |-> IF pc[d] = "idle" THEN NoRequest ELSE req[d]]
           answered == [d \in Clients |-> AnswerOf(result[d])]
           log == Logged(HISTORY, InFlight)
           i == req[c].id
<1>0. /\ HISTORY \in Seq(Entries) /\ NoRequest = Service!None
      /\ pc[c] # "idle" => req[c] \in Requests
      /\ InFlight = IF pc[c] = "idle" THEN {} ELSE {i}
  BY DEF HistoryInv, Known, ChannelTypes, InFlight, NoRequest, Service!None
<1>1. ASSUME UNCHANGED <<req, result>>, pc[c] = "idle" <=> pc'[c] = "idle",
             Logged(HISTORY', {i}) = Logged(HISTORY, {i}) \/ UNCHANGED HISTORY,
             pc[c] = "idle" => UNCHANGED HISTORY
      PROVE  UNCHANGED Service!vars
  <2>1. UNCHANGED <<asked, answered>>
    BY <1>1
  <2>2. InFlight' = InFlight
    BY <1>1 DEF InFlight
  <2>3. UNCHANGED log
    BY <1>0, <1>1, <2>2
  <2> QED
    BY <2>1, <2>3 DEF Service!vars
<1>2. CASE SwitchAnswers \/ SwitchCloses \/ UNCHANGED vars
  <2>1. UNCHANGED <<pc, req, result, HISTORY>>
    BY <1>2 DEF SwitchAnswers, SwitchCloses, vars, threads, shared
  <2> QED
    BY <1>1, <2>1
<1>3. ASSUME NEW r \in Requests, SendRequest(c, r) PROVE Service!Ask(c, r)
  <2>1. /\ UNCHANGED <<HISTORY, result>> /\ r.id = calls + 1 /\ pc'[c] \in {"recv", "return"}
        /\ pc[c] = "idle" /\ req'[c] = r
    BY <1>3 DEF SendRequest, ChannelTypes
  <2>2. ~Uses(HISTORY, r.id)
    BY <2>1 DEF HistoryInv, Known, Uses
  <2>3. Logged(HISTORY, {r.id}) = Logged(HISTORY, {})
    BY <1>0, <2>2, LoggedSame
  <2>4. InFlight = {} /\ InFlight' = {r.id}
    BY <1>0, <2>1 DEF InFlight
  <2>5. UNCHANGED <<answered, log>>
    BY <2>1, <2>3, <2>4
  <2>6. asked[c] = NoRequest /\ asked' = [asked EXCEPT ![c] = r]
    BY <2>1
  <2> QED
    BY <1>0, <2>5, <2>6 DEF Service!Ask
<1>4. CASE Recv(c) \/ ParseLine(c) \/ ReadMore(c) \/ AddRows(c)
  <2>1. /\ UNCHANGED <<req, result, HISTORY>> /\ pc[c] # "idle" /\ pc'[c] # "idle"
    BY <1>0, <1>4, AfterFacts
    DEF Recv, ParseLine, Consume, Finish, ReadMore, AddRows, shared, ChannelTypes, After
  <2> QED
    BY <1>1, <2>1
<1>5. CASE add_history(c)
  <2>1. /\ UNCHANGED <<req, result>> /\ pc[c] # "idle" /\ pc'[c] # "idle"
        /\ UNCHANGED HISTORY \/ \E w \in {"cmd", "res"} : HISTORY' = Append(HISTORY, Entry(i, w))
    BY <1>5 DEF add_history, AppendHtml, AppendHistory, AfterText, ChannelTypes
  <2>2. \A w \in {"cmd", "res"} : Entry(i, w) \in Entries
    BY <1>0, <2>1, RequestFacts DEF Entry, Entries
  <2>3. ASSUME NEW w \in {"cmd", "res"}, HISTORY' = Append(HISTORY, Entry(i, w))
        PROVE  Logged(HISTORY', {i}) = Logged(HISTORY, {i})
    BY <1>0, <2>2, <2>3, LoggedAppend DEF Logging, Entry
  <2> QED
    BY <1>1, <2>1, <2>3
<1>6. CASE Return(c)
  <2>1. /\ UNCHANGED <<req, HISTORY>> /\ pc[c] = "return" /\ pc'[c] = "idle"
        /\ result' = [result EXCEPT ![c] = resp[c]] /\ req[c] \in Requests
    BY <1>6, <1>0 DEF Return, shared, ChannelTypes
  <2>2. asked[c] = req[c] /\ asked' = [asked EXCEPT ![c] = NoRequest] /\ req[c] # NoRequest
    BY <2>1, RequestFacts
  <2>3. answered' = [answered EXCEPT ![c] = AnswerOf(resp[c])]
    BY <2>1 DEF ChannelTypes
  <2>4. InFlight = {i} /\ InFlight' = {}
    BY <1>0, <2>1 DEF InFlight
  <2>5. log' = Logged(HISTORY, {}) /\ log = Logged(HISTORY, {i})
    BY <2>1, <2>4
  <2>6. Belongs(resp[c], req[c])
    BY <2>1 DEF SoleInv, Waiting, Good
  <2>7. CASE resp[c].status = i
    <3>1. i # NoStatus
      BY <2>1, RequestFacts
    <3>2. AnswerOf(resp[c]) = i
      BY <2>6, <2>7, <3>1 DEF Belongs, AnswerOf
    <3>3. log' = IF req[c].op = "send" THEN Append(log, i) ELSE log
      BY <2>1, <2>5, <2>7, <3>1 DEF LogAt
    <3>4. Service!Answer(c)
      BY <1>0, <2>2, <2>3, <3>2, <3>3 DEF Service!Answer
    <3> QED
      BY <3>4 DEF Service!Next
  <2>8. CASE resp[c].status = NoStatus
    <3>1. AnswerOf(resp[c]) = 0
      BY <2>8 DEF AnswerOf
    <3>2. log' \in {log, Append(log, i)}
      BY <2>1, <2>5 DEF LogAt
    <3>3. Service!Fail(c)
      BY <1>0, <2>2, <2>3, <3>1, <3>2 DEF Service!Fail
    <3> QED
      BY <3>3 DEF Service!Next
  <2> QED
    BY <2>6, <2>7, <2>8 DEF Belongs
<1>7. CASE send(c) \/ showinfo(c) \/ list_commands(c)
  BY <1>3, <1>7 DEF send, showinfo, list_commands, Service!Next
<1> QED
  BY <1>2, <1>4, <1>5, <1>6, <1>7 DEF Next, Step

\* When a single thread makes all the calls, class Vde2Mgmt implements what the
\* front ends expect of it: a call asks one command, is answered with the
\* response to it or fails because the switch has gone, and a command of
\* send() is in the history when its response is returned.
THEOREM SoleOwnerImplementsService ==
  ASSUME NEW c, Clients = {c}
  PROVE  Spec => ImplementsService
<1>1. Init => SoleInv(c) /\ HistoryInv /\ PairedInv(c) /\ LogAt(c)
  <2>1. Init => PairedInv(c) /\ LogAt(c)
    BY DEF Init, PairedInv, PairedAt, HistoryPaired, Paired, LogAt, Waiting
  <2> QED
    BY <2>1, SoleStart, HistoryStart
<1>2. /\ ChannelTypes /\ SoleInv(c) /\ HistoryInv /\ PairedInv(c) /\ LogAt(c)
      /\ [Next]_vars
      => SoleInv(c)' /\ HistoryInv' /\ PairedInv(c)' /\ LogAt(c)'
  BY SoleStep, HistoryStep, PairedStep, LogStep
<1>3. Init => Service!Init
  <2> SUFFICES ASSUME Init PROVE Service!Init
    OBVIOUS
  <2>1. HISTORY = <<>> /\ HISTORY \in Seq(Entries) /\ InFlight = {}
    BY DEF Init, InFlight
  <2>2. PICK a : IsLog(a, HISTORY, InFlight) /\ Logged(HISTORY, InFlight) = a[Len(HISTORY)]
    BY <2>1, LogOf
  <2>3. Logged(HISTORY, InFlight) = <<>>
    BY <2>1, <2>2 DEF IsLog
  <2>4. AnswerOf(Empty) = 0
    BY DEF AnswerOf, Empty
  <2> QED
    BY <2>3, <2>4 DEF Init, Service!Init, Service!None, NoRequest
<1>4. /\ ChannelTypes /\ SoleInv(c) /\ HistoryInv /\ PairedInv(c) /\ LogAt(c)
      /\ [Next]_vars
      => [Service!Next]_(Service!vars)
  BY ServiceStep
<1> QED
  BY <1>1, <1>2, <1>3, <1>4, TypesHold, PTL DEF Spec, ImplementsService, Service!Spec
=============================================================================
