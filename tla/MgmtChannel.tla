---------------------------- MODULE MgmtChannel ----------------------------
(***************************************************************************)
(* Class Vde2Mgmt of pyvdetelweb and utils.get_response: the threads of    *)
(* the telnet and the web front end share ONE stream socket to the         *)
(* management console of the VDE switch, without a lock.  A call writes    *)
(* its command without a terminator, then reads and parses lines until it  *)
(* sees a status line; whatever its buffer still holds is dropped.  Every  *)
(* step that touches the socket or the shared history is an action; the    *)
(* threads interleave between them.                                        *)
(*                                                                         *)
(* The switch is external.  It answers the commands in the order it reads  *)
(* them; one read() of its console may return several commands at once,    *)
(* which it then takes for a single unknown one.                           *)
(***************************************************************************)
EXTENDS Naturals, Sequences

CONSTANTS Clients,        \* threads that call Vde2Mgmt
          UserCommands,   \* what send() is called with
          DataCommands,   \* those of UserCommands whose response has data
          Blank,          \* a command that strip() empties
          MaxGlued,       \* commands one read() of the switch may return
          MaxCalls        \* bound: calls made in a behaviour

ASSUME CallsAssumption == MaxCalls \in Nat /\ MaxGlued \in Nat \ {0}
ASSUME CommandsAssumption == DataCommands \subseteq UserCommands \ {Blank}
ASSUME NamesAssumption == Blank \notin {"showinfo", "help"}

VARIABLES toSwitch,      \* commands written to the socket, not yet read
          fromSwitch,    \* lines the switch has written, not yet received
          closed,        \* the switch has closed the connection
          calls,         \* calls made so far; numbers the requests
          pc,            \* pc[c]: where thread c is in its call
          req,           \* req[c]: its current or last request
          buffer,        \* buffer[c]: received and not yet parsed lines
          resp,          \* resp[c]: the local variables of get_response
          result,        \* result[c]: what its last call returned
          HISTORY, HISTORY_HTML, HELP_COMMANDS  \* shared attributes of Vde2Mgmt

queues  == <<toSwitch, fromSwitch, closed>>
threads == <<pc, req, buffer, resp, result>>
shared  == <<HISTORY, HISTORY_HTML, HELP_COMMANDS>>
vars == <<queues, calls, threads, shared>>

-----------------------------------------------------------------------------
(* Data *)

Requests == [id : 1..MaxCalls, op : {"send"}, cmd : UserCommands]
       \cup [id : 1..MaxCalls, op : {"showinfo"}, cmd : {"showinfo"}]
       \cup [id : 1..MaxCalls, op : {"list_commands"}, cmd : {"help"}]

NoRequest == [id |-> 0, op |-> "none", cmd |-> "none"]

\* A line of the console, tagged with the request it belongs to (0: none).
Lines == [id : 0..MaxCalls, kind : {"begin", "data", "row", "end", "status"}]
Line(i, k) == [id |-> i, kind |-> k]

\* "0000 DATA END WITH '.'", the data, ".", "1000 Success"; one line stands
\* for the data, and it is a "row" in the response to help.
HasData(r) == r.op # "send" \/ r.cmd \in DataCommands
DataKind(r) == IF r.op = "list_commands" THEN "row" ELSE "data"
Response(r) ==
  IF HasData(r) THEN << Line(r.id, "begin"), Line(r.id, DataKind(r)),
                        Line(r.id, "end"), Line(r.id, "status") >>
                ELSE << Line(r.id, "status") >>

\* text: the data lines read; status: the id of the status line
NoStatus == MaxCalls + 1
Empty == [text |-> <<>>, status |-> NoStatus, end_char |-> FALSE, is_end |-> FALSE]

Entry(i, w) == [id |-> i, what |-> w]

-----------------------------------------------------------------------------
Init == /\ toSwitch = <<>> /\ fromSwitch = <<>> /\ closed = FALSE
        /\ calls = 0
        /\ pc = [c \in Clients |-> "idle"]
        /\ req = [c \in Clients |-> NoRequest]
        /\ buffer = [c \in Clients |-> <<>>]
        /\ resp = [c \in Clients |-> Empty]
        /\ result = [c \in Clients |-> Empty]
        /\ HISTORY = <<>> /\ HISTORY_HTML = <<>> /\ HELP_COMMANDS = <<>>

(* The switch *)

\* It reads the n oldest commands in one read(): one command is answered,
\* several glued together are an unknown command, answered by a status line.
SwitchAnswers ==
  \E n \in 1..Len(toSwitch) :
    /\ n <= MaxGlued
    /\ fromSwitch' = fromSwitch \o (IF n = 1 THEN Response(Head(toSwitch))
                                             ELSE << Line(0, "status") >>)
    /\ toSwitch' = SubSeq(toSwitch, n + 1, Len(toSwitch))
    /\ UNCHANGED <<closed, calls, threads, shared>>

\* It terminates, perhaps halfway through a response: commands it has not
\* answered are lost, lines it has written are not.
SwitchCloses ==
  /\ ~closed
  /\ closed' = TRUE
  /\ toSwitch' = <<>>
  /\ \/ UNCHANGED fromSwitch
     \/ /\ toSwitch # <<>>
        /\ \E n \in 1..Len(Response(Head(toSwitch))) - 1 :
             fromSwitch' = fromSwitch \o SubSeq(Response(Head(toSwitch)), 1, n)
  /\ UNCHANGED <<calls, threads, shared>>

(* A call of thread c *)

\* sendall() of the command; on a closed connection it raises.  Stripped to
\* nothing, the command puts no byte on the socket.
\* (mutant: the locals of get_response survive from the previous call)
SendRequest_KeepsText(c, r) ==
  /\ pc[c] = "idle" /\ calls < MaxCalls
  /\ r.id = calls + 1
  /\ calls' = calls + 1
  /\ req' = [req EXCEPT ![c] = r]
  /\ pc' = [pc EXCEPT ![c] = IF closed THEN "return" ELSE "recv"]
  /\ toSwitch' = IF closed \/ r.cmd = Blank THEN toSwitch ELSE Append(toSwitch, r)
  /\ UNCHANGED <<fromSwitch, closed, buffer, resp, result, HISTORY, HISTORY_HTML>>
SendRequest(c, r) ==
  /\ pc[c] = "idle" /\ calls < MaxCalls
  /\ r.id = calls + 1
  /\ calls' = calls + 1
  /\ req' = [req EXCEPT ![c] = r]
  /\ resp' = [resp EXCEPT ![c] = Empty]
  /\ pc' = [pc EXCEPT ![c] = IF closed THEN "return" ELSE "recv"]
  /\ toSwitch' = IF closed \/ r.cmd = Blank THEN toSwitch ELSE Append(toSwitch, r)
  /\ UNCHANGED <<fromSwitch, closed, buffer, result, HISTORY, HISTORY_HTML>>

send(c) == /\ \E r \in Requests : r.op = "send" /\ SendRequest(c, r)
           /\ UNCHANGED HELP_COMMANDS
showinfo(c) == /\ \E r \in Requests : r.op = "showinfo" /\ SendRequest(c, r)
               /\ UNCHANGED HELP_COMMANDS
list_commands(c) == /\ \E r \in Requests : r.op = "list_commands" /\ SendRequest(c, r)
                    /\ HELP_COMMANDS' = <<>>

\* Where the call goes once get_response has returned: add_history appends
\* the command unless it is empty, then the text unless it is empty.
AfterText(text) == IF text # <<>> THEN "html_res" ELSE "return"
\* (mutant: showinfo too is recorded)
AfterResponse_Showinfo(r, text) ==
  IF r.op = "list_commands" THEN "rows" ELSE "html_cmd"
AfterResponse(r, text) == CASE r.op = "list_commands" -> "rows"
                            [] r.op = "showinfo" -> "return"
                            [] r.op = "send" /\ r.cmd # Blank -> "html_cmd"
                            [] OTHER -> AfterText(text)

\* recv() returns any non-empty prefix of what has arrived; at the end of
\* the stream it returns '' and get_response returns what it has.
\* (mutant: the empty string at the end of the stream is not noticed)
Recv_NoEof(c) ==
  /\ pc[c] = "recv"
  /\ \E n \in 1..Len(fromSwitch) :
       /\ buffer' = [buffer EXCEPT ![c] = SubSeq(fromSwitch, 1, n)]
       /\ fromSwitch' = SubSeq(fromSwitch, n + 1, Len(fromSwitch))
       /\ pc' = [pc EXCEPT ![c] = "parse"]
  /\ UNCHANGED <<toSwitch, closed, calls, req, resp, result, shared>>
Recv(c) ==
  /\ pc[c] = "recv"
  /\ \/ \E n \in 1..Len(fromSwitch) :
          /\ buffer' = [buffer EXCEPT ![c] = SubSeq(fromSwitch, 1, n)]
          /\ fromSwitch' = SubSeq(fromSwitch, n + 1, Len(fromSwitch))
          /\ pc' = [pc EXCEPT ![c] = "parse"]
     \/ /\ fromSwitch = <<>> /\ closed
        /\ pc' = [pc EXCEPT ![c] = AfterResponse(req[c], resp[c].text)]
        /\ UNCHANGED <<fromSwitch, buffer>>
  /\ UNCHANGED <<toSwitch, closed, calls, req, resp, result, shared>>

\* What a line does to the locals: the first line announces the data and the
\* last one ends it; any other is text until the end has been seen.
BeginSeen(x)  == [x EXCEPT !.end_char = TRUE]
EndSeen(x)    == [x EXCEPT !.is_end = TRUE]
Keep(x, line) == IF x.is_end THEN x ELSE [x EXCEPT !.text = Append(@, line)]

Consume(c, x) == /\ resp' = [resp EXCEPT ![c] = x]
                 /\ buffer' = [buffer EXCEPT ![c] = Tail(buffer[c])]
                 /\ UNCHANGED pc
Finish(c, id) == /\ resp' = [resp EXCEPT ![c].status = id]
                 /\ buffer' = [buffer EXCEPT ![c] = <<>>]
                 /\ pc' = [pc EXCEPT ![c] = AfterResponse(req[c], resp[c].text)]

\* One line of the buffer.  After the status line the rest is dropped.
\* (mutant: the end of the data, not the status line, ends the response)
ParseLine_StopsAtEnd(c) ==
  /\ pc[c] = "parse" /\ buffer[c] # <<>>
  /\ LET line == Head(buffer[c])
     IN \/ line.kind = "begin" /\ Consume(c, BeginSeen(resp[c]))
        \/ line.kind \in {"data", "row"} /\ Consume(c, Keep(resp[c], line))
        \/ line.kind \in {"end", "status"} /\ Finish(c, line.id)
  /\ UNCHANGED <<queues, calls, req, result, shared>>
ParseLine(c) ==
  /\ pc[c] = "parse" /\ buffer[c] # <<>>
  /\ LET line == Head(buffer[c])
     IN \/ line.kind = "begin" /\ Consume(c, BeginSeen(resp[c]))
        \/ line.kind = "status" /\ Finish(c, line.id)
        \/ line.kind = "end" /\ resp[c].end_char /\ Consume(c, EndSeen(resp[c]))
        \/ line.kind = "end" /\ ~resp[c].end_char /\ Consume(c, Keep(resp[c], line))
        \/ line.kind \in {"data", "row"} /\ Consume(c, Keep(resp[c], line))
  /\ UNCHANGED <<queues, calls, req, result, shared>>

ReadMore(c) == /\ pc[c] = "parse" /\ buffer[c] = <<>>
               /\ pc' = [pc EXCEPT ![c] = "recv"]
               /\ UNCHANGED <<queues, calls, req, buffer, resp, result, shared>>

(* add_history: four appends to two shared lists *)

AppendHtml(c) ==
  \/ /\ pc[c] = "html_cmd"
     /\ HISTORY_HTML' = Append(HISTORY_HTML, Entry(req[c].id, "cmd"))
     /\ pc' = [pc EXCEPT ![c] = "hist_cmd"]
  \/ /\ pc[c] = "html_res"
     /\ HISTORY_HTML' = Append(HISTORY_HTML, Entry(req[c].id, "res"))
     /\ pc' = [pc EXCEPT ![c] = "hist_res"]

\* (mutant: the response goes in before the command)
AppendHistory_Swapped(c) ==
  \/ /\ pc[c] = "hist_cmd"
     /\ HISTORY' = HISTORY \o (IF resp[c].text # <<>>
                               THEN << Entry(req[c].id, "res") >> ELSE <<>>)
                          \o << Entry(req[c].id, "cmd") >>
     /\ pc' = [pc EXCEPT ![c] = "return"]
AppendHistory(c) ==
  \/ /\ pc[c] = "hist_cmd"
     /\ HISTORY' = Append(HISTORY, Entry(req[c].id, "cmd"))
     /\ pc' = [pc EXCEPT ![c] = AfterText(resp[c].text)]
  \/ /\ pc[c] = "hist_res"
     /\ HISTORY' = Append(HISTORY, Entry(req[c].id, "res"))
     /\ pc' = [pc EXCEPT ![c] = "return"]

add_history(c) ==
  /\ \/ AppendHtml(c) /\ UNCHANGED HISTORY
     \/ AppendHistory(c) /\ UNCHANGED HISTORY_HTML
  /\ UNCHANGED <<queues, calls, req, buffer, resp, result, HELP_COMMANDS>>

\* The end of list_commands: rows are recognised only in the text of a help
\* response, below its header.
AddRows(c) == /\ pc[c] = "rows"
              /\ HELP_COMMANDS' = HELP_COMMANDS \o
                   SelectSeq(resp[c].text, LAMBDA l : l.kind = "row")
              /\ pc' = [pc EXCEPT ![c] = "return"]
              /\ UNCHANGED <<queues, calls, req, buffer, resp, result,
                             HISTORY, HISTORY_HTML>>

\* The return in the finally clause: also what swallows the exception of
\* sendall(), leaving an empty response.
Return(c) == /\ pc[c] = "return"
             /\ result' = [result EXCEPT ![c] = resp[c]]
             /\ pc' = [pc EXCEPT ![c] = "idle"]
             /\ UNCHANGED <<queues, calls, req, buffer, resp, shared>>

Step(c) == Recv(c) \/ ParseLine(c) \/ ReadMore(c) \/ add_history(c)
             \/ AddRows(c) \/ Return(c)

Next == \/ SwitchAnswers
        \/ SwitchCloses
        \/ \E c \in Clients : send(c) \/ showinfo(c) \/ list_commands(c) \/ Step(c)

\* A thread inside a call is eventually scheduled and the switch eventually
\* answers what it has read.  Nobody has to make a call.
Fairness == WF_vars(SwitchAnswers) /\ \A c \in Clients : WF_vars(Step(c))

Spec == Init /\ [][Next]_vars
FairSpec == Spec /\ Fairness

-----------------------------------------------------------------------------
(* Properties *)

PCs == {"idle", "recv", "parse", "html_cmd", "hist_cmd", "html_res",
        "hist_res", "rows", "return"}
Responses == [text : Seq(Lines), status : 0..NoStatus,
              end_char : BOOLEAN, is_end : BOOLEAN]
Entries == [id : 1..MaxCalls, what : {"cmd", "res"}]

\* Every variable holds what the attributes, the locals and the streams of
\* Vde2Mgmt and get_response can hold.
TypeOK == /\ toSwitch \in Seq(Requests)
          /\ fromSwitch \in Seq(Lines)
          /\ closed \in BOOLEAN
          /\ calls \in 0..MaxCalls
          /\ pc \in [Clients -> PCs]
          /\ req \in [Clients -> Requests \cup {NoRequest}]
          /\ buffer \in [Clients -> Seq(Lines)]
          /\ resp \in [Clients -> Responses]
          /\ result \in [Clients -> Responses]
          /\ HISTORY \in Seq(Entries)
          /\ HISTORY_HTML \in Seq(Entries)
          /\ HELP_COMMANDS \in Seq(Lines)

Waiting(c) == pc[c] \in {"recv", "parse"}

\* When no thread is inside get_response, no command and no line is left on
\* the socket: the next call of any thread cannot read a stale response,
\* whatever the threads did to each other's responses before.
QuietChannel == (\A c \in Clients : ~Waiting(c)) => toSwitch = <<>> /\ fromSwitch = <<>>

\* The response a call returns, status and text, is the switch's response to
\* the command of that call and is whole; only when the switch has closed
\* may it be cut.
Belongs(x, r) == /\ x.status \in {r.id, NoStatus}
                 /\ \A i \in DOMAIN x.text : x.text[i].id = r.id
                 /\ x.status = r.id => (x.text # <<>> <=> HasData(r))
ResponseMatchesCommand ==
  \A c \in Clients : pc[c] = "idle" /\ req[c] # NoRequest =>
     /\ Belongs(result[c], req[c])
     /\ result[c].status = NoStatus => closed

\* In both histories a response stands directly below its command.
Paired(h) == \A i \in DOMAIN h : h[i].what = "res" =>
                i > 1 /\ h[i-1] = Entry(h[i].id, "cmd")
HistoryPaired == Paired(HISTORY) /\ Paired(HISTORY_HTML)

\* However the threads interleave, each call has at most one command and one
\* response in each history, in this order, and what the terminal history
\* shows the HTML history already shows.
InOrder(h) == \A i, j \in DOMAIN h : i < j /\ h[i].id = h[j].id =>
                h[i].what = "cmd" /\ h[j].what = "res"
HistoryInOrder ==
  /\ InOrder(HISTORY) /\ InOrder(HISTORY_HTML)
  /\ \A i \in DOMAIN HISTORY : \E j \in DOMAIN HISTORY_HTML :
        HISTORY_HTML[j] = HISTORY[i]

\* Every call returns: the switch answers, or has closed the connection.
EverySendReturns == \A c \in Clients : pc[c] # "idle" ~> pc[c] = "idle"

(* The abstract service, as one thread that owns the socket sees it *)

AnswerOf(x) == IF x.status = NoStatus THEN 0
               ELSE IF \A i \in DOMAIN x.text : x.text[i].id = x.status
               THEN x.status ELSE NoStatus
InFlight == {req[c].id : c \in {d \in Clients : pc[d] # "idle"}}
\* the requests whose command stands in the history h, without those in out
Logging(log, e, out) ==
  IF e.what = "cmd" /\ e.id \notin out THEN Append(log, e.id) ELSE log
Logged(h, out) ==
  LET ids[n \in 0..Len(h)] == IF n = 0 THEN <<>> ELSE Logging(ids[n - 1], h[n], out)
  IN ids[Len(h)]
Service == INSTANCE MgmtService WITH
             asked    <- [c \in Clients |-> IF pc[c] = "idle" THEN NoRequest ELSE req[c]],
             answered <- [c \in Clients |-> AnswerOf(result[c])],
             log      <- Logged(HISTORY, InFlight)
ImplementsService == Service!Spec
=============================================================================
