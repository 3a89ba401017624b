----------------------------- MODULE FileObject -----------------------------
(***************************************************************************)
(* Class _fileobject of socket.py: the buffered file over a Socket that    *)
(* the web server reads requests from and writes responses to.  A stream   *)
(* is a sequence of numbered characters; those of Newlines are newlines.   *)
(* recv() returns any part of what has arrived, and the empty string at    *)
(* the end; sendall() sends a slice or raises, having sent none of it.     *)
(* An interrupted recv() raises too: EINTR is not imported.                *)
(***************************************************************************)
EXTENDS Integers, Sequences, FiniteSetsExt

CONSTANTS Length,     \* characters the peer sends
          Newlines,   \* which of them are newlines
          Sizes,      \* what read and readline are called with
          RBufSize,   \* what readline passes to recv
          WBufSize,   \* characters that are buffered before they are sent
          Slice,      \* what flush passes to sendall at a time
          Written     \* characters the application writes

VARIABLES unread,     \* characters the peer sends that recv has not returned
          rbuf,       \* _rbuf
          call,       \* the call of read or readline that runs
          given,      \* all that calls have returned
          last,       \* what the last one returned: its call, data, and whether
                      \* at the end
          lost,       \* recv() raised in a call that had characters
          wbuf,       \* _wbuf
          flushing,   \* what flush() still has to send, while it runs
          sent,       \* what sendall() sent
          put         \* characters written so far

vars == <<unread, rbuf, call, given, last, lost, wbuf, flushing, sent, put>>
reading == <<unread, rbuf, call, given, last, lost>>
writing == <<wbuf, flushing, sent, put>>

Stream(n) == [i \in 1..n |-> i]
Idle == [op |-> "none", size |-> 0, buf |-> <<>>]
Init == /\ unread = Stream(Length) /\ rbuf = <<>>
        /\ call = Idle /\ given = <<>> /\ lost = FALSE
        /\ last = [op |-> "none", size |-> 0, data |-> <<>>, eof |-> TRUE]
        /\ wbuf = <<>> /\ flushing = <<>> /\ sent = <<>> /\ put = 0

-----------------------------------------------------------------------------
(* Reading.  A negative size is none.                                      *)

First(s, n) == SubSeq(s, 1, IF n < Len(s) THEN n ELSE Len(s))
Rest(s, n) == SubSeq(s, n + 1, Len(s))
\* The length of the first line of s with its newline; 0 if there is none.
LineLength(s) == LET at == {i \in 1..Len(s) : s[i] \in Newlines} IN
                 IF at = {} THEN 0 ELSE Min(at)

Return(c, data, left) ==
  /\ given' = given \o data
  /\ last' = [op |-> c.op, size |-> c.size, data |-> data,
              eof |-> left = <<>> /\ unread' = <<>>]
  /\ rbuf' = left /\ call' = Idle /\ UNCHANGED lost

\* How much of s, which is what a call asks for without limit, it returns: a
\* line, what was asked for, or 0 when it has to go on.
\* (mutant: a newline is looked for beyond the size)
Enough_AnyNewline(op, size, s) ==
  LET line == IF op = "readline" THEN LineLength(s) ELSE 0 IN
  CASE line > 0 -> line
    [] line = 0 /\ size >= 0 /\ Len(s) >= size -> size
    [] OTHER -> 0
Enough(op, size, s) ==
  LET want == IF size < 0 THEN s ELSE First(s, size)
      line == IF op = "readline" THEN LineLength(want) ELSE 0 IN
  CASE line > 0 -> line
    [] line = 0 /\ size >= 0 /\ Len(s) >= size -> size
    [] OTHER -> 0

\* read(size), readline(size), up to the first recv(): what is in _rbuf may be
\* enough; else it moves to the local buf.
Begin(op, size) ==
  LET c == [op |-> op, size |-> size, buf |-> rbuf]
      n == Enough(op, size, rbuf) IN
  /\ call = Idle
  /\ IF n > 0 THEN UNCHANGED unread /\ Return(c, First(rbuf, n), Rest(rbuf, n))
     ELSE call' = c /\ rbuf' = <<>> /\ UNCHANGED <<unread, given, last, lost>>
  /\ UNCHANGED writing

\* (mutant: what a chunk has after the line is dropped)
Chunk_NoRest(c, d) ==
  LET n == Enough(c.op, c.size, c.buf \o d) IN
  IF n > 0 THEN Return(c, First(c.buf \o d, n), <<>>)
  ELSE call' = [c EXCEPT !.buf = @ \o d] /\ UNCHANGED <<rbuf, given, last, lost>>
Chunk(c, d) ==
  LET n == Enough(c.op, c.size, c.buf \o d) IN
  IF n > 0 THEN Return(c, First(c.buf \o d, n), Rest(c.buf \o d, n))
  ELSE call' = [c EXCEPT !.buf = @ \o d] /\ UNCHANGED <<rbuf, given, last, lost>>

\* The loop: read() asks for what is left, readline() for _rbufsize.
Recv ==
  /\ call.op # "none"
  /\ IF unread = <<>> THEN UNCHANGED unread /\ Return(call, call.buf, <<>>)
     ELSE \E n \in 1..Len(unread) :
            /\ n <= IF call.op = "read" /\ call.size >= 0
                    THEN call.size - Len(call.buf) ELSE RBufSize
            /\ unread' = Rest(unread, n)
            /\ Chunk(call, First(unread, n))
  /\ UNCHANGED writing
\* recv() raises: buf was local.
RecvRaises == /\ call.op # "none"
              /\ lost' = (lost \/ call.buf # <<>>) /\ call' = Idle
              /\ UNCHANGED <<unread, rbuf, given, last, writing>>

-----------------------------------------------------------------------------
(* Writing.                                                                *)

\* write() and writelines(), of n characters, and flush() when there are many
Write(n) == LET data == [i \in 1..n |-> put + i]
                all == wbuf \o data IN
            /\ flushing = <<>> /\ put + n <= Written
            /\ put' = put + n
            /\ IF Len(all) >= WBufSize THEN flushing' = all /\ wbuf' = <<>>
               ELSE wbuf' = all /\ UNCHANGED flushing
            /\ UNCHANGED <<sent, reading>>
\* flush(), and close(), which calls it
flush == /\ flushing = <<>> /\ wbuf # <<>>
         /\ flushing' = wbuf /\ wbuf' = <<>>
         /\ UNCHANGED <<sent, put, reading>>
SendSlice == /\ flushing # <<>>
             /\ sent' = sent \o First(flushing, Slice)
             /\ flushing' = Rest(flushing, Slice)
             /\ UNCHANGED <<wbuf, put, reading>>
\* (mutant: what could not be sent is forgotten)
SendRaises_Forgets == /\ flushing # <<>> /\ flushing' = <<>>
                      /\ UNCHANGED <<wbuf, sent, put, reading>>
\* sendall() raises: the remainder goes back to _wbuf.
SendRaises == /\ flushing # <<>>
              /\ wbuf' = wbuf \o flushing /\ flushing' = <<>>
              /\ UNCHANGED <<sent, put, reading>>

Next == \/ \E op \in {"read", "readline"}, size \in Sizes : Begin(op, size)
        \/ Recv \/ RecvRaises
        \/ \E n \in 1..2 : Write(n)
        \/ flush \/ SendSlice \/ SendRaises

Spec == Init /\ [][Next]_vars

-----------------------------------------------------------------------------
(* Properties.                                                             *)

\* However the stream is cut by recv(), and read and readline are mixed, it is
\* returned in order, without gaps or repetitions, unless recv() has raised.
StreamKept == ~lost =>
  given \o rbuf \o call.buf \o unread = Stream(Length)

\* readline returns at most the size, one line at most, and less than either
\* only at the end; read returns the size but at the end.
LinesAreLines ==
  LET n == Len(last.data) IN
  /\ last.size >= 0 => n <= last.size
  /\ last.op = "readline" => \A k \in 1..n : last.data[k] \in Newlines => k = n
  /\ \/ last.eof \/ n = last.size
     \/ last.op = "readline" /\ n > 0 /\ last.data[n] \in Newlines

\* What is written is sent once and in order, whichever slice of it raised.
WrittenIsSent == sent \o flushing \o wbuf = Stream(put)
=============================================================================
