--------------------------- MODULE TcpConnection ---------------------------
(***************************************************************************)
(* A TCP connection between two picoTCP hosts (pico_tcp.c): "A" has called *)
(* connect, a socket that listens at "B" makes a child for it.  The        *)
(* network loses, repeats, delays and reorders segments.                   *)
(*                                                                         *)
(* Sequence numbers are relative to the initial ones and every segment of  *)
(* data has length one, so that number 0 is the SYN.  A socket is a record *)
(* and the entries of tcp_fsm are functions on it.  Windows are never the  *)
(* limit, and how much tcp_output sends at a time (cwnd) is left open, so  *)
(* that a segment sent again early is one that the network repeats.        *)
(* picoTCP sends no FIN without an ACK: CLOSING is not reached.            *)
(***************************************************************************)
EXTENDS Integers, Sequences, FiniteSets

CONSTANTS Writes,      \* how many segments each application writes
          MaxRetrans,  \* PICO_TCP_MAX_RETRANS
          MaxConnect   \* PICO_TCP_MAX_CONNECT_RETRIES

VARIABLES sock, segs

vars == <<sock, segs>>

Ends == {"A", "B"}
Peer(e) == IF e = "A" THEN "B" ELSE "A"
Synchronised == {"ESTABLISHED", "CLOSE_WAIT", "LAST_ACK", "FIN_WAIT1",
                 "FIN_WAIT2", "TIME_WAIT"}
Least(S) == CHOOSE x \in S : \A y \in S : x <= y

Segment(e, k, flags, seq) == [to |-> Peer(e), flags |-> flags, seq |-> seq,
                              ack |-> k.rcv_nxt, data |-> 0]

\* tcpq_out and tcpq_in: functions from sequence numbers to data.
Socket(state) == [state |-> state, snd_nxt |-> 0, snd_last |-> 0,
                  rcv_nxt |-> 0, rcv_ackd |-> 0, rcv_processed |-> 0,
                  out |-> <<>>, in |-> <<>>, remote_closed |-> FALSE,
                  shut_local |-> FALSE, shut_remote |-> FALSE,
                  blackout |-> FALSE, backoff |-> 0, retrans_tmr |-> FALSE,
                  fin_tmr |-> FALSE, written |-> 0, read |-> <<>>]

Init == /\ sock = [e \in Ends |-> IF e = "A"
                     THEN [Socket("SYN_SENT") EXCEPT !.retrans_tmr = TRUE]
                     ELSE Socket("LISTEN")]
        /\ segs = {Segment("A", Socket("SYN_SENT"), "SYN", 0)}

\* pico_socket_del
Del(k) == [k EXCEPT !.state = "CLOSED", !.out = <<>>, !.in = <<>>,
                    !.retrans_tmr = FALSE, !.fin_tmr = FALSE]
Acked(k) == [k EXCEPT !.rcv_ackd = k.rcv_nxt]
Drop(q, s) == [x \in DOMAIN q \ s |-> q[x]]

-----------------------------------------------------------------------------
(* The entries of tcp_fsm.                                                 *)

\* After a timeout the first acknowledgement sends snd_nxt back to what is
\* not acknowledged.
TcpAck(k, ack) ==
  LET acked == {s \in DOMAIN k.out : s + 1 <= ack}
      rest == Drop(k.out, acked)
  IN [k EXCEPT
        !.out = rest,
        !.snd_nxt = IF k.blackout /\ acked # {} /\ DOMAIN rest # {}
                    THEN Least(DOMAIN rest) ELSE @,
        !.backoff = IF k.blackout \/ acked # {} \/ DOMAIN rest = {} THEN 0 ELSE @,
        !.blackout = FALSE,
        !.retrans_tmr = TRUE]

\* peek_segment: rcv_nxt moves past what is already queued.
Contiguous(in, n) ==
  Least({m \in n..n + Cardinality(DOMAIN in) : m \notin DOMAIN in})

DataIn(k, m) ==
  IF m.seq < k.rcv_nxt THEN Acked(k)
  ELSE LET in == [s \in DOMAIN k.in \cup {m.seq} |->
                    IF s = m.seq THEN m.data ELSE k.in[s]]
       IN Acked([k EXCEPT !.in = in, !.rcv_nxt = Contiguous(in, @)])

\* tcp_send_fin and tcp_linger; the FIN is sent once.
\* (mutant: the linger time is not started)
SendFin_NoLinger(k, next) == [Acked(k) EXCEPT !.snd_nxt = @ + 1, !.state = next]
SendFin(k, next) == [Acked(k) EXCEPT !.snd_nxt = @ + 1, !.state = next,
                                     !.fin_tmr = TRUE]

\* tcp_attempt_closewait: with data still to be read the state stays.
AttemptClosewait(k, seq) ==
  IF seq # k.rcv_nxt THEN k
  ELSE IF seq = k.rcv_processed
  THEN [k EXCEPT !.rcv_nxt = seq + 1, !.shut_remote = TRUE,
                 !.state = IF @ = "ESTABLISHED" THEN "CLOSE_WAIT" ELSE @]
  ELSE [k EXCEPT !.rcv_nxt = seq + 1, !.remote_closed = TRUE]

\* tcp_finack: the sequence number of the FIN is not looked at.
FinAck(k) == [Acked([k EXCEPT !.rcv_nxt = @ + 1]) EXCEPT
                !.state = "TIME_WAIT", !.shut_remote = TRUE, !.fin_tmr = TRUE]

-----------------------------------------------------------------------------
(* pico_tcp_input: what each flag does in each state.                      *)

Becomes(e, k, sent) == /\ sock' = [sock EXCEPT ![e] = k]
                       /\ segs' = segs \cup sent
Ack(e, k) == Segment(e, k, "ACK", k.snd_nxt)

Receive(e, flags) == {m \in segs : m.to = e /\ m.flags \in flags}

InSyn(e) == \E m \in Receive(e, {"SYN"}) : LET k == sock[e] IN
  \/ /\ k.state = "LISTEN"
     /\ LET new == [k EXCEPT !.state = "SYN_RECV", !.rcv_nxt = m.seq + 1]
        IN Becomes(e, [Acked(new) EXCEPT !.snd_nxt = 1],
                   {Segment(e, new, "SYNACK", 0)})
  \/ /\ k.state = "SYN_RECV"
     /\ Becomes(e, Acked(k), {Segment(e, k, "SYNACK", k.snd_nxt - 1)})
  \/ /\ k.state = "ESTABLISHED"
     /\ Becomes(e, Acked(k), {Ack(e, k)})

InSynack(e) == \E m \in Receive(e, {"SYNACK"}) : LET k == sock[e] IN
  \/ /\ k.state = "SYN_SENT"
     /\ IF m.ack = k.snd_nxt + 1
        THEN LET new == [TcpAck(k, m.ack) EXCEPT
                           !.state = "ESTABLISHED", !.rcv_nxt = m.seq + 1,
                           !.rcv_processed = m.seq + 1, !.snd_nxt = @ + 1]
             IN Becomes(e, Acked(new), {Ack(e, new)})
        ELSE Becomes(e, Acked(k), {Segment(e, k, "RSTACK", m.ack)})
  \/ /\ k.state \in Synchronised \ {"TIME_WAIT"}
     /\ Becomes(e, TcpAck(k, m.ack), {})

\* tcp_first_ack, also for the acknowledgement that comes with data.
FirstAck(k, m) == [TcpAck([k EXCEPT !.rcv_processed = k.rcv_nxt], m.ack)
                     EXCEPT !.state = "ESTABLISHED"]

\* tcp_ack, tcp_finwaitack, tcp_lastackwait
InAck(e) == \E m \in Receive(e, {"ACK"}) : LET k == sock[e] IN
  \/ /\ k.state = "SYN_RECV"
     /\ IF m.ack = k.snd_nxt
        THEN Becomes(e, FirstAck(k, m), {})
        ELSE Becomes(e, Acked(k), {Segment(e, k, "RSTACK", m.ack)})
  \/ /\ k.state \in {"ESTABLISHED", "CLOSE_WAIT", "FIN_WAIT2"}
     /\ Becomes(e, TcpAck(k, m.ack), {})
  \/ /\ k.state = "FIN_WAIT1"
     /\ Becomes(e, [TcpAck(k, m.ack) EXCEPT
                      !.state = IF m.ack = k.snd_nxt - 1 THEN "FIN_WAIT2" ELSE @],
                {})
  \/ /\ k.state = "LAST_ACK" /\ m.ack = k.snd_nxt
     /\ Becomes(e, Del(k), {})

\* A segment of data acknowledges too.  Once the FIN of the peer is in, data
\* is answered with a RST that has the number of its acknowledgement.
InData(e) == \E m \in Receive(e, {"DATA"}) : LET k == sock[e] IN
  \/ /\ k.state \in {"SYN_RECV", "ESTABLISHED", "FIN_WAIT1", "FIN_WAIT2"}
     /\ k.state = "SYN_RECV" => m.ack = k.snd_nxt
     /\ LET new == DataIn(IF k.state = "SYN_RECV" THEN FirstAck(k, m)
                          ELSE TcpAck(k, m.ack), m)
        IN Becomes(e, new, {Ack(e, new)})
  \/ /\ k.state \in {"CLOSE_WAIT", "LAST_ACK", "TIME_WAIT"}
     /\ LET new == IF k.state = "CLOSE_WAIT" THEN TcpAck(k, m.ack) ELSE k
        IN Becomes(e, IF k.state = "LAST_ACK" /\ m.ack = k.snd_nxt THEN Del(k)
                      ELSE Acked(new),
                   IF k.state = "LAST_ACK" /\ m.ack = k.snd_nxt THEN {}
                   ELSE {Segment(e, new, "RST", m.ack)})

InFinack(e) == \E m \in Receive(e, {"FINACK"}) : LET k == sock[e] IN
  \/ /\ k.state \in {"ESTABLISHED", "CLOSE_WAIT"}
     /\ LET new == AttemptClosewait(TcpAck(k, m.ack), m.seq)
        IN Becomes(e, Acked(new), {Ack(e, new)})
  \/ /\ k.state \in {"FIN_WAIT1", "FIN_WAIT2"}
     /\ Becomes(e, FinAck(k), {Ack(e, FinAck(k))})
  \/ /\ k.state = "LAST_ACK"
     /\ Becomes(e, Acked(k), {Segment(e, k, "RST", m.ack)})
  \* tcp_closeconn, of a socket that nobody has accepted
  \/ /\ k.state = "SYN_RECV" /\ m.seq = k.rcv_nxt
     /\ LET new == [k EXCEPT !.rcv_nxt = @ + 1, !.shut_local = TRUE,
                             !.shut_remote = TRUE]
        IN Becomes(e, SendFin(new, "LAST_ACK"),
                   {Segment(e, new, "FINACK", new.snd_nxt)})

\* tcp_rst; CLOSE_WAIT and later states take no RST with an ACK.
InRst(e) == \E m \in Receive(e, {"RST", "RSTACK"}) : LET k == sock[e] IN
  /\ \/ k.state = "SYN_SENT" /\ m.ack = k.snd_nxt + 1
     \/ /\ k.state \in {"SYN_RECV"} \cup (Synchronised \ {"TIME_WAIT"})
        /\ m.flags = "RSTACK" => k.state = "ESTABLISHED"
        /\ m.seq >= k.rcv_ackd
  /\ Becomes(e, Del(k), {})

-----------------------------------------------------------------------------
(* The timers and the socket loop.                                         *)

\* initconn_retry
\* (mutant: the retries are not counted)
ConnectRetry_Forever(e) == LET k == sock[e] IN
  /\ k.state = "SYN_SENT"
  /\ Becomes(e, [k EXCEPT !.backoff = @ + 1], {Segment(e, k, "SYN", 0)})
ConnectRetry(e) == LET k == sock[e] IN
  /\ k.state = "SYN_SENT"
  /\ IF k.backoff > MaxConnect THEN Becomes(e, Del(k), {})
     ELSE Becomes(e, [k EXCEPT !.backoff = @ + 1], {Segment(e, k, "SYN", 0)})

DataSegment(e, k, s) == [Segment(e, k, "DATA", s) EXCEPT !.data = k.out[s]]

\* tcp_retrans_timeout; in CLOSE_WAIT it gives up without a word.
Retransmit(e) == LET k == sock[e] IN
  /\ k.retrans_tmr /\ k.state # "SYN_SENT"
  /\ \/ /\ k.state \in {"ESTABLISHED", "CLOSE_WAIT"} /\ k.backoff < MaxRetrans
        /\ DOMAIN k.out # {}
        /\ LET s == Least(DOMAIN k.out)
           IN Becomes(e, [Acked(k) EXCEPT !.blackout = TRUE, !.backoff = @ + 1,
                                          !.snd_nxt = IF s + 1 > @ THEN s + 1 ELSE @],
                      {DataSegment(e, k, s)})
     \/ /\ k.state = "ESTABLISHED" /\ k.backoff >= MaxRetrans
        /\ Becomes(e, Del(k), {})
     \/ /\ \/ k.state \notin {"ESTABLISHED", "CLOSE_WAIT"}
           \/ k.state = "CLOSE_WAIT" /\ k.backoff >= MaxRetrans
           \/ k.backoff < MaxRetrans /\ DOMAIN k.out = {}
        /\ Becomes(e, [k EXCEPT !.retrans_tmr = FALSE], {})

\* tcp_deltcb: the end of the linger time.
Deltcb(e) == LET k == sock[e] IN
  /\ k.fin_tmr
  /\ Becomes(e, Del(k), IF k.state = "TIME_WAIT" THEN {}
                        ELSE {Segment(e, k, "RST", k.snd_nxt)})

\* pico_tcp_output, one segment at a time.
Output(e) == LET k == sock[e] IN
  /\ k.state \in {"ESTABLISHED", "CLOSE_WAIT"}
  /\ k.snd_nxt \in DOMAIN k.out
  /\ Becomes(e, [Acked(k) EXCEPT !.snd_nxt = @ + 1, !.retrans_tmr = TRUE],
             {DataSegment(e, k, k.snd_nxt)})

\* (mutant: data that is not acknowledged does not hold back the FIN)
MayFin_Unacked(k) == k.shut_local
MayFin(k) == k.shut_local /\ DOMAIN k.out = {}
\* checkLocalClosing and checkRemoteClosing
Closing(e) == LET k == sock[e] IN
  /\ MayFin(k)
  /\ k.state \in {"ESTABLISHED", "CLOSE_WAIT"}
  /\ Becomes(e, SendFin(k, IF k.state = "ESTABLISHED" THEN "FIN_WAIT1" ELSE "LAST_ACK"),
             {Segment(e, k, "FINACK", k.snd_nxt)})

-----------------------------------------------------------------------------
(* The application.                                                        *)

\* pico_tcp_push
Write(e) == LET k == sock[e] IN
  /\ k.state \in {"ESTABLISHED", "CLOSE_WAIT"} /\ ~k.shut_local
  /\ k.written < Writes[e]
  /\ Becomes(e, [k EXCEPT !.written = @ + 1, !.snd_last = @ + 1,
                   !.out = [s \in DOMAIN @ \cup {k.snd_last + 1} |->
                              IF s = k.snd_last + 1 THEN k.written + 1 ELSE @[s]]],
             {})

\* pico_tcp_read and tcp_read_finish, which sets the state whatever it was.
ReadFinish(k) == IF k.remote_closed
                 THEN [k EXCEPT !.state = "CLOSE_WAIT", !.shut_remote = TRUE]
                 ELSE k
\* (mutant: a hole at the beginning of the queue is not looked for)
NextIn_First(k) == IF k.in = <<>> THEN k.rcv_processed ELSE Least(DOMAIN k.in)
NextIn(k) == k.rcv_processed
Read(e) == LET k == sock[e] n == NextIn(k) IN
  /\ k.state \in Synchronised
  /\ IF n \in DOMAIN k.in
     THEN Becomes(e, ReadFinish([k EXCEPT !.read = Append(@, k.in[n]),
                                          !.rcv_processed = n + 1,
                                          !.in = Drop(@, {n})]), {})
     ELSE ~k.shut_remote /\ Becomes(e, ReadFinish(k), {})

\* pico_socket_shutdown for writing
Shutdown(e) == LET k == sock[e] IN
  /\ k.state \in {"ESTABLISHED", "CLOSE_WAIT"} /\ ~k.shut_local
  /\ Becomes(e, [k EXCEPT !.shut_local = TRUE], {})

Next == \E e \in Ends :
  \/ InSyn(e) \/ InSynack(e) \/ InAck(e) \/ InData(e) \/ InFinack(e) \/ InRst(e)
  \/ ConnectRetry(e) \/ Retransmit(e) \/ Deltcb(e) \/ Output(e) \/ Closing(e)
  \/ Write(e) \/ Read(e) \/ Shutdown(e)

Spec == Init /\ [][Next]_vars

-----------------------------------------------------------------------------
(* Properties.                                                             *)

\* The range of each socket's numbers: retries are counted, and a stream takes
\* no more numbers than it has data, a SYN and the FINs that are sent.
TypeOK == \A e \in Ends : LET k == sock[e] IN
  /\ k.state \in Synchronised \cup {"CLOSED", "LISTEN", "SYN_SENT", "SYN_RECV"}
  /\ k.snd_nxt \in 0..Writes["A"] + Writes["B"] + 3
  /\ k.snd_last \in 0..Writes[e]
  /\ k.backoff <= 1 + (IF MaxRetrans > MaxConnect THEN MaxRetrans ELSE MaxConnect)

\* What an application reads is what the other one wrote, in order, with
\* nothing missing and nothing twice, whatever the network does.
StreamInOrder == \A e \in Ends : LET k == sock[e] IN
  /\ \A i \in DOMAIN k.read : k.read[i] = i
  /\ Len(k.read) <= sock[Peer(e)].written

\* An application that is told of the end of the stream has read, or can still
\* read, all that the other one wrote: no FIN overtakes data, although
\* tcp_finack does not look at where the FIN is.
EndIsTheEnd == \A e \in Ends : LET k == sock[e] IN
  k.shut_remote /\ k.state # "CLOSED"
    => Len(k.read) + Cardinality(DOMAIN k.in) = sock[Peer(e)].written

\* The FIN has the number that follows the last byte the application wrote:
\* it says where the stream ends, once.
\* (The code breaks it: see the README.)
FinEndsStream == \A m \in segs :
  m.flags = "FINACK" => m.seq = sock[Peer(m.to)].snd_last + 1

\* A socket that has sent its FIN always has the timer that deletes it,
\* whatever becomes of the FIN.
FinIsTimed == \A e \in Ends : sock[e].state \in
  {"FIN_WAIT1", "FIN_WAIT2", "LAST_ACK", "TIME_WAIT"} => sock[e].fin_tmr
=============================================================================
