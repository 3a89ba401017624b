---------------------------- MODULE TftpTransfer ----------------------------
(***************************************************************************)
(* A TFTP transfer between two picoTCP hosts (pico_tftp.c): the session    *)
(* that transmits and the one that receives, either of which may have made *)
(* the request.  The network loses, repeats, delays and reorders: what was *)
(* sent may be delivered at any later time, or never.                      *)
(*                                                                         *)
(* A block carries its place in the file and its size: "full", "near"      *)
(* (508 to 511 bytes) or "short".  Block numbers are 16 bits wide in the   *)
(* code and Width values here.  Of a session's timers only what decides    *)
(* the handlers is kept: whether a timeout is due some time.  Transfers of *)
(* messages from third hosts are left out.                                 *)
(***************************************************************************)
EXTENDS Integers, Sequences

CONSTANTS Files,       \* the sizes of the blocks of the files to send
          Width,       \* block numbers
          MaxRetry     \* TFTP_MAX_RETRY

VARIABLES tftpFile, tx, rx, tftpNet

vars == <<tftpFile, tx, rx, tftpNet>>

Blocks == Len(tftpFile)
NoSession == [state |-> "NONE", ctr |-> 0, wall |-> FALSE, retry |-> 0,
              options |-> FALSE, err |-> FALSE, at |-> <<>>]
Open(s) == s.state \notin {"NONE", "CLOSING", "GONE"}

\* at: the blocks the application has passed to send, or been given.
Init == /\ tftpFile \in Files
        /\ tx = NoSession /\ rx = NoSession
        /\ tftpNet = {}

-----------------------------------------------------------------------------
(* What both sides do.                                                     *)

Msg(to, op, block) == [to |-> to, op |-> op, block |-> block, data |-> 0]
Cast(ms) == tftpNet' = tftpNet \cup ms
Schedule(s) == [s EXCEPT !.wall = TRUE]
Finish(s) == [s EXCEPT !.state = "CLOSING", !.wall = TRUE]

\* tftp_message_received: the timeout is off until a handler schedules one.
Received(s) == [s EXCEPT !.wall = FALSE]

-----------------------------------------------------------------------------
(* The session that transmits.                                             *)

\* tftp_send_data, called by the application from its callback.
SendData(s) ==
  [Schedule(s) EXCEPT !.ctr = (@ + 1) % Width,
                      !.at = Append(@, Len(@) + 1),
                      !.state = IF tftpFile[Len(s.at) + 1] = "full" THEN "TX"
                                ELSE "WAIT_LAST_ACK"]
DataOf(s) == {[to |-> "rx", op |-> "DATA", block |-> s.ctr,
               data |-> Len(s.at) + 1]}

\* The callback of the application: it sends the next block, if there is one.
Callback(s) == IF Len(s.at) < Blocks
               THEN tx' = SendData(s) /\ Cast(DataOf(s))
               ELSE tx' = s /\ UNCHANGED tftpNet

\* pico_tftp_start_tx to the well known port, and from a listen callback.
StartTx == /\ tx.state = "NONE" /\ rx.state = "NONE"
           /\ \E o \in BOOLEAN : tx' = Schedule([tx EXCEPT !.ctr = 1, !.options = o,
                                                  !.state = "WRITE_REQUESTED"])
           /\ Cast({Msg("rx", "WRQ", 0)})
           /\ UNCHANGED rx
AcceptRead ==
  /\ Msg("tx", "RRQ", 0) \in tftpNet /\ tx.state = "NONE"
  /\ \/ /\ tx' = [tx EXCEPT !.ctr = 1, !.options = TRUE,
                            !.state = "WAIT_OPT_CONFIRM"]
        /\ Cast({Msg("rx", "OACK", 0)})
     \/ Callback([tx EXCEPT !.ctr = 1])
  /\ UNCHANGED rx

\* (mutant: any acknowledgement will do)
RightBlock_Any(s, b) == TRUE
\* event_ack_base; the comparison is in the width of int, not of a block.
RightBlock(s, b) == b = s.ctr - 1

\* ack0 of the first packet, ack, ack_last
TxAck == \E m \in tftpNet :
  LET s == Received(tx) IN
  /\ m.to = "tx" /\ m.op = "ACK" /\ Open(tx)
  /\ CASE tx.state \in {"WRITE_REQUESTED", "WAIT_OPT_CONFIRM"} ->
            IF m.block = 0 THEN Callback(s)
            ELSE tx' = [Finish(s) EXCEPT !.err = TRUE]
                 /\ Cast({Msg("rx", "ERROR", 0)})
       [] tx.state \in {"TX", "WAIT_LAST_ACK"} /\ ~RightBlock(tx, m.block) ->
            /\ tx' = [Finish(s) EXCEPT !.err = TRUE]
            /\ Cast({Msg("rx", "ERROR", 0)})
       [] tx.state = "TX" /\ RightBlock(tx, m.block) -> Callback(s)
       [] tx.state = "WAIT_LAST_ACK" /\ RightBlock(tx, m.block) ->
            tx' = Finish(s) /\ UNCHANGED tftpNet
  /\ UNCHANGED rx

\* event_oack_wr: whatever the callback made of the state, it is TX after.
TxOack == /\ Msg("tx", "OACK", 0) \in tftpNet /\ Open(tx)
          /\ LET s == Received(tx) IN
             IF tx.state = "WRITE_REQUESTED"
             THEN /\ tx.options
                  /\ tx' = [SendData(s) EXCEPT !.state = "TX"]
                  /\ Cast(DataOf(s))
             ELSE /\ tx' = [Finish(s) EXCEPT !.err = TRUE]
                  /\ Cast({Msg("rx", "ERROR", 0)})
          /\ UNCHANGED rx

-----------------------------------------------------------------------------
(* The session that receives.                                              *)

\* pico_tftp_start_rx to the well known port, and from a listen callback; no
\* timeout is scheduled with the OACK.
StartRx == /\ tx.state = "NONE" /\ rx.state = "NONE"
           /\ \E o \in BOOLEAN : rx' = Schedule([rx EXCEPT !.options = o,
                                                  !.state = "READ_REQUESTED"])
           /\ Cast({Msg("tx", "RRQ", 0)})
           /\ UNCHANGED tx
AcceptWrite ==
  /\ Msg("rx", "WRQ", 0) \in tftpNet /\ rx.state = "NONE"
  /\ \/ /\ tx.options
        /\ rx' = [rx EXCEPT !.options = TRUE, !.state = "RX"]
        /\ Cast({Msg("tx", "OACK", 0)})
     \/ /\ rx' = Schedule([rx EXCEPT !.state = "RX"])
        /\ Cast({Msg("tx", "ACK", 0)})
  /\ UNCHANGED tx

\* (mutant: a block that comes again is given to the application again)
IsNext_OrSame(s, b) == b = s.ctr + 1 \/ b = s.ctr
IsNext(s, b) == b = s.ctr + 1

\* tftp_eval_finish is given the length of the packet, header included: a
\* block with up to four bytes less than a full one does not end the transfer.
EvalFinish(s, size) == IF size = "short" THEN [s EXCEPT !.state = "CLOSING"] ELSE s

\* event_data_rdr and event_data
RxData == \E m \in tftpNet :
  LET s == [Received(rx) EXCEPT !.state = "RX"] IN
  /\ m.to = "rx" /\ m.op = "DATA" /\ Open(rx)
  /\ IF IsNext(rx, m.block)
     THEN /\ rx' = EvalFinish(Schedule([s EXCEPT !.ctr = m.block % Width,
                                                 !.at = Append(@, m.data)]),
                              tftpFile[m.data])
          /\ Cast({Msg("tx", "ACK", m.block)})
     ELSE IF m.block > rx.ctr + 1
     THEN /\ rx' = [Finish(s) EXCEPT !.err = TRUE]
          /\ Cast({Msg("tx", "ERROR", 0)})
     ELSE rx' = s /\ UNCHANGED tftpNet
  /\ UNCHANGED tx

\* event_oack_rr: the options of the reply are among those asked for.
RxOack == /\ Msg("rx", "OACK", 0) \in tftpNet /\ Open(rx)
          /\ LET s == Received(rx) IN
             IF rx.state = "READ_REQUESTED" /\ rx.options
             THEN /\ rx' = [Schedule(s) EXCEPT !.state = "RX"]
                  /\ Cast({Msg("tx", "ACK", 0)})
             ELSE /\ rx.state # "READ_REQUESTED"
                  /\ rx' = [Finish(s) EXCEPT !.err = TRUE]
                  /\ Cast({Msg("tx", "ERROR", 0)})
          /\ UNCHANGED tx

-----------------------------------------------------------------------------
(* Errors and timeouts, of either session.                                 *)

\* event_err and pico_tftp_abort
TxError == /\ Msg("tx", "ERROR", 0) \in tftpNet /\ Open(tx)
           /\ tx' = [Finish(Received(tx)) EXCEPT !.err = TRUE]
           /\ UNCHANGED <<rx, tftpNet>>
RxError == /\ Msg("rx", "ERROR", 0) \in tftpNet /\ Open(rx)
           /\ rx' = [Finish(Received(rx)) EXCEPT !.err = TRUE]
           /\ UNCHANGED <<tx, tftpNet>>

\* (mutant: the retries are not limited)
Timeout_Forever(s) ==
  IF s.state = "CLOSING" THEN [s EXCEPT !.state = "GONE", !.wall = FALSE]
  ELSE [Schedule(s) EXCEPT !.retry = @ + 1]
\* timer_callback with event_timeout and event_timeout_closing.  What
\* event_timeout sends is the last len set, which is zero in a session with
\* callbacks: nothing goes out again.
Timeout(s) ==
  CASE s.state = "CLOSING" -> [s EXCEPT !.state = "GONE", !.wall = FALSE]
    [] s.state # "CLOSING" /\ s.retry + 1 = MaxRetry ->
         [Finish(s) EXCEPT !.retry = @ + 1, !.err = TRUE]
    [] OTHER -> [Schedule(s) EXCEPT !.retry = @ + 1]
TxTimeout == tx.wall /\ tx' = Timeout(tx) /\ UNCHANGED <<rx, tftpNet>>
RxTimeout == rx.wall /\ rx' = Timeout(rx) /\ UNCHANGED <<tx, tftpNet>>

Next == /\ UNCHANGED tftpFile
        /\ \/ StartTx \/ AcceptRead \/ TxAck \/ TxOack \/ TxError \/ TxTimeout
           \/ StartRx \/ AcceptWrite \/ RxData \/ RxOack \/ RxError \/ RxTimeout

Spec == Init /\ [][Next]_vars

-----------------------------------------------------------------------------
(* Properties.                                                             *)

\* The range of the counters: a session gives up after MaxRetry timeouts and
\* sends no block that the file does not have.
TypeOK == /\ tx.ctr \in 0..Width - 1 /\ rx.ctr \in 0..Width - 1
          /\ tx.retry \in 0..MaxRetry /\ rx.retry \in 0..MaxRetry
          /\ Len(tx.at) <= Blocks

\* The application is given the blocks of the file once each and in order,
\* whatever the network does with DATA and acknowledgements.
FileInOrder == \A i \in DOMAIN rx.at : rx.at[i] = i

\* When the transmitter ends without an error, all of the file has been given
\* to the receiving application.
DoneMeansDelivered == tx.state \in {"CLOSING", "GONE"} /\ ~tx.err =>
                        Len(rx.at) = Blocks

\* The receiver is never more than one block behind what was sent.
OneBlockInFlight == Len(tx.at) <= Len(rx.at) + 1

\* The user manual: "a block whose size is less than the block size indicates
\* the end of the transfer".
\* (The code breaks it: see the README.)
SmallBlockEnds == rx.at # <<>> /\ tftpFile[rx.at[Len(rx.at)]] # "full" =>
                    ~Open(rx)
=============================================================================
