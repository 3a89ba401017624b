------------------------------ MODULE PppLink ------------------------------
(***************************************************************************)
(* The PPP device of picoTCP (pico_dev_ppp.c): the four state machines of  *)
(* the modem, LCP, authentication and IPCP, which call one another from    *)
(* their handlers, and the timers they share.                              *)
(*                                                                         *)
(* The device is one record; an event is a function from record to record. *)
(* As in evaluate_*_state, the next state is set before the handlers run,  *)
(* so that the events they raise see it.  Events that leave every state    *)
(* and timer alone (an echo, a TERMINATE, anything from a modem that is    *)
(* not expected) do not appear.  Of timer_val only matters whether it is   *)
(* zero at a tick, and whether a handler of that tick sets it again.       *)
(***************************************************************************)
EXTENDS Naturals

CONSTANTS Peers,          \* peers: the sets of "none", "pap", "chap" they ask for
          MaxTerminate,   \* PICO_PPP_DEFAULT_MAX_TERMINATE
          MaxConfigure    \* PICO_PPP_DEFAULT_MAX_CONFIGURE

VARIABLE ppp

Dialing == <<"RESET", "ECHO", "CREG", "CGREG", "CGDCONT", "CGATT", "DIAL">>
\* The states of LCP with a handler for TO+.
Timed == {"CLOSING", "STOPPING", "REQ_SENT", "ACK_RCVD", "ACK_SENT"}

\* pico_ppp_create; due: timer_val is zero.
Init == \E p \in Peers : ppp =
              [modem |-> "INITIAL", lcp |-> "INITIAL", auth |-> "INITIAL",
               ipcp |-> "INITIAL", proto |-> "none", timer_on |-> {},
               timer_count |-> 0, due |-> FALSE, autoreconnect |-> FALSE,
               hungup |-> FALSE, offers |-> p]

-----------------------------------------------------------------------------
(* Timers.                                                                 *)

StartTimer(k, t) == [k EXCEPT !.timer_on = @ \cup {t}, !.due = FALSE]
LcpTimerStart(k, t) ==
  [StartTimer(k, t) EXCEPT !.timer_count =
     IF @ # 0 THEN @ ELSE IF t = "LCPTERM" THEN MaxTerminate ELSE MaxConfigure]

-----------------------------------------------------------------------------
(* IPCP and authentication.                                                *)

IpcpReq(k) == StartTimer(k, "IPCP")
Auth(k) == IF k.ipcp = "INITIAL" THEN IpcpReq([k EXCEPT !.ipcp = "REQ_SENT"])
           ELSE k
Deauth(k) == [k EXCEPT !.ipcp = "INITIAL"]

Ipcp(k, event) ==
  CASE k.ipcp = "REQ_SENT" ->
         (CASE event = "RCR" -> [k EXCEPT !.ipcp = "ACK_SENT"]
            [] event = "RCA" -> [k EXCEPT !.ipcp = "ACK_RCVD"]
            [] event \in {"RCN", "TO"} -> IpcpReq(k))
    [] k.ipcp = "ACK_RCVD" ->
         (CASE event = "RCR" -> [k EXCEPT !.ipcp = "OPENED"]
            [] event \in {"RCA", "RCN"} -> IpcpReq([k EXCEPT !.ipcp = "REQ_SENT"])
            [] event = "TO" -> IpcpReq(k))
    [] k.ipcp = "ACK_SENT" ->
         (CASE event = "RCR" -> k
            [] event = "RCA" -> [k EXCEPT !.ipcp = "OPENED"]
            [] event \in {"RCN", "TO"} -> IpcpReq(k))
    [] k.ipcp = "OPENED" ->
         (CASE event = "RCR" -> [k EXCEPT !.ipcp = "ACK_SENT"]
            [] event \in {"RCA", "RCN"} -> [k EXCEPT !.ipcp = "REQ_SENT"]
            [] event = "TO" -> k)
    [] OTHER -> k

AuthUp(k) ==
  IF k.auth # "INITIAL" THEN k
  ELSE CASE k.proto = "none" -> Auth([k EXCEPT !.auth = "AUTHENTICATED"])
         [] k.proto = "pap" -> StartTimer([k EXCEPT !.auth = "REQ_SENT"], "AUTH")
         [] k.proto = "chap" -> [k EXCEPT !.auth = "STARTING"]

\* (mutant: IPCP is not told)
AuthDown_Silent(k) == [k EXCEPT !.auth = "INITIAL"]
AuthDown(k) == IF k.auth = "INITIAL" THEN k
               ELSE Deauth([k EXCEPT !.auth = "INITIAL"])

-----------------------------------------------------------------------------
(* The modem and LCP.                                                      *)

ModemStart(k) ==
  IF k.modem = "INITIAL" THEN StartTimer([k EXCEPT !.modem = "RESET"], "MODEM")
  ELSE k

\* evaluate_lcp_state: the restart timer stops in a state without TO+.
LcpGoes(k, s) ==
  [k EXCEPT !.lcp = s,
            !.timer_on = IF s \in Timed THEN @ ELSE @ \ {"LCPREQ", "LCPTERM"}]
ConfReq(k) == LcpTimerStart(k, "LCPREQ")
TermReq(k) == LcpTimerStart(k, "LCPTERM")

LcpDown(k) ==
  CASE k.lcp \in {"CLOSED", "CLOSING"} -> LcpGoes(k, "INITIAL")
    [] k.lcp = "STOPPED" -> ModemStart(LcpGoes(k, "STARTING"))
    [] k.lcp \in {"STOPPING", "REQ_SENT", "ACK_RCVD", "ACK_SENT"} ->
         LcpGoes(k, "STARTING")
    [] k.lcp = "OPENED" -> AuthDown(LcpGoes(k, "STARTING"))
    [] OTHER -> k

\* PPP_MODEM_EVENT_STOP, with ppp_modem_disconnected.
ModemStop(k) == IF k.modem = "CONNECTED"
                THEN LcpDown([k EXCEPT !.modem = "INITIAL"])
                ELSE [k EXCEPT !.modem = "INITIAL"]
LcpFinished(k) == ModemStop(k)

LcpUp(k) == CASE k.lcp = "INITIAL" -> LcpGoes(k, "CLOSED")
              [] k.lcp = "STARTING" -> ConfReq(LcpGoes(k, "REQ_SENT"))
              [] OTHER -> k
LcpOpen(k) == IF k.lcp = "INITIAL" THEN ModemStart(LcpGoes(k, "STARTING")) ELSE k

\* (mutant: the modem is left alone)
LcpClose_KeepModem(k) ==
  CASE k.lcp = "STARTING" -> LcpGoes(k, "INITIAL")
    [] k.lcp = "STOPPED" -> LcpGoes(k, "CLOSED")
    [] k.lcp = "STOPPING" -> LcpGoes(k, "CLOSING")
    [] k.lcp \in {"REQ_SENT", "ACK_RCVD", "ACK_SENT"} -> TermReq(LcpGoes(k, "CLOSING"))
    [] k.lcp = "OPENED" -> TermReq(AuthDown(LcpGoes(k, "CLOSING")))
    [] OTHER -> k
LcpClose(k) ==
  CASE k.lcp = "STARTING" -> LcpFinished(LcpGoes(k, "INITIAL"))
    [] k.lcp = "STOPPED" -> LcpGoes(k, "CLOSED")
    [] k.lcp = "STOPPING" -> LcpGoes(k, "CLOSING")
    [] k.lcp \in {"REQ_SENT", "ACK_RCVD", "ACK_SENT"} -> TermReq(LcpGoes(k, "CLOSING"))
    [] k.lcp = "OPENED" -> TermReq(AuthDown(LcpGoes(k, "CLOSING")))
    [] OTHER -> k

\* TO+ and TO-
LcpTimeout(k) ==
  CASE k.lcp = "CLOSING" -> IF k.timer_count # 0 THEN TermReq(k)
                            ELSE LcpFinished(LcpGoes(k, "CLOSED"))
    [] k.lcp = "STOPPING" -> IF k.timer_count # 0 THEN TermReq(k)
                             ELSE LcpFinished(LcpGoes(k, "STOPPED"))
    [] k.lcp \in {"REQ_SENT", "ACK_RCVD", "ACK_SENT"} ->
         IF k.timer_count = 0 THEN LcpFinished(LcpGoes(k, "STOPPED"))
         ELSE ConfReq(LcpGoes(k, IF k.lcp = "ACK_SENT" THEN k.lcp ELSE "REQ_SENT"))
    [] OTHER -> k

\* A configure request of the peer that is acceptable, and one that is not.
LcpRcrPos(k) ==
  CASE k.lcp = "STOPPED" -> ConfReq(LcpGoes(k, "ACK_SENT"))
    [] k.lcp \in {"REQ_SENT", "ACK_SENT"} -> LcpGoes(k, "ACK_SENT")
    [] k.lcp = "ACK_RCVD" -> AuthUp(LcpGoes(k, "OPENED"))
    [] k.lcp = "OPENED" -> TermReq(AuthDown(LcpGoes(k, "ACK_SENT")))
    [] OTHER -> k
LcpRcrNeg(k) ==
  CASE k.lcp = "STOPPED" -> ConfReq(LcpGoes(k, "REQ_SENT"))
    [] k.lcp = "ACK_SENT" -> LcpGoes(k, "REQ_SENT")
    [] k.lcp = "OPENED" -> ConfReq(AuthDown(LcpGoes(k, "REQ_SENT")))
    [] OTHER -> k

\* (mutant: no request follows an unexpected acknowledgement)
LcpRca_NoRequest(k) ==
  CASE k.lcp = "REQ_SENT" -> LcpTimerStart(LcpGoes(k, "ACK_RCVD"), "LCPREQ")
    [] k.lcp = "ACK_RCVD" -> ConfReq(LcpGoes(k, "REQ_SENT"))
    [] k.lcp = "ACK_SENT" -> AuthUp(LcpGoes(k, "OPENED"))
    [] k.lcp = "OPENED" -> AuthDown(LcpGoes(k, "REQ_SENT"))
    [] OTHER -> k
LcpRca(k) ==
  CASE k.lcp = "REQ_SENT" -> LcpTimerStart(LcpGoes(k, "ACK_RCVD"), "LCPREQ")
    [] k.lcp = "ACK_RCVD" -> ConfReq(LcpGoes(k, "REQ_SENT"))
    [] k.lcp = "ACK_SENT" -> AuthUp(LcpGoes(k, "OPENED"))
    [] k.lcp = "OPENED" -> TermReq(AuthDown(LcpGoes(k, "REQ_SENT")))
    [] OTHER -> k
LcpRcn(k) ==
  CASE k.lcp \in {"REQ_SENT", "ACK_SENT"} -> ConfReq(k)
    [] k.lcp = "ACK_RCVD" -> ConfReq(LcpGoes(k, "REQ_SENT"))
    [] k.lcp = "OPENED" -> TermReq(AuthDown(LcpGoes(k, "REQ_SENT")))
    [] OTHER -> k

AuthAbort(k) == LcpClose([k EXCEPT !.timer_on = @ \ {"AUTH"}])

AuthRac(k) == CASE k.auth \in {"STARTING", "RSP_SENT"} ->
                     StartTimer([k EXCEPT !.auth = "RSP_SENT"], "AUTH")
                [] k.auth = "AUTHENTICATED" -> [k EXCEPT !.auth = "RSP_SENT"]
                [] OTHER -> k
AuthRaa(k) == CASE k.auth = "STARTING" -> StartTimer(k, "AUTH")
                [] k.auth \in {"RSP_SENT", "REQ_SENT"} ->
                     Auth([k EXCEPT !.auth = "AUTHENTICATED"])
                [] OTHER -> k
AuthRan(k) == CASE k.auth = "AUTHENTICATED" -> k
                [] k.auth = "RSP_SENT" -> AuthAbort([k EXCEPT !.auth = "STARTING"])
                [] OTHER -> AuthAbort(k)
AuthTimeout(k) == CASE k.auth = "STARTING" ->
                         StartTimer([k EXCEPT !.auth = "INITIAL"], "AUTH")
                    [] k.auth = "RSP_SENT" ->
                         StartTimer([k EXCEPT !.auth = "STARTING"], "AUTH")
                    [] k.auth = "REQ_SENT" -> StartTimer(k, "AUTH")
                    [] OTHER -> k

-----------------------------------------------------------------------------
(* Steps.                                                                  *)

\* ppp_modem_recv: only what the modem says before it is connected is read.
ModemOk == /\ \E i \in 1..6 : /\ ppp.modem = Dialing[i]
                              /\ ppp' = StartTimer([ppp EXCEPT !.modem = Dialing[i + 1]],
                                                   "MODEM")
ModemConnect == /\ ppp.modem = "DIAL"
                /\ ppp' = LcpUp([ppp EXCEPT !.modem = "CONNECTED",
                                            !.hungup = FALSE])
ModemError == /\ ppp.modem # "CONNECTED"
              /\ ppp' = ModemStop(ppp)

\* ppp_recv_data: packets of the peer, over a connected modem.
Online == ppp.modem = "CONNECTED" /\ ~ppp.hungup
LcpIn == /\ Online
         /\ \E p \in ppp.offers \cup {ppp.proto} :
              LET k == [ppp EXCEPT !.proto = p] IN
              \/ ppp' = LcpRcrPos(k)
              \/ ppp' = LcpRcrNeg(k)
              \/ ppp' = LcpRcn(k)
              \/ ppp' = LcpRca(ppp)
PapIn == /\ Online /\ ppp.proto = "pap"
         /\ ppp' = AuthRaa(ppp) \/ ppp' = AuthRan(ppp)
ChapIn == /\ Online /\ ppp.proto = "chap"
          /\ ppp' = AuthRac(ppp) \/ ppp' = AuthRaa(ppp) \/ ppp' = AuthRan(ppp)
IpcpIn == /\ Online
          /\ \E event \in {"RCR", "RCA", "RCN"} : ppp' = Ipcp(ppp, event)

\* The peer ends the session: it sends a TERMINATE, which lcp_process_in does
\* not look at, or hangs up, and is not heard again.
HangUp == Online /\ ppp' = [ppp EXCEPT !.hungup = TRUE]

\* pico_ppp_tick.  A timer goes off when timer_val is zero; the checks run in
\* this order and one that restarts a timer spares those after it.
Fires(k, t) == k.due /\ t \in k.timer_on
CheckModem(k) ==
  IF ~Fires(k, "MODEM") THEN k
  ELSE LET off == [k EXCEPT !.timer_on = @ \ {"MODEM"}] IN
       CASE k.modem = "CONNECTED" -> off
         [] k.modem = "INITIAL" -> StartTimer(off, "MODEM")
         [] OTHER -> StartTimer([off EXCEPT !.modem = "RESET"], "MODEM")
\* (mutants: the retries are not counted, are counted once too often)
CheckLcp_NoCount(k) == IF Fires(k, "LCPREQ") \/ Fires(k, "LCPTERM") THEN LcpTimeout(k) ELSE k
CheckLcp_Over(k) == IF Fires(k, "LCPREQ") \/ Fires(k, "LCPTERM")
                    THEN [LcpTimeout(k) EXCEPT !.timer_count = @ - 1] ELSE k
CheckLcp(k) ==
  IF ~(Fires(k, "LCPREQ") \/ Fires(k, "LCPTERM")) THEN k
  ELSE IF k.timer_count = 0 THEN LcpTimeout(k)
       ELSE [LcpTimeout(k) EXCEPT !.timer_count = @ - 1]
CheckAuth(k) == IF ~Fires(k, "AUTH") THEN k
                ELSE AuthTimeout([k EXCEPT !.timer_on = @ \ {"AUTH"}])
CheckIpcp(k) == IF ~Fires(k, "IPCP") THEN k
                ELSE Ipcp([k EXCEPT !.timer_on = @ \ {"IPCP"}], "TO")
Tick == \E zero \in BOOLEAN :
  LET k == CheckIpcp(CheckAuth(CheckLcp(CheckModem([ppp EXCEPT !.due = zero]))))
  IN ppp' = [IF k.autoreconnect THEN LcpOpen(k) ELSE k EXCEPT !.due = FALSE]
\* A tick that finds timer_val at zero.
ZeroTick ==
  LET k == CheckIpcp(CheckAuth(CheckLcp(CheckModem([ppp EXCEPT !.due = TRUE]))))
  IN ppp' = [IF k.autoreconnect THEN LcpOpen(k) ELSE k EXCEPT !.due = FALSE]

Connect == ppp' = [ppp EXCEPT !.autoreconnect = TRUE]
Disconnect == ppp' = [LcpClose(ppp) EXCEPT !.autoreconnect = FALSE, !.due = FALSE]

Next == \/ ModemOk \/ ModemConnect \/ ModemError \/ LcpIn \/ PapIn \/ ChapIn
        \/ IpcpIn \/ HangUp \/ Tick \/ Connect \/ Disconnect

Spec == Init /\ [][Next]_ppp
FairSpec == Spec /\ WF_ppp(ZeroTick)

-----------------------------------------------------------------------------
(* Properties.                                                             *)

TypeOK == /\ ppp.timer_count \in 0..(IF MaxConfigure > MaxTerminate
                                     THEN MaxConfigure ELSE MaxTerminate)
          /\ ppp.timer_on \subseteq {"MODEM", "LCPREQ", "LCPTERM", "AUTH", "IPCP"}
          /\ ~ppp.due

\* LCP negotiates or is open exactly when the modem is connected, and is idle
\* only when the modem is: the nested calls of the handlers never leave the
\* two machines apart.
ModemFollowsLcp ==
  /\ ppp.modem = "CONNECTED" <=> ppp.lcp \in Timed \cup {"OPENED"}
  /\ ppp.lcp = "INITIAL" => ppp.modem = "INITIAL"

\* Whenever LCP waits for the peer its restart timer runs, so that a lost
\* packet never leaves it waiting.
NegotiationIsTimed ==
  ppp.lcp \in Timed => ppp.timer_on \cap {"LCPREQ", "LCPTERM"} # {}

\* With a peer that asks for PAP, or no authentication, addresses are
\* negotiated and used only over an open and authenticated link.
LinkIsAuthenticated ==
  ppp.ipcp # "INITIAL" /\ "chap" \notin ppp.offers
    => ppp.lcp = "OPENED" /\ ppp.auth = "AUTHENTICATED"

\* A closed link comes to rest: once the user has disconnected, the peer and
\* the modem's answers cannot keep it from the initial state for ever.
DisconnectEnds == ~ppp.autoreconnect ~> \/ ppp.autoreconnect
                                         \/ ppp.lcp = "INITIAL"

\* The user manual: "If the connection is dropped, the system will try to
\* reconnect by restarting the handshakes".
\* (The code breaks it: see the README.)
RedialsAfterDrop == ppp.hungup /\ ppp.autoreconnect
                      ~> ~ppp.autoreconnect \/ ppp.modem # "CONNECTED"
=============================================================================
