------------------------------ MODULE FrontEnds ------------------------------
(***************************************************************************)
(* The program pyvdetelweb: the main thread (bin/pyvdetelweb) that makes   *)
(* the device, connects to the switch and starts the front ends, the       *)
(* telnet thread (telnet.py), which serves one connection after another,   *)
(* and the web thread (web.py), whose requests carry their credentials.    *)
(*                                                                         *)
(* What a call of Vde2Mgmt does is module MgmtChannel: here it returns, or *)
(* never does.  The stack hands over connections some time; that picoTCP   *)
(* only runs while Pyco's handler does is module PycoHandler.  Prompts and *)
(* pages are left out.                                                     *)
(***************************************************************************)
EXTENDS Naturals

CONSTANTS Clients,   \* who connects to the telnet server
          Options,   \* the front ends asked for: a subset of {"web", "telnet"}
          Stacks     \* what the configuration may ask for: "lwipv6", "picotcp"

VARIABLES stack,     \* config['stack']
          main,      \* where the main thread is
          held,      \* what the program holds: "device", "unix", "listener"
          front,     \* the threads that were started, and how they are
          conn,      \* connections of the telnet server, and the passwords typed
          login,     \* the local variables of telnet()
          commands   \* whose commands were sent to the switch

vars == <<stack, main, held, front, conn, login, commands>>

Names == {"", "admin", "guest"}
Passwords == {"", "secret", "wrong"}
authenticate(u, p) == u = "admin" /\ p = "secret"

Nobody == "none"
Init == /\ stack \in Stacks /\ main = "init" /\ held = {} /\ front = [f \in Options |-> "no"]
        /\ conn = [c \in Clients |-> [st |-> "none", psw |-> ""]]
        /\ login = [pc |-> "no", conn |-> Nobody, user |-> "", psw |-> ""]
        /\ commands = {}

Local == <<stack, conn, login, commands>>
-----------------------------------------------------------------------------
(* The main thread.                                                        *)

\* The configuration or the pid file is wrong: sys.exit(2).
init == /\ main = "init" /\ main' \in {"device", "exit"}
        /\ UNCHANGED <<held, front, Local>>

\* DeviceInfo.create, then connect() to the management socket, and sys.exit(1)
CreateDevice == /\ main = "device" /\ main' = "connect"
                /\ held' = held \cup {"device"} /\ UNCHANGED <<front, Local>>
Connect == /\ main = "connect"
           /\ \/ main' = "start" /\ held' = held \cup {"unix"}
              \/ main' = "exit" /\ held' = held
           /\ UNCHANGED <<front, Local>>

\* [t.start() for t in threads]; when a thread cannot be started the others
\* are not waited for.
Start == /\ main = "start"
         /\ \E started \in SUBSET Options :
              /\ "telnet" \in started => "web" \notin Options \ started
              /\ front' = [f \in Options |-> IF f \in started THEN "run" ELSE "failed"]
              /\ main' = IF started = Options THEN "join" ELSE "finally"
              /\ login' = IF "telnet" \in started THEN [login EXCEPT !.pc = "bind"] ELSE login
         /\ UNCHANGED <<stack, held, conn, commands>>

\* (mutant: only the first thread is waited for)
Join_First == main = "join" /\ (\E f \in Options : front[f] = "ended") /\ main' = "finally"
              /\ UNCHANGED <<held, front, Local>>
\* [t.join() for t in threads]
Join == main = "join" /\ (\A f \in Options : front[f] = "ended") /\ main' = "finally"
        /\ UNCHANGED <<held, front, Local>>

\* device.destroy() raises where the adapter has no linkDelIp4, and the rest
\* of the finally clause is not run.
Finally == /\ main = "finally" /\ main' = "exit"
           /\ held' = IF stack = "lwipv6" THEN held ELSE held \ {"device", "unix"}
           /\ UNCHANGED <<front, Local>>

-----------------------------------------------------------------------------
(* The telnet thread.                                                      *)

TelnetEnds == /\ front' = [front EXCEPT !["telnet"] = "ended"]
              /\ login' = [login EXCEPT !.pc = "ended", !.conn = Nobody]

\* bind() and listen(10); bind raises, and what the handler of the exception
\* calls is not imported.
Bind == /\ login.pc = "bind"
        /\ \/ TelnetEnds /\ UNCHANGED held
           \/ /\ login' = [login EXCEPT !.pc = "accept"]
              /\ held' = held \cup {"listener"} /\ UNCHANGED front
        /\ UNCHANGED <<stack, main, conn, commands>>

\* The stack completes a handshake.  The call that would start the handler of
\* picoTCP is commented out: nothing ever arrives there.
Arrive(c) == /\ "listener" \in held /\ conn[c].st = "none" /\ stack = "lwipv6"
             /\ conn' = [conn EXCEPT ![c].st = "queued"]
             /\ UNCHANGED <<stack, main, held, front, login, commands>>

\* (mutant: the password of the connection before is still there)
Fresh_OnlyName(c) == [login EXCEPT !.pc = "user", !.conn = c, !.user = ""]
Fresh(c) == [login EXCEPT !.pc = "user", !.conn = c, !.user = "", !.psw = ""]
Accept(c) == /\ login.pc = "accept" /\ conn[c].st = "queued"
             /\ conn' = [conn EXCEPT ![c].st = "open"]
             /\ login' = Fresh(c)
             /\ UNCHANGED <<stack, main, held, front, commands>>

\* while not user: recv; at the end of the stream it is the empty string
RecvUser(u) == /\ login.pc = "user"
               /\ conn[login.conn].st = "gone" => u = ""
               /\ login' = IF u = "" THEN login
                           ELSE [login EXCEPT !.user = u,
                                   !.pc = IF login.psw = "" THEN "psw" ELSE "auth"]
               /\ UNCHANGED <<stack, main, held, front, conn, commands>>
RecvPassword(p) == /\ login.pc = "psw"
                   /\ conn[login.conn].st = "gone" => p = ""
                   /\ login' = IF p = "" THEN login ELSE [login EXCEPT !.psw = p, !.pc = "auth"]
                   /\ conn' = [conn EXCEPT ![login.conn].psw = p]
                   /\ UNCHANGED <<stack, main, held, front, commands>>

\* authenticate(), then showinfo or the end of the connection
Authenticate == /\ login.pc = "auth"
                /\ IF authenticate(login.user, login.psw)
                   THEN /\ login' = [login EXCEPT !.pc = "session"]
                        /\ commands' = commands \cup {login.conn}
                        /\ UNCHANGED conn
                   ELSE /\ login' = [login EXCEPT !.pc = "accept", !.conn = Nobody]
                        /\ conn' = [conn EXCEPT ![login.conn].st = "closed"]
                        /\ UNCHANGED commands
                /\ UNCHANGED <<stack, main, held, front>>

\* (mutant: no finally clause)
AfterInput_NoFinally(data) ==
  IF data = "" THEN login' = [login EXCEPT !.pc = "stuck"] /\ UNCHANGED <<front, held>>
  ELSE TelnetEnds /\ UNCHANGED held
\* An input is answered and then time.sleep() raises: time is not imported
\* here; the history is a list and cannot be appended to a string.  Either
\* way the finally clause closes the listener, and not the connection.  At
\* the end of the stream the empty command is sent and its answer awaited.
AfterInput(data) ==
  IF data = "" THEN login' = [login EXCEPT !.pc = "stuck"] /\ UNCHANGED <<front, held>>
  ELSE TelnetEnds /\ held' = held \ {"listener"}
Session(data) == /\ login.pc = "session"
                 /\ conn[login.conn].st = "gone" <=> data = ""
                 /\ commands' = IF data \in {"command", ""}
                                THEN commands \cup {login.conn} ELSE commands
                 /\ AfterInput(data)
                 /\ UNCHANGED <<stack, main, conn>>

\* The client closes.
Gone(c) == /\ conn[c].st = "open" /\ conn' = [conn EXCEPT ![c].st = "gone"]
           /\ UNCHANGED <<stack, main, held, front, login, commands>>

-----------------------------------------------------------------------------
(* The web thread.                                                         *)

\* requires_auth and send_command: every request has its own credentials
WebRequest(u, p) ==
  /\ "web" \in Options /\ front["web"] = "run"
  /\ authenticate(u, p)
  /\ commands' = commands \cup {"web"}
  /\ UNCHANGED <<stack, main, held, front, conn, login>>
\* app.run() returns or raises, for one because it cannot bind.
WebEnds == /\ "web" \in Options /\ front["web"] = "run"
           /\ front' = [front EXCEPT !["web"] = "ended"]
           /\ UNCHANGED <<stack, main, held, Local>>

Telnet == \/ Bind \/ Authenticate
          \/ \E c \in Clients : Accept(c)
          \/ \E u \in Names : RecvUser(u)
          \/ \E p \in Passwords : RecvPassword(p)
          \/ \E data \in {"", "blank", "history", "command"} : Session(data)
Main == init \/ CreateDevice \/ Connect \/ Start \/ Join \/ Finally
\* Daemon threads or not, after the end of the main thread they go on.
Next == \/ Main \/ Telnet \/ WebEnds
        \/ \E c \in Clients : Arrive(c) \/ Gone(c)
        \/ \E u \in Names, p \in Passwords : WebRequest(u, p)

Spec == Init /\ [][Next]_vars

-----------------------------------------------------------------------------
(* Properties.                                                             *)

\* A listener that is open has a thread that will accept its connections.
ListenerHasThread == "listener" \in held =>
  front["telnet"] = "run" /\ (login.pc = "accept" \/ login.conn \in Clients)

\* No command of a telnet connection reaches the switch before that
\* connection, and not the one before it, has given the password.
OnlyAuthenticated == \A c \in commands \cap Clients : conn[c].psw = "secret"

\* The device and the socket to the switch are given back when no front end
\* uses them any more, unless one could not be started.
ResourcesOutliveThreads ==
  (\A f \in Options : front[f] # "failed") =>
    \A f \in Options : front[f] = "run" => {"device", "unix"} \subseteq held

\* The comment of the telnet loop: "infinite loop so that function do not
\* terminate and thread do not end"; an answered input does not end it.
\* (The code breaks it: see the README.)
ThreadDoesNotEnd == [][login.pc = "session" => login'.pc # "ended"]_vars
=============================================================================
