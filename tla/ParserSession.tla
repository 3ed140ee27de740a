---------------------------- MODULE ParserSession ----------------------------
(***************************************************************************)
(* The command parser and the session it keeps: app_parser                 *)
(* (hhg-app/src/app-parser.cpp), the login commands                        *)
(* (app-parser-commands.cpp) and the UART (pico-uart.cpp).                 *)
(*                                                                         *)
(*  - the UART's interrupt hands on_receive one byte at a time;            *)
(*  - the display's menu (button or encoder thread, NORMAL) calls          *)
(*    send_cmd, which writes a whole line and waits for the answer;        *)
(*  - the parser's thread (NORMAL) takes bytes from one stream buffer,     *)
(*    executes a line when it is complete and answers to the source of the *)
(*    last byte received, whichever line that byte was of;                 *)
(*  - a timer counts the session down once a second.  The timer's thread   *)
(*    is preferred to the parser's, which it may interrupt anywhere.       *)
(*                                                                         *)
(* The bytes of a line are two pieces: a head, which holds the "$" and the *)
(* words, and a tail, which holds the end of line.  What the garbled parts *)
(* of several lines do is left open.  Nothing calls on_receive for the     *)
(* network yet, so there are two sources.                                  *)
(***************************************************************************)
EXTENDS Naturals, Sequences

CONSTANTS
    Users,
    NoUser,
    AuthTimeout,      \* AUTH_TIMEOUT in seconds, 300
    StreamSize,       \* pieces that fit the stream `buffer`, 256 bytes
    RetSize,          \* answers that fit the stream `ret`, 256 bytes
    UartCommands,     \* what is typed on the UART, NoLine for an empty line,
    DisplayCommands,  \* and what the menu's pages send
    MaxDue            \* bound: lines of the UART not yet executed

(* What a command does to the session: log a user in, log out, something a  *)
(* logged user may do, the same without writing its answer in ret_buffer    *)
(* ("$CONF 11" prints it), something anybody may do.                        *)
Command == ({"login"} \X Users) \cup ({"logout", "guarded", "silent", "free"} \X {NoUser})

NoLine == <<"none", NoUser>>
Garbled == <<"garbled", NoUser>>
Line == Command \cup {NoLine, Garbled}

ASSUME ParserSessionAssumption ==
    /\ NoUser \notin Users
    /\ AuthTimeout \in Nat \ {0}
    /\ StreamSize \in Nat /\ StreamSize >= 2
    /\ RetSize \in Nat \ {0}
    /\ UartCommands \subseteq Command \cup {NoLine}
    /\ DisplayCommands \subseteq Command \ {<<"logout", NoUser>>}
    /\ MaxDue \in Nat

VARIABLES
    source,       \* app_parser::source, of the last bytes received
    stream,       \* app_parser::buffer
    at,           \* where the parser's thread is
    line,         \* what it has received of a line, then the line it executes
    io,           \* the interface chosen with the last byte of the line
    result,       \* what execute() returned
    ret           \* app_parser::ret, answers as <<line, result>>

VARIABLES
    user,         \* user_logged
    timer,        \* auth_timer: off, started less than a second ago, running
    timeout,      \* user_logged_timeout, in seconds
    locked        \* app_display_handler::locked

VARIABLES
    typed,        \* the line whose head has been typed on the UART
    client,       \* where send_cmd is, and
    client_cmd    \* the command it sends

VARIABLES
    due,          \* history: UART lines ended and not yet answered
    overlap       \* history: a line came in while another was under way

parserVars == <<source, stream, at, line, io, result, ret>>
sessionVars == <<user, timer, timeout, locked>>
clientVars == <<typed, client, client_cmd>>
historyVars == <<due, overlap>>
vars == <<parserVars, sessionVars, clientVars, historyVars>>

Source == {"UART", "DISPLAY"}
HeadOf(c) == <<"head", c>>
EndOfLine == <<"tail", NoLine>>
Piece == {EndOfLine} \cup {HeadOf(c) : c \in Command}

Step == {"receive", "noise", "reset", "execute", "login_start", "login_lock",
         "logout_stop", "logout_unlock", "refresh", "answer", "crashed"}

(* Every variable has its type; the time left of a session does not pass     *)
(* zero, where the timer would miss it (app-parser.hpp:57-93).               *)
TypeOK ==
    /\ source \in Source /\ io \in Source \cup {"none"}
    /\ stream \in Seq(Piece)
    /\ at \in Step
    /\ line \in Line
    /\ result \in {"OK", "KO"}
    /\ ret \in Seq(Line \X {"OK", "KO"})
    /\ user \in Users \cup {NoUser}
    /\ timer \in {"off", "fresh", "running"}
    /\ timeout \in 0 .. AuthTimeout
    /\ locked \in BOOLEAN
    /\ typed \in Command \cup {NoLine}
    /\ client \in {"free", "announced", "waiting"}
    /\ client_cmd \in Command \cup {NoLine}
    /\ client # "free" => client_cmd \in Command
    /\ due \in Seq(Command \cup {NoLine})
    /\ overlap \in BOOLEAN

Init ==
    /\ source = "DISPLAY" /\ io = "none"
    /\ stream = <<>> /\ ret = <<>>
    /\ at = "receive" /\ line = NoLine /\ result = "KO"
    /\ user = NoUser
    /\ timer = "off" /\ timeout = 0
    /\ locked = FALSE
    /\ typed = NoLine /\ client = "free" /\ client_cmd = NoLine
    /\ due = <<>> /\ overlap = FALSE

-----------------------------------------------------------------------------
(* What comes in. *)

\* stream_buffer::send_from_isr: what does not fit is dropped.
Put(s, pieces) ==
    IF Len(s) + Len(pieces) <= StreamSize THEN s \o pieces
    ELSE IF Len(s) < StreamSize THEN Append(s, Head(pieces))
    ELSE s

OnReceive(src, pieces) ==
    /\ source' = src
    /\ stream' = Put(stream, pieces)

\* The parser waits for bytes, and nobody is in the middle of a line.
Idle == at = "receive" /\ stream = <<>> /\ typed = NoLine /\ client = "free"

(* History.  A line of the UART is under way from its first byte until it is *)
(* answered.  Lines overlap when a byte comes in, or a command of the display*)
(* is sent, while another line is under way; that is over when the parser is *)
(* idle and nothing is left of what came in or was answered.                 *)
UartUnderWay == typed # NoLine \/ due # <<>>
Clean == Idle /\ line = NoLine /\ ret = <<>>
Note(overlaps) == overlap' = IF Clean THEN FALSE ELSE overlap \/ overlaps
Due == IF Clean THEN <<>> ELSE due
Answered == due' = IF due # <<>> /\ Head(due) = line THEN Tail(due) ELSE due

UartNote == Note(client # "free" \/ due # <<>>)

UartHead(c) ==
    /\ at # "crashed"
    /\ typed = NoLine
    /\ typed' = c
    /\ OnReceive("UART", <<HeadOf(c)>>)
    /\ UartNote
    /\ due' = Due
    /\ UNCHANGED <<at, line, io, result, ret, sessionVars, client, client_cmd>>

UartTail ==
    /\ at # "crashed"
    /\ typed # NoLine
    /\ Len(Due) < MaxDue
    /\ due' = Append(Due, typed)
    /\ typed' = NoLine
    /\ OnReceive("UART", <<EndOfLine>>)
    /\ UartNote
    /\ UNCHANGED <<at, line, io, result, ret, sessionVars, client, client_cmd>>

\* An end of line without a command.
UartNoise ==
    /\ at # "crashed"
    /\ NoLine \in UartCommands
    /\ typed = NoLine
    /\ Len(Due) < MaxDue
    /\ due' = Append(Due, NoLine)
    /\ OnReceive("UART", <<EndOfLine>>)
    /\ UartNote
    /\ UNCHANGED <<at, line, io, result, ret, sessionVars, clientVars>>

(* send_cmd: on_receive sets the source, then writes the line; a byte of the *)
(* UART may come in between.                                                 *)
Announce(c) ==
    /\ at # "crashed"
    /\ client = "free"
    /\ client' = "announced" /\ client_cmd' = c
    /\ source' = "DISPLAY"
    /\ Note(UartUnderWay)
    /\ due' = Due
    /\ UNCHANGED <<stream, at, line, io, result, ret, sessionVars, typed>>

WriteLine ==
    /\ at # "crashed"
    /\ client = "announced"
    /\ client' = "waiting"
    /\ stream' = Put(stream, <<HeadOf(client_cmd), EndOfLine>>)
    /\ UNCHANGED <<source, at, line, io, result, ret, sessionVars, typed,
                   client_cmd, historyVars>>

\* ret.receive takes everything there is.
TakeAnswer ==
    /\ at # "crashed"
    /\ client = "waiting"
    /\ ret # <<>>
    /\ ret' = <<>>
    /\ client' = "free" /\ client_cmd' = NoLine
    /\ UNCHANGED <<source, stream, at, line, io, result, sessionVars, typed,
                   historyVars>>

\* Mutated: a timeout shorter than a command.
ImpatientGiveUp ==
    /\ client = "waiting" /\ ret = <<>>
    /\ client' = "free" /\ client_cmd' = NoLine
    /\ UNCHANGED <<parserVars, sessionVars, typed, historyVars>>

\* Mutated: WAIT_FOREVER in place of a second.
NeverGiveUp == FALSE

(* ret.receive gives up after a second.  No command takes as long, and the   *)
(* flash is written with the clock stopped: only an answer that went         *)
(* elsewhere, or was empty, is not there in time.                            *)
GiveUp ==
    /\ client = "waiting"
    /\ ret = <<>>
    /\ at = "receive" /\ stream = <<>>
    /\ client' = "free" /\ client_cmd' = NoLine
    /\ UNCHANGED <<parserVars, sessionVars, typed, historyVars>>

-----------------------------------------------------------------------------
(* The parser's thread. *)

Goto(a, b) == at = a /\ at' = b

Receive ==
    /\ at = "receive"
    /\ stream # <<>>
    /\ stream' = Tail(stream)
    /\ \/ /\ Head(stream) # EndOfLine
          /\ line' = IF line = NoLine THEN Head(stream)[2] ELSE Garbled
          /\ at' = at /\ io' = "none"
       \/ /\ Head(stream) = EndOfLine
          /\ at' = IF line = NoLine THEN "noise" ELSE "reset"
          /\ line' = line /\ io' = source
    /\ UNCHANGED <<source, result, ret, sessionVars, clientVars, historyVars>>

\* io->transmit.  Only the UART is registered: any other interface is a null pointer.
Transmit(next) == at' = IF io = "UART" THEN next ELSE "crashed"

\* buffer.reset() drops whatever has come in since the end of the line.
ResetStream == stream' = <<>>

\* A line without a command is answered KO, whoever sent it.
Noise ==
    /\ at = "noise"
    /\ ResetStream
    /\ Transmit("receive")
    /\ io' = "none"
    /\ Answered
    /\ UNCHANGED <<source, line, result, ret, sessionVars, clientVars, overlap>>

Reset ==
    /\ Goto("reset", "execute")
    /\ ResetStream
    /\ UNCHANGED <<source, line, io, result, ret, sessionVars, clientVars, historyVars>>

Return(r) == result' = r /\ at' = IF r = "OK" THEN "refresh" ELSE "answer"

\* $AUTH, from the UART or the display.
Login ==
    /\ at = "execute"
    /\ line[1] = "login"
    /\ \/ /\ user' = line[2]                        \* name and password match
          /\ at' = "login_start"
          /\ result' = result
       \/ Return("KO") /\ user' = user
    /\ UNCHANGED <<source, stream, line, io, ret, timer, timeout,
                   locked, clientVars, historyVars>>

\* The rest of set_user_logged (source_user_logged is never read).
LoginStart ==
    /\ Goto("login_start", "login_lock")
    /\ timer' = "fresh"
    /\ UNCHANGED <<source, stream, line, io, result, ret, user, timeout, locked,
                   clientVars, historyVars>>

LoginLock ==
    /\ at = "login_lock"
    /\ locked' = (locked \/ source = "UART")
    /\ Return("OK")
    /\ UNCHANGED <<source, stream, line, io, ret, user, timer,
                   timeout, clientVars, historyVars>>

\* on_auth, for the commands that have an access: some user must be logged.
Refused ==
    /\ at = "execute"
    /\ line[1] \in {"logout", "guarded", "silent"}
    /\ user = NoUser
    /\ Return("KO")
    /\ UNCHANGED <<source, stream, line, io, ret, sessionVars, clientVars, historyVars>>

\* $AUTH_DISCONNECT: clear_user_logged, in the parser's thread.
Logout ==
    /\ line = <<"logout", NoUser>>
    /\ user # NoUser
    /\ Goto("execute", "logout_stop")
    /\ user' = NoUser
    /\ UNCHANGED <<source, stream, line, io, result, ret, timer,
                   timeout, locked, clientVars, historyVars>>

LogoutStop ==
    /\ Goto("logout_stop", "logout_unlock")
    /\ timer' = "off"
    /\ UNCHANGED <<source, stream, line, io, result, ret, user, timeout, locked, clientVars, historyVars>>

LogoutUnlock ==
    /\ at = "logout_unlock"
    /\ locked' = FALSE
    /\ Return("OK")
    /\ UNCHANGED <<source, stream, line, io, ret, user, timer,
                   timeout, clientVars, historyVars>>

\* Any other command, which leaves the session alone.
Other ==
    /\ at = "execute"
    /\ \/ line[1] \in {"guarded", "silent"} /\ user # NoUser
       \/ line[1] \in {"free", "garbled"}
    /\ \E r \in {"OK", "KO"} : Return(r)
    /\ UNCHANGED <<source, stream, line, io, ret, sessionVars, clientVars, historyVars>>

\* A command that succeeds keeps the session alive.
Refresh ==
    /\ Goto("refresh", "answer")
    /\ timeout' = IF user # NoUser /\ timer # "off" THEN AuthTimeout ELSE timeout
    /\ UNCHANGED <<source, stream, line, io, result, ret, user, timer, locked, clientVars, historyVars>>

\* The answer of a silent command is empty, and so nothing is sent to the display.
AnswerDisplay ==
    ret' = IF (line[1] = "silent" /\ result = "OK") \/ Len(ret) >= RetSize THEN ret
           ELSE Append(ret, <<line, result>>)

\* Mutated: a command that fails is answered without a test of its source.
AnswerKoToInterface ==
    /\ at = "answer"
    /\ \/ source = "DISPLAY" /\ result = "OK" /\ AnswerDisplay /\ at' = "receive"
       \/ /\ source = "UART" \/ result = "KO"
          /\ ret' = ret /\ Transmit("receive")
    /\ line' = NoLine /\ io' = "none" /\ result' = "KO"
    /\ timer' = IF timer = "fresh" THEN "running" ELSE timer
    /\ Answered
    /\ UNCHANGED <<source, stream, user, timeout, locked, clientVars, overlap>>

\* Mutated: buffer.clear() is missing after the answer.
AnswerKeepsLine ==
    /\ at = "answer"
    /\ \/ source = "DISPLAY" /\ AnswerDisplay /\ at' = "receive"
       \/ source = "UART" /\ ret' = ret /\ Transmit("receive")
    /\ io' = "none" /\ result' = "KO"
    /\ timer' = IF timer = "fresh" THEN "running" ELSE timer
    /\ Answered
    /\ UNCHANGED <<source, stream, line, user, timeout, locked, clientVars, overlap>>

Answer ==
    /\ at = "answer"
    /\ \/ source = "DISPLAY" /\ AnswerDisplay /\ at' = "receive"
       \/ source = "UART" /\ ret' = ret /\ Transmit("receive")
    /\ line' = NoLine /\ io' = "none" /\ result' = "KO"   \* end of their scope
    /\ timer' = IF timer = "fresh" THEN "running" ELSE timer
    /\ Answered
    /\ UNCHANGED <<source, stream, user, timeout, locked, clientVars, overlap>>

Parser ==
    \/ Receive \/ Noise \/ Reset \/ Login \/ LoginStart \/ LoginLock \/ Refused
    \/ Logout \/ LogoutStop \/ LogoutUnlock \/ Other \/ Refresh \/ Answer

-----------------------------------------------------------------------------
(* The session's timer.  Started, it does not fire for a second, longer than *)
(* the command that started it takes.  Its handler is not interrupted.       *)

\* Mutated: the handler logs the user out without on_logout.
ExpireKeepsLock ==
    /\ at # "crashed"
    /\ timer = "running" /\ timeout = 0
    /\ user' = NoUser
    /\ timer' = "off"
    /\ UNCHANGED <<parserVars, timeout, locked, clientVars, historyVars>>

Expire ==
    /\ at # "crashed"
    /\ timer = "running" /\ timeout = 0
    /\ user' = NoUser
    /\ timer' = "off"
    /\ locked' = FALSE
    /\ UNCHANGED <<parserVars, timeout, clientVars, historyVars>>

\* Mutated: the time left is never decremented.
NoCountDown ==
    /\ at # "crashed"
    /\ timer = "running" /\ timeout # 0
    /\ UNCHANGED vars

CountDown ==
    /\ at # "crashed"
    /\ timer = "running" /\ timeout # 0
    /\ timeout' = timeout - 1
    /\ UNCHANGED <<parserVars, user, timer, locked, clientVars, historyVars>>

AuthTimer == Expire \/ CountDown

Client == WriteLine \/ TakeAnswer \/ GiveUp

Next ==
    \/ Parser \/ AuthTimer \/ Client
    \/ \E c \in UartCommands \cap Command : UartHead(c)
    \/ UartTail \/ UartNoise
    \/ \E c \in DisplayCommands : Announce(c)

Spec == Init /\ [][Next]_vars

(* The parser's thread, send_cmd's and the timer's go on; what is sent is up *)
(* to the users, who owe nothing.                                            *)
Fairness == WF_vars(Parser) /\ WF_vars(AuthTimer) /\ WF_vars(Client)

FairSpec == Spec /\ Fairness

-----------------------------------------------------------------------------
(* Properties. *)

(* A user who is logged in is logged out by a timer that runs: no session is *)
(* without end, but for the step between the assignment and the start        *)
(* (app-parser.cpp:181-183).                                                 *)
SessionsAreTimed == user # NoUser => timer # "off" \/ at = "login_start"

(* A display that is locked is unlocked again: somebody's session will end,  *)
(* or, when the session ended while its login was still being processed, the *)
(* timer runs for nobody, or the log-out that is in progress unlocks it      *)
(* (app-parser.cpp:179-194, 277-287; app-parser-commands.cpp:500-504).       *)
NobodyLockedOut ==
    locked => \/ timer # "off"
              \/ at \in {"login_start", "logout_stop", "logout_unlock"}

(* However a session before it ended, and whatever that left in the timeout, *)
(* a new session starts with all its time (app-parser.cpp:221-224).          *)
SessionStartsFull ==
    timer = "fresh" /\ at = "answer" /\ user # NoUser => timeout = AuthTimeout

SessionInv ==
    /\ SessionsAreTimed
    /\ NobodyLockedOut
    /\ SessionStartsFull
    /\ at = "login_lock" => timer = "fresh"
    /\ at \in {"logout_stop", "logout_unlock"} => user = NoUser
    /\ timer = "fresh" => at \in {"login_lock", "refresh", "answer"}

(* As long as no line of the UART runs into it, each command of the display  *)
(* gets the answer to itself and no other (app-parser.cpp:91-105, 227-245).  *)
AnswersMatch ==
    ~overlap /\ client # "free" /\ ret # <<>> =>
        Len(ret) = 1 /\ ret[1][1] = client_cmd

(* Under the same condition the interface answered through is one that was   *)
(* registered (app-parser.cpp:206, 229, 248, 265; app-main.cpp:450).         *)
NoNullInterface == at = "crashed" => overlap

(* Under the same condition each line typed has been executed, as it was     *)
(* typed, and answered when the parser is idle again (app-parser.cpp:201-269).*)
LinesExecuted == Idle /\ ~overlap => due = <<>>

(* A session ends unless its user keeps giving commands that succeed, and    *)
(* the display is given back (app-parser.cpp:277-293).                       *)
SessionsEnd ==
    \/ []<>(user = NoUser /\ ~locked)
    \/ []<>(at = "refresh")
    \/ <>(at = "crashed")

(* The page that sent a command is not kept waiting, whatever becomes of the *)
(* answer, unless bytes keep the parser busy for ever (app-parser.cpp:94).   *)
SendReturns ==
    \/ []<>(client = "free")
    \/ []<>(stream # <<>>)
    \/ <>(at = "crashed")

=============================================================================
