------------------------ MODULE ParserSessionProofs ------------------------
(***************************************************************************)
(* Proofs about the command parser and its session, for every set of users *)
(* and of commands, every size of the streams and every length of a        *)
(* session, wherever the session's timer interrupts the parser.            *)
(***************************************************************************)
EXTENDS ParserSession, SequenceTheorems, TLAPS

-----------------------------------------------------------------------------
(* Type correctness. *)

(* What a stream buffer accepts are pieces, however full it is               *)
(* (app-parser.cpp:118-135).                                                 *)
LEMMA PutType ==
    ASSUME NEW s \in Seq(Piece), NEW pieces \in Seq(Piece), pieces # <<>>
    PROVE  Put(s, pieces) \in Seq(Piece)
<1>1. s \o pieces \in Seq(Piece)
  OBVIOUS
<1>2. Head(pieces) \in Piece
  OBVIOUS
<1>3. Append(s, Head(pieces)) \in Seq(Piece)
  BY <1>2
<1>4. QED
  BY <1>1, <1>3 DEF Put

(* The head of a line is a piece, and so is its end.                         *)
LEMMA Pieces ==
    /\ <<EndOfLine>> \in Seq(Piece)
    /\ \A c \in Command : <<HeadOf(c)>> \in Seq(Piece) /\ <<HeadOf(c), EndOfLine>> \in Seq(Piece)
  BY DEF Piece

(* A piece that is not an end of line holds a command.                       *)
LEMMA HeadHolds == \A p \in Piece : p # EndOfLine => p[2] \in Command
  BY DEF Piece, HeadOf

(* A login that is executed names a user.                                    *)
LEMMA LoginNames == \A l \in Line : l[1] = "login" => l[2] \in Users
  BY DEF Line, Command, NoLine, Garbled

(* Initially every variable has its type (app-parser.hpp).                   *)
LEMMA InitTypeOK == Init => TypeOK
<1> SUFFICES ASSUME Init PROVE TypeOK
  OBVIOUS
<1> USE ParserSessionAssumption DEF ParserSessionAssumption, Init
<1>1. source \in Source /\ io \in Source \cup {"none"}
  BY DEF Source
<1>2. stream \in Seq(Piece) /\ ret \in Seq(Line \X {"OK", "KO"})
  OBVIOUS
<1>3. at \in Step /\ line \in Line /\ result \in {"OK", "KO"}
  BY DEF Step, Line
<1>4. user \in Users \cup {NoUser} /\ timer \in {"off", "fresh", "running"}
  OBVIOUS
<1>5. timeout \in 0 .. AuthTimeout
  OBVIOUS
<1>6. typed \in Command \cup {NoLine} /\ client_cmd \in Command \cup {NoLine}
  OBVIOUS
<1>7. client \in {"free", "announced", "waiting"}
  OBVIOUS
<1>8. due \in Seq(Command \cup {NoLine})
  OBVIOUS
<1>9. locked \in BOOLEAN /\ overlap \in BOOLEAN
  BY Zenon
<1>10. QED
  BY <1>1, <1>2, <1>3, <1>4, <1>5, <1>6, <1>7, <1>8, <1>9 DEF TypeOK

(* What the history variables become are lines again.                        *)
LEMMA HistoryType ==
    ASSUME TypeOK
    PROVE  /\ Due \in Seq(Command \cup {NoLine})
           /\ \A b \in BOOLEAN : Note(b) => overlap' \in BOOLEAN
           /\ Answered => due' \in Seq(Command \cup {NoLine})
<1>1. Due \in Seq(Command \cup {NoLine})
  BY DEF TypeOK, Due
<1>2. \A b \in BOOLEAN : Note(b) => overlap' \in BOOLEAN
  BY DEF TypeOK, Note
<1>3. Answered => due' \in Seq(Command \cup {NoLine})
  BY DEF TypeOK, Answered
<1>4. QED
  BY <1>1, <1>2, <1>3

(* No step of the parser, the UART, the menu or the timer leaves the types;  *)
(* in particular the time left of a session never goes below zero            *)
(* (app-parser.cpp:277-293).                                                 *)
LEMMA NextTypeOK == TypeOK /\ [Next]_vars => TypeOK'
<1> SUFFICES ASSUME TypeOK, [Next]_vars PROVE TypeOK'
  OBVIOUS
<1> USE ParserSessionAssumption DEF ParserSessionAssumption, parserVars, sessionVars,
        clientVars, historyVars, Source, Step, Line, Goto, Return
<1>1. CASE \E c \in UartCommands \cap Command : UartHead(c)
  <2>1. PICK c \in UartCommands \cap Command : UartHead(c)
    BY <1>1
  <2>2. stream' \in Seq(Piece) /\ source' \in Source
    BY <2>1, PutType, Pieces DEF UartHead, OnReceive, TypeOK
  <2>3. overlap' \in BOOLEAN
    BY <2>1, HistoryType, Zenon DEF UartHead, UartNote
  <2>4. due' \in Seq(Command \cup {NoLine}) /\ typed' \in Command
    BY <2>1, HistoryType DEF UartHead
  <2>5. QED
    BY <2>1, <2>2, <2>3, <2>4 DEF UartHead, TypeOK
<1>2. CASE \E c \in DisplayCommands : Announce(c)
  BY <1>2, HistoryType DEF Announce, UartUnderWay, TypeOK
<1>3. CASE UartTail
  <2>1. stream' \in Seq(Piece) /\ source' \in Source
    BY <1>3, PutType, Pieces DEF UartTail, OnReceive, TypeOK
  <2>2. overlap' \in BOOLEAN
    BY <1>3, HistoryType, Zenon DEF UartTail, UartNote
  <2>3. due' \in Seq(Command \cup {NoLine}) /\ typed' = NoLine
    BY <1>3, HistoryType DEF UartTail, TypeOK
  <2>4. QED
    BY <1>3, <2>1, <2>2, <2>3 DEF UartTail, TypeOK
<1>4. CASE UartNoise
  <2>1. stream' \in Seq(Piece) /\ source' \in Source
    BY <1>4, PutType, Pieces DEF UartNoise, OnReceive, TypeOK
  <2>2. overlap' \in BOOLEAN
    BY <1>4, HistoryType, Zenon DEF UartNoise, UartNote
  <2>3. due' \in Seq(Command \cup {NoLine})
    BY <1>4, HistoryType DEF UartNoise, TypeOK
  <2>4. QED
    BY <1>4, <2>1, <2>2, <2>3 DEF UartNoise, TypeOK
<1>5. CASE WriteLine
  <2>1. client_cmd \in Command
    BY <1>5 DEF WriteLine, TypeOK
  <2>2. stream' \in Seq(Piece)
    BY <1>5, <2>1, PutType, Pieces DEF WriteLine, TypeOK
  <2>3. QED
    BY <1>5, <2>2 DEF WriteLine, TypeOK
<1>6. CASE TakeAnswer
  BY <1>6 DEF TakeAnswer, TypeOK
<1>7. CASE GiveUp
  BY <1>7 DEF GiveUp, TypeOK
<1>8. CASE Receive
  BY <1>8, HeadHolds DEF Receive, TypeOK
<1>9. CASE Noise
  BY <1>9, HistoryType DEF Noise, ResetStream, Transmit, TypeOK
<1>10. CASE Reset
  BY <1>10 DEF Reset, ResetStream, TypeOK
<1>11. CASE Login
  <2>1. user' \in Users \cup {NoUser}
    BY <1>11, LoginNames DEF Login, TypeOK
  <2>2. at' \in Step /\ result' \in {"OK", "KO"}
    BY <1>11 DEF Login, TypeOK
  <2>3. QED
    BY <1>11, <2>1, <2>2 DEF Login, TypeOK
<1>12. CASE LoginStart
  BY <1>12 DEF LoginStart, TypeOK
<1>13. CASE LoginLock
  BY <1>13 DEF LoginLock, TypeOK
<1>14. CASE Refused
  BY <1>14 DEF Refused, TypeOK
<1>15. CASE Logout
  BY <1>15 DEF Logout, TypeOK
<1>16. CASE LogoutStop
  BY <1>16 DEF LogoutStop, TypeOK
<1>17. CASE LogoutUnlock
  BY <1>17 DEF LogoutUnlock, TypeOK
<1>18. CASE Other
  BY <1>18 DEF Other, TypeOK
<1>19. CASE Refresh
  BY <1>19 DEF Refresh, TypeOK
<1>20. CASE Answer
  <2>1. ret' \in Seq(Line \X {"OK", "KO"})
    <3>1. Append(ret, <<line, result>>) \in Seq(Line \X {"OK", "KO"})
      BY DEF TypeOK
    <3>2. ret' = ret \/ ret' = Append(ret, <<line, result>>)
      BY <1>20, Zenon DEF Answer, AnswerDisplay
    <3>3. QED
      BY <3>1, <3>2 DEF TypeOK
  <2>2. at' \in Step /\ timer' \in {"off", "fresh", "running"}
    BY <1>20 DEF Answer, Transmit, TypeOK
  <2>3. due' \in Seq(Command \cup {NoLine})
    BY <1>20, HistoryType DEF Answer
  <2>4. line' \in Line /\ io' \in Source \cup {"none"} /\ result' \in {"OK", "KO"}
    BY <1>20 DEF Answer
  <2>5. QED
    BY <1>20, <2>1, <2>2, <2>3, <2>4 DEF Answer, TypeOK
<1>21. CASE Expire
  <2>1. locked' \in BOOLEAN
    BY <1>21, Zenon DEF Expire
  <2>2. QED
    BY <1>21, <2>1 DEF Expire, TypeOK
<1>22. CASE CountDown
  BY <1>22 DEF CountDown, TypeOK
<1>23. CASE UNCHANGED vars
  BY <1>23 DEF vars, TypeOK
<1>24. QED
  BY <1>1, <1>2, <1>3, <1>4, <1>5, <1>6, <1>7, <1>8, <1>9, <1>10, <1>11, <1>12,
     <1>13, <1>14, <1>15, <1>16, <1>17, <1>18, <1>19, <1>20, <1>21, <1>22, <1>23
  DEF Next, Parser, AuthTimer, Client

(* Every variable keeps its type.                                            *)
THEOREM TypeCorrect == Spec => []TypeOK
<1>1. QED
  BY InitTypeOK, NextTypeOK, PTL DEF Spec

-----------------------------------------------------------------------------
(* The session.  SessionInv is inductive: what a log-in or a log-out has     *)
(* done so far is known from the step it is at, and a timer that is fresh    *)
(* from the log-in under way.                                                *)

LEMMA InitSessionInv == Init => SessionInv
  BY DEF Init, SessionInv, SessionsAreTimed, NobodyLockedOut, SessionStartsFull

LEMMA NextSessionInv == SessionInv /\ [Next]_vars => SessionInv'
<1> SUFFICES ASSUME SessionInv, [Next]_vars PROVE SessionInv'
  OBVIOUS
<1> USE DEF SessionInv, SessionsAreTimed, NobodyLockedOut, SessionStartsFull,
        parserVars, sessionVars, clientVars, historyVars, Goto, Return
<1>1. CASE \/ \E c \in UartCommands \cap Command : UartHead(c)
           \/ UartTail \/ UartNoise
           \/ \E c \in DisplayCommands : Announce(c)
  <2>1. UNCHANGED <<at, user, timer, timeout, locked>>
    BY <1>1 DEF UartHead, UartTail, UartNoise, Announce
  <2>2. QED
    BY <2>1
<1>2. CASE Client
  BY <1>2 DEF Client, WriteLine, TakeAnswer, GiveUp
<1>3. CASE Receive \/ Noise \/ Reset
  BY <1>3 DEF Receive, Noise, Reset, Transmit
<1>4. CASE Login
  <2>1. timer # "fresh" /\ at' \in {"login_start", "answer"}
    BY <1>4 DEF Login
  <2>2. at' = "answer" => user' = user
    BY <1>4 DEF Login
  <2>3. UNCHANGED <<timer, timeout, locked>> /\ at = "execute"
    BY <1>4 DEF Login
  <2>4. QED
    BY <2>1, <2>2, <2>3
<1>5. CASE LoginStart
  BY <1>5 DEF LoginStart
<1>6. CASE LoginLock
  BY <1>6 DEF LoginLock
<1>7. CASE Refused \/ Other
  BY <1>7 DEF Refused, Other
<1>8. CASE Logout \/ LogoutStop
  BY <1>8 DEF Logout, LogoutStop
<1>9. CASE LogoutUnlock
  BY <1>9 DEF LogoutUnlock
<1>10. CASE Refresh
  BY <1>10 DEF Refresh
<1>11. CASE Answer
  <2>1. /\ at = "answer" /\ at' \in {"receive", "crashed"}
        /\ UNCHANGED <<user, timeout, locked>>
    BY <1>11 DEF Answer, Transmit
  <2>2. timer' # "fresh" /\ (timer # "off" => timer' # "off")
    BY <1>11 DEF Answer
  <2>3. QED
    BY <2>1, <2>2
<1>12. CASE Expire
  BY <1>12 DEF Expire
<1>13. CASE CountDown
  BY <1>13 DEF CountDown
<1>14. CASE UNCHANGED vars
  BY <1>14 DEF vars
<1>15. QED
  BY <1>1, <1>2, <1>3, <1>4, <1>5, <1>6, <1>7, <1>8, <1>9, <1>10, <1>11, <1>12,
     <1>13, <1>14
  DEF Next, Parser, AuthTimer

(* Wherever the timer interrupts the parser: a session is timed from its     *)
(* first step, a display that is locked will be unlocked, and a new session  *)
(* has all its time (app-parser.cpp:179-194, 219-224, 277-293;               *)
(* app-parser-commands.cpp:500-506).                                         *)
THEOREM SessionCorrect == Spec => []SessionInv
<1>1. QED
  BY InitSessionInv, NextSessionInv, PTL DEF Spec

-----------------------------------------------------------------------------
(* One line at a time.  As long as no line has run into another, the parser, *)
(* the UART and the menu are in one of four situations: nobody is in the     *)
(* middle of anything, a line is being typed, a line of the UART is on its   *)
(* way to its answer, or a command of the display is.                        *)

\* The parser's thread has a whole line and has not answered it.
Executing == Step \ {"receive", "noise", "crashed"}

\* A whole line c lies in the stream, or its head has been taken from it.
Arriving(c) ==
    /\ at = "receive"
    /\ \/ stream = <<HeadOf(c), EndOfLine>> /\ line = NoLine /\ c # NoLine
       \/ stream = <<EndOfLine>> /\ line = c

ExecutingLine(c) == at \in Executing /\ stream = <<>> /\ line = c /\ c # NoLine

Waiting == at = "receive" /\ stream = <<>> /\ line = NoLine

Nobody == Waiting /\ typed = NoLine /\ client = "free" /\ due = <<>> /\ ret = <<>>

Typing ==
    /\ typed # NoLine /\ client = "free" /\ due = <<>> /\ ret = <<>>
    /\ source = "UART" /\ at = "receive"
    /\ \/ stream = <<HeadOf(typed)>> /\ line = NoLine
       \/ stream = <<>> /\ line = typed

UartLine(c) ==
    /\ typed = NoLine /\ client = "free" /\ due = <<c>> /\ ret = <<>>
    /\ source = "UART"
    /\ \/ Arriving(c)
       \/ at = "noise" /\ stream = <<>> /\ line = NoLine /\ c = NoLine /\ io = "UART"
       \/ ExecutingLine(c) /\ io = "UART"

DisplayLine ==
    /\ typed = NoLine /\ due = <<>>
    /\ source = "DISPLAY"
    /\ \/ client = "announced" /\ Waiting /\ ret = <<>>
       \/ client = "waiting" /\ ret = <<>> /\ (Arriving(client_cmd) \/ ExecutingLine(client_cmd))
       \/ client = "waiting" /\ Waiting /\ \/ ret = <<>>
                                           \/ \E r \in {"OK", "KO"} : ret = <<<<client_cmd, r>>>>

Alone == Nobody \/ Typing \/ (\E c \in Command \cup {NoLine} : UartLine(c)) \/ DisplayLine

OneAtATime == overlap \/ Alone

(* What an empty stream, or one that holds a head, accepts                   *)
(* (app-parser.cpp:118-135).                                                 *)
LEMMA PutShort ==
    /\ \A x : Put(<<>>, <<x>>) = <<x>>
    /\ \A x, y : Put(<<>>, <<x, y>>) = <<x, y>>
    /\ \A x, y : Put(<<x>>, <<y>>) = <<x, y>>
<1> USE ParserSessionAssumption DEF ParserSessionAssumption, Put
<1>1. \A x : Put(<<>>, <<x>>) = <<x>>
  OBVIOUS
<1>2. \A x, y : Put(<<>>, <<x, y>>) = <<x, y>>
  OBVIOUS
<1>3. ASSUME NEW x, NEW y PROVE Put(<<x>>, <<y>>) = <<x, y>>
  <2>1. Len(<<x>>) = 1 /\ Len(<<y>>) = 1
    OBVIOUS
  <2>2. <<x>> \in Seq({x, y}) /\ <<y>> \in Seq({x, y}) /\ <<x, y>> \in Seq({x, y})
    OBVIOUS
  <2>3. <<x>> \o <<y>> \in Seq({x, y})
    BY <2>2
  <2>4. Len(<<x>> \o <<y>>) = 2 /\ Len(<<x, y>>) = 2
    BY <2>1, <2>2
  <2>5. \A i \in 1 .. 2 : (<<x>> \o <<y>>)[i] = <<x, y>>[i]
    <3>1. (<<x>> \o <<y>>)[1] = x /\ (<<x>> \o <<y>>)[2] = y
      BY <2>1, <2>2
    <3>2. QED
      BY <3>1
  <2>6. <<x>> \o <<y>> = <<x, y>>
    BY <2>2, <2>3, <2>4, <2>5, SeqEqual
  <2>7. QED
    BY <2>1, <2>6
<1>4. QED
  BY <1>1, <1>2, <1>3

(* No command is an empty line, and no head is an end of line.               *)
LEMMA LinesDiffer ==
    /\ \A c \in Command : c # NoLine
    /\ \A c : HeadOf(c) # EndOfLine /\ HeadOf(c)[2] = c
  BY DEF Command, NoLine, HeadOf, EndOfLine

(* The steps that execute a line touch nothing but the session, their own    *)
(* progress and what has come in behind the line.                            *)
LEMMA ExecutionStays ==
    ASSUME Reset \/ Login \/ LoginStart \/ LoginLock \/ Refused \/ Logout \/ LogoutStop
             \/ LogoutUnlock \/ Other \/ Refresh
    PROVE  /\ at \in Executing /\ at' \in Executing
           /\ stream' = stream \/ stream' = <<>>
           /\ UNCHANGED <<source, line, io, ret, clientVars, historyVars>>
  BY DEF Reset, Login, LoginStart, LoginLock, Refused, Logout, LogoutStop, LogoutUnlock,
         Other, Refresh, Goto, Return, ResetStream, Executing, Step, sessionVars

(* What comes in, and what is announced, without an overlap finds nobody in  *)
(* the middle of a line.                                                     *)
LEMMA FindsNobody ==
    ASSUME OneAtATime, typed = NoLine, client = "free",
           NEW b \in BOOLEAN, b \/ due = <<>>, Note(b), ~overlap'
    PROVE  Waiting /\ ret = <<>> /\ Due = <<>>
<1>1. CASE Clean
  BY <1>1 DEF Clean, Idle, Waiting, Due
<1>2. CASE ~Clean
  <2>1. ~overlap /\ ~b
    BY <1>2 DEF Note
  <2>2. Nobody
    BY <2>1 DEF OneAtATime, Alone, Typing, UartLine, DisplayLine
  <2>3. QED
    BY <1>2, <2>2 DEF Nobody, Due
<1>3. QED
  BY <1>1, <1>2

LEMMA InitOneAtATime == Init => OneAtATime
  BY DEF Init, OneAtATime, Alone, Nobody, Waiting

(* Wherever the UART, the menu and the timer interrupt the parser, and as    *)
(* long as no line overlaps with another, there is one at a time.            *)
LEMMA NextOneAtATime == TypeOK /\ OneAtATime /\ [Next]_vars => OneAtATime'
<1> SUFFICES ASSUME TypeOK, OneAtATime, [Next]_vars, ~overlap' PROVE Alone'
  BY DEF OneAtATime
<1> USE DEF parserVars, sessionVars, clientVars, historyVars
<1>1. ASSUME NEW c \in UartCommands \cap Command, UartHead(c) PROVE Alone'
  <2>1. client = "free" /\ Waiting /\ ret = <<>> /\ Due = <<>>
    <3>1. CASE client = "free"
      <4>1. Note(due # <<>>)
        BY <1>1, <3>1 DEF UartHead, UartNote
      <4>2. QED
        BY <1>1, <3>1, <4>1, FindsNobody DEF UartHead
    <3>2. CASE client # "free"
      BY <1>1, <3>2 DEF UartHead, UartNote, Note, Clean, Idle
    <3>3. QED
      BY <3>1, <3>2
  <2>2. Typing'
    BY <1>1, <2>1, LinesDiffer, PutShort DEF UartHead, OnReceive, Typing, Waiting
  <2>3. QED
    BY <2>2 DEF Alone
<1>2. CASE UartTail
  <2>1. ~overlap
    BY <1>2 DEF UartTail, UartNote, Note, Clean, Idle
  <2>2. Typing /\ typed \in Command
    BY <1>2, <2>1 DEF UartTail, OneAtATime, Alone, Nobody, UartLine, DisplayLine, TypeOK
  <2> PICK c \in Command : c = typed
    BY <2>2
  <2>3. due' = <<c>>
    BY <1>2, <2>2 DEF UartTail, Due, Typing
  <2>4. stream' = Put(stream, <<EndOfLine>>)
    BY <1>2 DEF UartTail, OnReceive
  <2>5. Arriving(c)'
    BY <1>2, <2>2, <2>4, PutShort, LinesDiffer DEF UartTail, Typing, Arriving
  <2>6. UartLine(c)'
    BY <1>2, <2>2, <2>3, <2>5 DEF UartTail, OnReceive, Typing, UartLine
  <2>7. QED
    BY <2>6 DEF Alone
<1>3. CASE UartNoise
  <2>1. client = "free" /\ Waiting /\ ret = <<>> /\ Due = <<>>
    <3>1. CASE client = "free"
      <4>1. Note(due # <<>>)
        BY <1>3, <3>1 DEF UartNoise, UartNote
      <4>2. QED
        BY <1>3, <3>1, <4>1, FindsNobody DEF UartNoise
    <3>2. CASE client # "free"
      BY <1>3, <3>2 DEF UartNoise, UartNote, Note, Clean, Idle
    <3>3. QED
      BY <3>1, <3>2
  <2>2. due' = <<NoLine>> /\ stream' = <<EndOfLine>>
    BY <1>3, <2>1, PutShort DEF UartNoise, OnReceive, Waiting
  <2>3. UartLine(NoLine)'
    BY <1>3, <2>1, <2>2 DEF UartNoise, OnReceive, UartLine, Arriving, Waiting
  <2>4. QED
    BY <2>3 DEF Alone
<1>4. ASSUME NEW c \in DisplayCommands, Announce(c) PROVE Alone'
  <2>1. typed = NoLine /\ Waiting /\ ret = <<>> /\ Due = <<>>
    <3>1. CASE typed = NoLine
      <4>1. Note(due # <<>>)
        BY <1>4, <3>1 DEF Announce, UartUnderWay
      <4>2. QED
        BY <1>4, <3>1, <4>1, FindsNobody DEF Announce
    <3>2. CASE typed # NoLine
      BY <1>4, <3>2 DEF Announce, UartUnderWay, Note, Clean, Idle
    <3>3. QED
      BY <3>1, <3>2
  <2>2. DisplayLine'
    BY <1>4, <2>1 DEF Announce, DisplayLine, Waiting
  <2>3. QED
    BY <2>2 DEF Alone
<1>5. CASE WriteLine
  <2>1. DisplayLine /\ Waiting /\ ret = <<>> /\ client_cmd \in Command
    BY <1>5 DEF WriteLine, OneAtATime, Alone, Nobody, Typing, UartLine, DisplayLine, TypeOK
  <2>2. stream' = <<HeadOf(client_cmd), EndOfLine>>
    BY <1>5, <2>1, PutShort DEF WriteLine, Waiting
  <2>3. Arriving(client_cmd)'
    BY <1>5, <2>1, <2>2, LinesDiffer DEF WriteLine, Waiting, Arriving
  <2>4. QED
    BY <1>5, <2>1, <2>3 DEF WriteLine, DisplayLine, Alone
<1>6. CASE TakeAnswer \/ GiveUp
  <2>1. DisplayLine /\ ~overlap
    BY <1>6 DEF TakeAnswer, GiveUp, OneAtATime, Alone, Nobody, Typing, UartLine
  <2>2. Waiting /\ typed = NoLine /\ due = <<>>
    BY <1>6, <2>1 DEF TakeAnswer, GiveUp, DisplayLine, Waiting, Arriving, ExecutingLine,
                      Executing
  <2>3. ret' = <<>> /\ client' = "free" /\ UNCHANGED <<at, stream, line, typed, due>>
    BY <1>6 DEF TakeAnswer, GiveUp
  <2>4. QED
    BY <2>2, <2>3 DEF Alone, Nobody, Waiting
<1>7. CASE Receive
  <2>1. ~overlap /\ at = "receive" /\ stream # <<>>
    BY <1>7 DEF Receive
  <2>2. UNCHANGED <<source, ret, typed, client, client_cmd, due>>
    BY <1>7 DEF Receive
  <2>3. ASSUME NEW c \in Command \cup {NoLine}, Arriving(c), c \in Command \/ source = "UART"
        PROVE  \/ Arriving(c)'
               \/ (ExecutingLine(c) /\ io = source)'
               \/ (at = "noise" /\ stream = <<>> /\ line = NoLine /\ io = source)' /\ c = NoLine
    <3>1. CASE stream = <<HeadOf(c), EndOfLine>> /\ line = NoLine /\ c # NoLine
      <4>1. Head(stream) = HeadOf(c) /\ Tail(stream) = <<EndOfLine>>
        BY <3>1
      <4>2. line' = c /\ at' = "receive" /\ stream' = <<EndOfLine>>
        BY <1>7, <2>1, <3>1, <4>1, LinesDiffer DEF Receive
      <4>3. QED
        BY <4>2 DEF Arriving
    <3>2. CASE stream = <<EndOfLine>> /\ line = c
      <4>1. Head(stream) = EndOfLine /\ Tail(stream) = <<>>
        BY <3>2
      <4>2. /\ at' = IF c = NoLine THEN "noise" ELSE "reset"
            /\ line' = c /\ io' = source' /\ stream' = <<>>
        BY <1>7, <3>2, <4>1 DEF Receive
      <4>3. QED
        BY <4>2 DEF ExecutingLine, Executing, Step
    <3>3. QED
      BY <2>3, <3>1, <3>2 DEF Arriving
  <2>4. CASE Typing
    <3>1. stream = <<HeadOf(typed)>> /\ line = NoLine
      BY <2>1, <2>4 DEF Typing
    <3>2. Head(stream) = HeadOf(typed) /\ Tail(stream) = <<>>
      BY <3>1
    <3>3. stream' = <<>> /\ line' = typed /\ at' = "receive"
      BY <1>7, <2>1, <3>1, <3>2, LinesDiffer DEF Receive
    <3>4. QED
      BY <2>2, <2>4, <3>3 DEF Typing, Alone
  <2>5. ASSUME NEW c \in Command \cup {NoLine}, UartLine(c) PROVE Alone'
    <3>1. Arriving(c) /\ source = "UART"
      BY <2>1, <2>5 DEF UartLine, ExecutingLine, Executing
    <3>2. UartLine(c)'
      BY <2>2, <2>3, <2>5, <3>1 DEF UartLine, ExecutingLine
    <3>3. QED
      BY <3>2 DEF Alone
  <2>6. CASE DisplayLine
    <3>1. client = "waiting" /\ Arriving(client_cmd) /\ ret = <<>> /\ client_cmd \in Command
      BY <2>1, <2>6 DEF DisplayLine, Waiting, ExecutingLine, TypeOK
    <3>2. (Arriving(client_cmd) \/ ExecutingLine(client_cmd))'
      BY <2>2, <2>3, <3>1, LinesDiffer DEF Arriving, ExecutingLine
    <3>3. QED
      BY <2>2, <2>6, <3>1, <3>2 DEF DisplayLine, Alone
  <2>7. QED
    BY <2>1, <2>4, <2>5, <2>6 DEF OneAtATime, Alone, Nobody, Waiting
<1>8. CASE Noise
  <2>1. ~overlap /\ at = "noise" /\ UNCHANGED <<typed, client, ret, line>>
    BY <1>8 DEF Noise
  <2>2. PICK c \in Command \cup {NoLine} : UartLine(c)
    BY <2>1 DEF OneAtATime, Alone, Nobody, Typing, DisplayLine, Waiting, Arriving,
                ExecutingLine, Executing
  <2>3. c = NoLine /\ line = NoLine /\ io = "UART" /\ due = <<c>> /\ ret = <<>>
    BY <2>1, <2>2 DEF UartLine, Arriving, ExecutingLine, Executing
  <2>4. due' = <<>>
    BY <1>8, <2>3 DEF Noise, Answered
  <2>5. at' = "receive" /\ stream' = <<>>
    BY <1>8, <2>3 DEF Noise, Transmit, ResetStream
  <2>6. QED
    BY <2>1, <2>2, <2>3, <2>4, <2>5 DEF Alone, Nobody, Waiting, UartLine
<1>9. CASE Reset \/ Login \/ LoginStart \/ LoginLock \/ Refused \/ Logout \/ LogoutStop
            \/ LogoutUnlock \/ Other \/ Refresh
  <2>1. /\ at \in Executing /\ at' \in Executing
        /\ stream' = stream \/ stream' = <<>>
        /\ UNCHANGED <<source, line, io, ret, clientVars, historyVars>>
    BY <1>9, ExecutionStays
  <2>2. at \notin {"receive", "noise"}
    BY <2>1 DEF Executing
  <2>3. \A c : ExecutingLine(c) => ExecutingLine(c)'
    BY <2>1 DEF ExecutingLine
  <2>4. ASSUME NEW c \in Command \cup {NoLine}, UartLine(c) PROVE UartLine(c)'
    BY <2>1, <2>2, <2>3, <2>4 DEF UartLine, Arriving
  <2>5. CASE DisplayLine
    BY <2>1, <2>2, <2>3, <2>5 DEF DisplayLine, Arriving, Waiting, Alone
  <2>6. ~overlap
    BY <2>1
  <2>7. QED
    BY <2>2, <2>4, <2>5, <2>6 DEF OneAtATime, Alone, Nobody, Typing, Waiting
<1>10. CASE Answer
  <2>1. ~overlap /\ at = "answer" /\ at \notin {"receive", "noise"}
    BY <1>10 DEF Answer
  <2>2. UNCHANGED <<source, stream, typed, client, client_cmd>> /\ line' = NoLine
    BY <1>10 DEF Answer
  <2>3. ASSUME NEW c \in Command \cup {NoLine}, UartLine(c) PROVE Nobody'
    <3>1. ExecutingLine(c) /\ io = "UART" /\ source = "UART" /\ due = <<c>> /\ ret = <<>>
      BY <2>1, <2>3 DEF UartLine, Arriving
    <3>2. due' = <<>>
      BY <1>10, <3>1 DEF Answer, Answered, ExecutingLine
    <3>3. at' = "receive" /\ ret' = <<>>
      BY <1>10, <3>1 DEF Answer, Transmit
    <3>4. QED
      BY <2>2, <2>3, <3>1, <3>2, <3>3 DEF Nobody, Waiting, UartLine, ExecutingLine
  <2>4. CASE DisplayLine
    <3>1. /\ client = "waiting" /\ ret = <<>> /\ source = "DISPLAY"
          /\ ExecutingLine(client_cmd) /\ due = <<>> /\ typed = NoLine
      BY <2>1, <2>4 DEF DisplayLine, Arriving, Waiting
    <3>2. due' = <<>> /\ at' = "receive"
      BY <1>10, <3>1 DEF Answer, Answered
    <3>3. ret' = <<>> \/ ret' = Append(<<>>, <<client_cmd, result>>)
      BY <1>10, <3>1 DEF Answer, AnswerDisplay, ExecutingLine
    <3>4. ret' = <<>> \/ \E r \in {"OK", "KO"} : ret' = <<<<client_cmd, r>>>>
      BY <3>3 DEF TypeOK
    <3>5. Waiting'
      BY <2>2, <3>1, <3>2 DEF Waiting, ExecutingLine
    <3>6. QED
      BY <2>2, <3>1, <3>2, <3>4, <3>5 DEF DisplayLine, Alone
  <2>5. QED
    BY <2>1, <2>3, <2>4 DEF OneAtATime, Alone, Nobody, Typing, Waiting
<1>11. CASE AuthTimer \/ UNCHANGED vars
  <2>1. UNCHANGED <<parserVars, clientVars, historyVars>>
    BY <1>11 DEF AuthTimer, Expire, CountDown, vars
  <2>2. QED
    BY <2>1 DEF OneAtATime, Alone, Nobody, Typing, UartLine, DisplayLine, Waiting, Arriving,
                ExecutingLine
<1>12. QED
  BY <1>1, <1>2, <1>3, <1>4, <1>5, <1>6, <1>7, <1>8, <1>9, <1>10, <1>11
  DEF Next, Parser, Client

(* Unless lines overlap, there is one line at a time: nobody's, one that is  *)
(* being typed on the UART, one of the UART on its way to its answer, or one *)
(* of the display, and both streams hold just what belongs to it             *)
(* (app-parser.cpp:84-136, 196-275).                                         *)
THEOREM OneLineAtATime == Spec => [](TypeOK /\ OneAtATime)
<1>1. TypeOK /\ OneAtATime /\ [Next]_vars => (TypeOK /\ OneAtATime)'
  BY NextTypeOK, NextOneAtATime
<1>2. QED
  BY InitTypeOK, InitOneAtATime, <1>1, PTL DEF Spec

(* Each command of the display gets its own answer, or none, unless a line   *)
(* of the UART ran into it (app-parser.cpp:91-105, 227-245).                 *)
THEOREM DisplayAnswered == Spec => []AnswersMatch
<1>1. OneAtATime => AnswersMatch
  BY DEF OneAtATime, Alone, Nobody, Typing, UartLine, DisplayLine, AnswersMatch
<1>2. QED
  BY OneLineAtATime, <1>1, PTL

(* Unless lines overlap, no answer is transmitted through an interface that  *)
(* nobody registered (app-parser.cpp:206, 229, 248, 265).                    *)
THEOREM InterfaceRegistered == Spec => []NoNullInterface
<1>1. OneAtATime => NoNullInterface
  BY DEF OneAtATime, Alone, Nobody, Typing, UartLine, DisplayLine, NoNullInterface, Waiting,
         Arriving, ExecutingLine, Executing
<1>2. QED
  BY OneLineAtATime, <1>1, PTL

(* Unless lines overlap, a parser that is idle has executed and answered     *)
(* every line that was typed (app-parser.cpp:201-269).                       *)
THEOREM TypedLinesExecuted == Spec => []LinesExecuted
<1>1. OneAtATime => LinesExecuted
  BY DEF OneAtATime, Alone, Nobody, Typing, UartLine, DisplayLine, LinesExecuted, Idle, Waiting,
         Arriving, ExecutingLine, Executing
<1>2. QED
  BY OneLineAtATime, <1>1, PTL

=============================================================================
