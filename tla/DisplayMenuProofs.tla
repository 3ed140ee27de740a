------------------------- MODULE DisplayMenuProofs -------------------------
(***************************************************************************)
(* What is proved about the menu, for every font, keyboard, number of      *)
(* schedules and zones.                                                    *)
(***************************************************************************)
EXTENDS DisplayMenu, TLAPS

\* TypeOK in two parts: what is true or false, and the rest.
FlagsOK ==
    /\ do_paint \in BOOLEAN /\ opened \in BOOLEAN
    /\ lcd_on \in BOOLEAN /\ timed_out \in BOOLEAN
    /\ logged \in BOOLEAN /\ locked \in BOOLEAN
    /\ blind \in BOOLEAN /\ overtaken \in BOOLEAN

DataOK ==
    /\ menu_idx \in Index /\ menu_level \in Index
    /\ typed \in [TextPages -> 0 .. KeyboardSize - 1]
    /\ wifi_step \in {"SSID", "PASSWD"}
    /\ step \in {"NONE", "SCHEDULE", "ZONE", "IRRIGATING"}
    /\ number_limit \in [first : {0, 1}, second : 0 .. Int16Max]
    /\ selections \in [schedule_idx : Byte, zone_idx : Byte, irrigating_minutes : Byte]
    /\ gated \subseteq Threads
    /\ at \in {"free", "confirm"} \cup Sending
    /\ display_at \in {"idle", "paint", "off"} \cup Closing
    /\ shown \in [page : {"none", "label"} \cup Pages, idx : Index, typed : 0 .. KeyboardSize - 1]

LEMMA TypeParts == TypeOK <=> FlagsOK /\ DataOK
BY DEF TypeOK, FlagsOK, DataOK

\* No step makes a flag anything but true or false.
LEMMA FlagsStep == ASSUME FlagsOK, [Next]_vars PROVE FlagsOK'
<1>1. CASE UNCHANGED vars
    BY <1>1, Zenon DEF FlagsOK, vars, sessionVars
<1>2. CASE \/ (\E t \in Threads : Gate(t)) \/ Ignored
    BY <1>2, Zenon DEF FlagsOK, Gate, Ignored, sessionVars
<1>3. CASE Session
    BY <1>3, Zenon DEF FlagsOK, Session, LogIn, Lock, LogOut, UnchangedBySession
<1>4. CASE Answers
    BY <1>4, Zenon DEF FlagsOK, Answers, Answered, SendPasswd, PasswdAnswered, WifiAccepted,
        WifiAnswered, DataAnswered, Finish, sessionVars
<1>5. CASE Display
    BY <1>5, Zenon DEF FlagsOK, Display, Begin, BeginLocked, BeginTooEarly, PaintNothing,
        PaintLevel, PaintText, PaintNumber, PaintMenu, ExitPaint, ExitOpened, ExitIdx,
        ExitLevel, ExitPasswd, ExitWifi, Off, GoOn, DisplayGoes, sessionVars
<1>6. CASE Handlers
  <2> USE <1>6 DEF FlagsOK, Handle, Finish, Looking, OnPage, sessionVars
  <2>1. CASE \/ MenuSelect \/ MenuOpen \/ (\E turn \in Turned : MenuTurn(turn))
             \/ \E t \in Threads : NoPage(t)
    BY <2>1, Zenon DEF MenuSelect, MenuOpen, MenuTurn, MenuTurnTo, NoPage
  <2>2. CASE \/ TypeChar \/ DeleteChar \/ Back \/ Refuse \/ ConfirmSsid \/ Confirm
             \/ \E turn \in Turned : TurnChar(turn)
    BY <2>2, Zenon DEF OnText, TypeChar, DeleteChar, Back, Refuse, ConfirmSsid, Confirm, TurnChar
  <2>3. CASE \/ (\E status \in Status : \/ PressNone(status) \/ PressSchedule(status)
                                        \/ PressZone(status) \/ PressIrrigating(status))
             \/ ClickNone \/ ClickSchedule \/ ClickZone \/ ClickIrrigating
             \/ \E turn \in Turned : TurnNumber(turn)
    BY <2>3, Zenon DEF OnNumber, PressNone, PressSchedule, PressZone, PressIrrigating, Press,
        ClickNone, ClickSchedule, ClickZone, ClickIrrigating, Click, TurnNumber
  <2> QED BY <2>1, <2>2, <2>3 DEF Handlers
<1> QED BY <1>1, <1>2, <1>3, <1>4, <1>5, <1>6 DEF Next

\* The handlers of the first level keep the types.
LEMMA MenuTyped ==
    ASSUME DataOK,
           \/ MenuSelect \/ MenuOpen \/ (\E turn \in Turned : MenuTurn(turn))
           \/ \E t \in Threads : NoPage(t)
    PROVE  DataOK'
<1> USE DisplayMenuAssumption DEF DisplayMenuAssumption, DataOK, Handle, Finish, sessionVars,
        wifiVars, irrigateVars, menuVars, Index, MENU_SIZE
<1>1. CASE MenuSelect
    BY <1>1 DEF MenuSelect
<1>2. CASE MenuOpen
    BY <1>2 DEF MenuOpen
<1>3. CASE \E turn \in Turned : MenuTurn(turn)
    BY <1>3 DEF MenuTurn, MenuTurnTo
<1>4. CASE \E t \in Threads : NoPage(t)
    BY <1>4 DEF NoPage, OnPage
<1> QED BY <1>1, <1>2, <1>3, <1>4

\* The handlers of the text pages do, and what they do with the answers.
LEMMA TextTyped ==
    ASSUME DataOK,
           \/ TypeChar \/ DeleteChar \/ Back \/ Refuse \/ ConfirmSsid \/ Confirm
           \/ (\E turn \in Turned : TurnChar(turn))
           \/ SendPasswd \/ PasswdAnswered \/ WifiAccepted \/ WifiAnswered
    PROVE  DataOK'
<1> USE DisplayMenuAssumption DEF DisplayMenuAssumption, DataOK, OnText, OnPage, Handle, Finish,
        sessionVars, wifiVars, irrigateVars, menuVars, Index, TextPages, WIFI, PASSWD
<1>1. CASE TypeChar
  <2>1. typed' \in [TextPages -> 0 .. KeyboardSize - 1] /\ menu_idx' \in Index
    <3>1. CASE typed[menu_level] < KeyboardSize - 1
      BY <1>1, <3>1 DEF TypeChar
    <3>2. CASE ~(typed[menu_level] < KeyboardSize - 1)
      BY <1>1, <3>2 DEF TypeChar
    <3> QED BY <3>1, <3>2
  <2> QED BY <1>1, <2>1 DEF TypeChar
<1>2. CASE DeleteChar
    BY <1>2 DEF DeleteChar
<1>3. CASE Back
    BY <1>3 DEF Back, LeaveTo
<1>4. CASE Refuse
    BY <1>4 DEF Refuse, LeaveTo
<1>5. CASE ConfirmSsid
    BY <1>5 DEF ConfirmSsid
<1>6. CASE Confirm
    BY <1>6 DEF Confirm
<1>7. CASE \E turn \in Turned : TurnChar(turn)
    BY <1>7 DEF TurnChar
<1>8. CASE SendPasswd
    BY <1>8 DEF SendPasswd, Sending
<1>9. CASE PasswdAnswered
  <2>1. UNCHANGED <<gated, shown, display_at, wifi_step, irrigateVars>> /\ at' = "free"
    BY <1>9, Zenon DEF PasswdAnswered, Answered
  <2>2. CASE LeaveTo(PASSWD, PASSWD)
    BY <2>1, <2>2 DEF LeaveTo
  <2>3. CASE /\ menu_idx' = CharA /\ menu_level' = PASSWD
             /\ typed' = [typed EXCEPT ![PASSWD] = 0]
    BY <2>1, <2>3
  <2> QED BY <1>9, <2>2, <2>3 DEF PasswdAnswered
<1>10. CASE WifiAccepted
    BY <1>10 DEF WifiAccepted, Answered, Sending
<1>11. CASE WifiAnswered
  <2>1. /\ UNCHANGED <<gated, shown, display_at, irrigateVars>>
        /\ at' = "free" /\ wifi_step' = "PASSWD"
    BY <1>11, Zenon DEF WifiAnswered, Answered
  <2>2. CASE LeaveTo(WIFI, WIFI)
    BY <2>1, <2>2 DEF LeaveTo
  <2>3. CASE typed' = [typed EXCEPT ![WIFI] = 0] /\ UNCHANGED <<menu_idx, menu_level>>
    BY <2>1, <2>3
  <2> QED BY <1>11, <2>2, <2>3 DEF WifiAnswered
<1> QED BY <1>1, <1>2, <1>3, <1>4, <1>5, <1>6, <1>7, <1>8, <1>9, <1>10, <1>11

\* The limits of the numbers are those of a schedule, of its zones, of a byte.
LEMMA Limits ==
    ASSUME NEW n \in Byte \cup {Schedules, ByteSize - 1}
    PROVE  /\ UpTo(n) \in [first : {0, 1}, second : 0 .. Int16Max]
           /\ UpTo(n).first = 1
BY DisplayMenuAssumption DEF DisplayMenuAssumption, Byte, UpTo

LEMMA ZonesAreBytes ==
    /\ \A schedule \in Nat : ZonesRead(schedule) \subseteq Byte
    /\ \A schedule \in Nat, zone \in Nat : GetData(schedule, zone) \in Byte
BY DisplayMenuAssumption DEF DisplayMenuAssumption, Byte, ZonesRead, GetData

LEMMA NumberTyped ==
    ASSUME DataOK,
           \/ \E status \in Status : \/ PressNone(status) \/ PressSchedule(status)
                                     \/ PressZone(status) \/ PressIrrigating(status)
           \/ ClickNone \/ ClickSchedule \/ ClickZone \/ ClickIrrigating
           \/ (\E turn \in Turned : TurnNumber(turn))
           \/ DataAnswered
    PROVE  DataOK'
<1> USE DisplayMenuAssumption DEF DisplayMenuAssumption, DataOK
<1>1. ASSUME NEW idx \in Index, NEW limit \in [first : {0, 1}, second : 0 .. Int16Max],
             NEW status
      PROVE  Raised(idx, limit, status) \in Index
    BY DEF Raised, Index
<1>2. \A n \in Int : n % ByteSize \in Byte /\ n % ByteSize \in Nat
    BY DEF Byte
<1>3. 0 \in Byte /\ 0 \in Index /\ IRRIGATE_NOW \in Index /\ -1 \in Index
    BY DEF Byte, Index, IRRIGATE_NOW
<1>4. menu_idx \in Int /\ menu_idx - 1 \in Int
    BY DEF Index
<1>5. ASSUME NEW status, NEW idx \in Index,
             NEW limit \in [first : {0, 1}, second : 0 .. Int16Max],
             Press(status, idx, limit),
             selections' \in [schedule_idx : Byte, zone_idx : Byte, irrigating_minutes : Byte],
             step' \in {"NONE", "SCHEDULE", "ZONE", "IRRIGATING"}
      PROVE  DataOK'
    BY <1>1, <1>5 DEF Press, OnNumber, OnPage, Handle, Finish, sessionVars, wifiVars
<1>6. ASSUME NEW level \in {-1, IRRIGATE_NOW},
             NEW limit \in [first : {0, 1}, second : 0 .. Int16Max],
             Click(level, limit),
             selections' \in [schedule_idx : Byte, zone_idx : Byte, irrigating_minutes : Byte],
             step' \in {"NONE", "SCHEDULE", "ZONE", "IRRIGATING"}
      PROVE  DataOK'
    BY <1>3, <1>6 DEF Click, OnNumber, OnPage, Handle, Finish, sessionVars, wifiVars, Index
<1>7. ASSUME NEW status \in Status, PressNone(status) PROVE DataOK'
    BY <1>5, <1>7, Limits DEF PressNone
<1>8. ASSUME NEW status \in Status, PressSchedule(status) PROVE DataOK'
  <2>1. PICK zones \in ZonesRead((menu_idx - 1) % ByteSize) :
            Press(status, 0, IF zones # 0 THEN UpTo(zones) ELSE number_limit)
    BY <1>8 DEF PressSchedule
  <2>2. zones \in Byte
    BY <1>2, <1>4, ZonesAreBytes
  <2>3. (IF zones # 0 THEN UpTo(zones) ELSE number_limit) \in [first : {0, 1}, second : 0 .. Int16Max]
    BY <2>2, Limits
  <2>4. /\ selections' = [selections EXCEPT !.schedule_idx = (menu_idx - 1) % ByteSize]
        /\ step' = "ZONE"
    BY <1>8 DEF PressSchedule
  <2>5. selections' \in [schedule_idx : Byte, zone_idx : Byte, irrigating_minutes : Byte]
    BY <1>2, <1>4, <2>4
  <2> QED BY <1>3, <1>5, <2>1, <2>3, <2>4, <2>5
<1>9. ASSUME NEW status \in Status, PressZone(status) PROVE DataOK'
    BY <1>3, <1>5, <1>9, Limits DEF PressZone
<1>10. ASSUME NEW status \in Status, PressIrrigating(status) PROVE DataOK'
    BY <1>2, <1>3, <1>4, <1>10
       DEF PressIrrigating, OnNumber, OnPage, Handle, sessionVars, wifiVars, Sending
<1>11. CASE ClickNone
    BY <1>6, <1>11 DEF ClickNone
<1>12. CASE ClickSchedule
    BY <1>3, <1>6, <1>12 DEF ClickSchedule
<1>13. CASE ClickZone
    BY <1>3, <1>6, <1>13, Limits DEF ClickZone
<1>14. CASE ClickIrrigating
  <2> DEFINE zones == GetData(selections.schedule_idx, (menu_idx - 1) % ByteSize)
  <2>1. zones \in Byte
    <3>1. selections.schedule_idx \in Nat
      BY DEF Byte
    <3> QED BY <1>2, <1>4, <3>1, ZonesAreBytes
  <2>2. (IF zones # 0 THEN UpTo(zones) ELSE number_limit) \in [first : {0, 1}, second : 0 .. Int16Max]
    BY <2>1, Limits
  <2>3. /\ Click(IRRIGATE_NOW, IF zones # 0 THEN UpTo(zones) ELSE number_limit)
        /\ selections' = [selections EXCEPT !.irrigating_minutes = 0]
        /\ step' = "ZONE"
    BY <1>14 DEF ClickIrrigating
  <2> QED BY <1>3, <1>6, <2>2, <2>3
<1>15. ASSUME NEW turn \in Turned, TurnNumber(turn) PROVE DataOK'
  <2>1. menu_idx' \in Index
    BY <1>15 DEF TurnNumber, InLimit, Index
  <2> QED BY <1>15, <2>1 DEF TurnNumber, OnNumber, OnPage, Handle, Finish, sessionVars, wifiVars
<1>16. CASE DataAnswered
    BY <1>1, <1>3, <1>16 DEF DataAnswered, Answered, Finish, wifiVars, NoSelections
<1> QED BY <1>7, <1>8, <1>9, <1>10, <1>11, <1>12, <1>13, <1>14, <1>15, <1>16

LEMMA NumberPainted ==
    \A idx \in Index :
        /\ Picture("No zone", 0, 0)
             \in [page : {"none", "label"} \cup Pages, idx : Index, typed : 0 .. KeyboardSize - 1]
        /\ \A s \in {"SCHEDULE", "ZONE", "IRRIGATING"} :
               Picture(s, idx, 0)
                   \in [page : {"none", "label"} \cup Pages, idx : Index, typed : 0 .. KeyboardSize - 1]
BY DisplayMenuAssumption DEF DisplayMenuAssumption, Index, Picture, Pages

\* The display's thread keeps the types.
LEMMA DisplayTyped ==
    ASSUME DataOK, Display
    PROVE  DataOK'
<1> USE DisplayMenuAssumption DEF DisplayMenuAssumption, DataOK, DisplayGoes, UnchangedByDisplay,
        sessionVars, wifiVars, menuVars, Index, Closing
<1>1. CASE Begin
    BY <1>1 DEF Begin
<1>2. CASE BeginLocked
    BY <1>2 DEF BeginLocked, NotMenu
<1>3. CASE BeginTooEarly
    BY <1>3 DEF BeginTooEarly, GoOn
<1>4. CASE PaintNothing
    BY <1>4 DEF PaintNothing, GoOn, NotMenu
<1>5. CASE PaintLevel
    BY <1>5 DEF PaintLevel, PaintMenu, GoOn, Picture
<1>6. CASE PaintText
  <2>1. TextPage \in Pages
    BY Zenon DEF TextPage, Pages
  <2>3. menu_idx' = IF menu_idx = -1 THEN CharA ELSE menu_idx
    BY <1>6, Zenon DEF PaintText
  <2>4. menu_idx' \in Index
    BY <2>3
  <2>2. typed[menu_level] \in 0 .. KeyboardSize - 1
    BY <1>6 DEF PaintText
  <2> QED BY <1>6, <2>1, <2>2, <2>4 DEF PaintText, PaintMenu, GoOn, Picture
<1>7. CASE PaintNumber
  <2>1. /\ number_limit' \in [first : {0, 1}, second : 0 .. Int16Max]
        /\ step' \in {"SCHEDULE", "ZONE", "IRRIGATING"}
    BY <1>7, Limits DEF PaintNumber
  <2>2. Clamped(menu_idx, number_limit') \in Index
    BY <2>1 DEF Clamped
  <2>3. menu_idx' \in {menu_idx, Clamped(menu_idx, number_limit')}
    BY <1>7 DEF PaintNumber
  <2>4. menu_idx' \in Index
    BY <2>2, <2>3
  <2>5. shown' = Picture("No zone", 0, 0) \/ shown' = Picture(step', menu_idx', 0)
    BY <1>7, Zenon DEF PaintNumber
  <2>6. shown' \in [page : {"none", "label"} \cup Pages, idx : Index, typed : 0 .. KeyboardSize - 1]
    <3>1. step' \in {"SCHEDULE", "ZONE", "IRRIGATING"}
      BY <2>1
    <3> QED BY <2>4, <2>5, <3>1, NumberPainted, Zenon
  <2> QED BY <1>7, <2>1, <2>4, <2>6 DEF PaintNumber, PaintMenu, GoOn
<1>8. CASE ExitPaint
    BY <1>8 DEF ExitPaint
<1>9. CASE ExitOpened
    BY <1>9 DEF ExitOpened
<1>10. CASE ExitIdx
    BY <1>10 DEF ExitIdx
<1>11. CASE ExitLevel
    BY <1>11 DEF ExitLevel
<1>12. CASE ExitPasswd
  <2>1. typed' = [typed EXCEPT ![PASSWD] = 0]
    BY <1>12, Zenon DEF ExitPasswd
  <2>2. typed' \in [TextPages -> 0 .. KeyboardSize - 1]
    BY <2>1 DEF TextPages, PASSWD, WIFI
  <2> QED BY <1>12, <2>2 DEF ExitPasswd
<1>13. CASE ExitWifi
  <2>1. typed' = [typed EXCEPT ![WIFI] = 0]
    BY <1>13, Zenon DEF ExitWifi
  <2>2. typed' \in [TextPages -> 0 .. KeyboardSize - 1]
    BY <2>1 DEF TextPages, PASSWD, WIFI
  <2> QED BY <1>13, <2>2 DEF ExitWifi, irrigateVars
<1>14. CASE Off
    BY <1>14 DEF Off
<1> QED BY <1>1, <1>2, <1>3, <1>4, <1>5, <1>6, <1>7, <1>8, <1>9, <1>10, <1>11, <1>12,
           <1>13, <1>14 DEF Display

LEMMA DataStep == ASSUME DataOK, [Next]_vars PROVE DataOK'
<1>1. CASE UNCHANGED vars
    BY <1>1 DEF DataOK, vars, menuVars, wifiVars, irrigateVars
<1>2. CASE \/ (\E t \in Threads : Gate(t)) \/ Ignored
    BY <1>2 DEF DataOK, Gate, Ignored, menuVars, wifiVars, irrigateVars
<1>3. CASE Session
    BY <1>3 DEF DataOK, Session, LogIn, Lock, LogOut, UnchangedBySession, menuVars, wifiVars,
        irrigateVars
<1>4. CASE Handlers \/ Answers
    BY <1>4, MenuTyped, TextTyped, NumberTyped DEF Handlers, Answers
<1> QED BY <1>1, <1>2, <1>3, <1>4, DisplayTyped DEF Next

(* The index that the entries, the characters and the numbers share never    *)
(* leaves its int16_t, nor a text its buffer, whatever the order of the      *)
(* events, the paints, the closing of the menu and the log-ins.              *)
THEOREM TypeCorrect == Spec => []TypeOK
<1>1. Init => FlagsOK /\ DataOK
  <2>1. Init => FlagsOK
    BY Zenon DEF Init, FlagsOK
  <2>2. Init => DataOK
    BY DisplayMenuAssumption
       DEF DisplayMenuAssumption, Init, DataOK, Index, NoSelections, NotMenu, Byte
  <2> QED BY <2>1, <2>2
<1>2. FlagsOK /\ DataOK /\ [Next]_vars => FlagsOK' /\ DataOK'
    BY FlagsStep, DataStep
<1>3. FlagsOK /\ DataOK => TypeOK
    BY TypeParts
<1> QED BY <1>1, <1>2, <1>3, PTL DEF Spec

-----------------------------------------------------------------------------
(* Who sends.  An event that is handled while somebody is logged in has been *)
(* overtaken by the log-in, and only such an event goes on to send.          *)
OvertakenInv ==
    /\ logged /\ gated # {} => overtaken
    /\ at \notin {"free", "$DATA 5", "$DATA 5 long"} => overtaken

LEMMA HandlersOvertaken == ASSUME OvertakenInv, Handlers PROVE OvertakenInv'
<1>1. ASSUME NEW t, NEW level, Handle(t, level)
      PROVE  /\ logged' = logged /\ overtaken' = overtaken
             /\ gated # {} /\ (gated' # {} => gated # {})
             /\ logged => overtaken
    BY <1>1 DEF Handle, sessionVars, OvertakenInv
<1>2. ASSUME NEW t, NEW level, Handle(t, level), Finish PROVE OvertakenInv'
    BY <1>1, <1>2 DEF Finish, OvertakenInv
<1>3. CASE \/ MenuSelect \/ MenuOpen \/ (\E turn \in Turned : MenuTurn(turn))
           \/ \E t \in Threads : NoPage(t)
    BY <1>2, <1>3, Zenon DEF MenuSelect, MenuOpen, MenuTurn, MenuTurnTo, NoPage, OnPage
<1>4. CASE \/ TypeChar \/ DeleteChar \/ Back \/ Refuse \/ ConfirmSsid
           \/ \E turn \in Turned : TurnChar(turn)
    BY <1>2, <1>4, Zenon DEF TypeChar, DeleteChar, Back, Refuse, ConfirmSsid, TurnChar, OnText, OnPage
<1>5. CASE Confirm
  <2>1. Handle("button", TextPages) /\ logged
    BY <1>5, Zenon DEF Confirm, OnText, OnPage
  <2> QED BY <1>1, <2>1 DEF OvertakenInv
<1>6. CASE \/ (\E status \in Status : PressNone(status) \/ PressSchedule(status) \/ PressZone(status))
           \/ ClickNone \/ ClickSchedule \/ ClickZone \/ ClickIrrigating
           \/ \E turn \in Turned : TurnNumber(turn)
    BY <1>2, <1>6, Zenon DEF PressNone, PressSchedule, PressZone, Press, ClickNone, ClickSchedule,
        ClickZone, ClickIrrigating, Click, TurnNumber, OnNumber, OnPage
<1>7. CASE \E status \in Status : PressIrrigating(status)
  <2>1. Handle("button", {IRRIGATE_NOW}) /\ at' \in {"$DATA 5", "$DATA 5 long"}
    BY <1>7 DEF PressIrrigating, OnNumber, OnPage
  <2> QED BY <1>1, <2>1 DEF OvertakenInv
<1> QED BY <1>3, <1>4, <1>5, <1>6, <1>7 DEF Handlers

(* The pages for the passwords send something only after a log-in has        *)
(* overtaken a press: however long the session and the menu run, a password  *)
(* typed with nobody logged in is never sent.                                *)
THEOREM SendsOvertaken == Spec => []OnlyOvertakenSends
<1>1. Init => OvertakenInv
    BY DEF Init, OvertakenInv
<1>2. OvertakenInv /\ [Next]_vars => OvertakenInv'
  <2> SUFFICES ASSUME OvertakenInv, [Next]_vars PROVE OvertakenInv'
    OBVIOUS
  <2>1. CASE UNCHANGED vars
    BY <2>1 DEF OvertakenInv, vars, sessionVars
  <2>2. CASE \E t \in Threads : Gate(t)
    <3>1. logged' = logged /\ at' = at /\ overtaken' = (overtaken \/ logged)
      BY <2>2, Zenon DEF Gate
    <3> QED BY <3>1, Zenon DEF OvertakenInv
  <2>6. CASE Ignored
    BY <2>6 DEF OvertakenInv, Ignored, sessionVars
  <2>3. CASE Session
    BY <2>3 DEF OvertakenInv, Session, LogIn, Lock, LogOut, UnchangedBySession
  <2>4. CASE Answers
    <3>1. UNCHANGED <<gated, sessionVars>>
      BY <2>4, Zenon DEF Answers, SendPasswd, PasswdAnswered, WifiAccepted, WifiAnswered,
          DataAnswered, Answered
    <3>2. CASE SendPasswd \/ WifiAccepted
      <4>1. at \notin {"free", "$DATA 5", "$DATA 5 long"}
        BY <3>2 DEF SendPasswd, WifiAccepted, Answered
      <4> QED BY <3>1, <4>1 DEF OvertakenInv, sessionVars
    <3>3. CASE PasswdAnswered \/ WifiAnswered \/ DataAnswered
      <4>1. at' = "free"
        BY <3>3, Zenon DEF PasswdAnswered, WifiAnswered, DataAnswered, Finish
      <4> QED BY <3>1, <4>1 DEF OvertakenInv, sessionVars
    <3> QED BY <2>4, <3>2, <3>3 DEF Answers
  <2>5. CASE Display
    <3>1. UNCHANGED <<gated, at, sessionVars>>
      BY <2>5, Zenon DEF Display, Begin, BeginLocked, BeginTooEarly, PaintNothing, PaintLevel,
          PaintText, PaintNumber, PaintMenu, ExitPaint, ExitOpened, ExitIdx, ExitLevel,
          ExitPasswd, ExitWifi, Off, GoOn, DisplayGoes
    <3> QED BY <3>1 DEF OvertakenInv, sessionVars
  <2> QED BY <2>1, <2>2, <2>3, <2>4, <2>5, <2>6, HandlersOvertaken DEF Next
<1>3. OvertakenInv => OnlyOvertakenSends
    BY DEF OvertakenInv, OnlyOvertakenSends, Sending
<1> QED BY <1>1, <1>2, <1>3, PTL DEF Spec

-----------------------------------------------------------------------------
(* What was typed.  While nobody acts blind a page that waits for an answer  *)
(* is still the one that is open, and only the last steps of closing the menu*)
(* find a text whose page is gone.                                           *)
Kept == \A p \in TextPages : typed[p] # 0 => menu_level = p

WaitsOpen ==
    /\ at = "confirm" => menu_level \in TextPages
    /\ at \in {"$AUTH passwd", "$CONF 11"} => menu_level = PASSWD
    /\ at \in {"$AUTH wifi", "$CONF 6", "$CONF 7", "$CONF STORE"} => menu_level = WIFI
    /\ at \in {"$DATA 5", "$DATA 5 long"} => menu_level = IRRIGATE_NOW

ClosesAlone ==
    /\ display_at \notin {"exit_passwd", "exit_wifi"} => Kept
    /\ display_at = "exit_wifi" => typed[PASSWD] = 0
    /\ display_at \in Closing \ {"exit_paint"} => at = "free"

LeftInv == ~blind => ClosesAlone /\ WaitsOpen

LEMMA AllEmpty ==
    ASSUME DataOK, typed[WIFI] = 0, typed[PASSWD] = 0
    PROVE  Kept
BY DEF Kept, TextPages

\* A handler that leaves nobody blind finds the menu not being closed.
LEMMA HandlersLeft == ASSUME DataOK, LeftInv, Handlers, ~blind' PROVE LeftInv'
<1> USE DEF IRRIGATE_NOW, WIFI, PASSWD
<1>1. ASSUME NEW t, NEW level, Handle(t, level), display_at \notin Closing, Kept', WaitsOpen'
      PROVE  LeftInv'
    BY <1>1 DEF Handle, LeftInv, ClosesAlone, Closing
<1>2. ASSUME NEW looks, Looking(looks)
      PROVE  ~blind /\ display_at \notin Closing /\ Kept /\ looks
    BY <1>2 DEF Looking, LeftInv, ClosesAlone, Closing
<1>3. ASSUME Finish PROVE WaitsOpen'
    BY <1>3 DEF Finish, WaitsOpen
<1>4. ASSUME Kept, menu_level \notin TextPages, UNCHANGED typed PROVE Kept'
    BY <1>4 DEF Kept
<1>5. CASE MenuSelect
  <2>1. Handle("button", {-1}) /\ Finish /\ UNCHANGED typed /\ Looking(menu_idx # -1 \/ ~opened)
    BY <1>5, Zenon DEF MenuSelect
  <2>2. menu_level \notin TextPages
    BY <2>1 DEF Handle, TextPages
  <2> QED BY <1>1, <1>2, <1>3, <1>4, <2>1, <2>2
<1>6. CASE MenuOpen
  <2>1. Handle("encoder", {-1}) /\ Finish /\ UNCHANGED typed /\ Looking(opened /\ menu_idx # -1)
    BY <1>6, Zenon DEF MenuOpen, menuVars
  <2>2. menu_level \notin TextPages
    BY <2>1 DEF Handle, TextPages
  <2> QED BY <1>1, <1>2, <1>3, <1>4, <2>1, <2>2
<1>7. ASSUME NEW idx, MenuTurnTo(idx) PROVE LeftInv'
  <2>1. /\ Handle("encoder", {-1}) /\ Finish /\ UNCHANGED typed
        /\ display_at \notin Closing /\ (blind => NothingLeft)
    BY <1>7, Zenon DEF MenuTurnTo
  <2>2. menu_level \notin TextPages
    BY <2>1 DEF Handle, TextPages
  <2>3. Kept
    BY <2>1 DEF NothingLeft, Kept, LeftInv, ClosesAlone, Closing
  <2> QED BY <1>1, <1>3, <1>4, <2>1, <2>2, <2>3
<1>8. ASSUME NEW t \in Threads, NoPage(t) PROVE LeftInv'
    BY <1>2, <1>8, Zenon DEF NoPage
<1>9. ASSUME NEW t, OnText(t)
      PROVE  /\ \E level : Handle(t, level)
             /\ menu_level \in TextPages /\ display_at \notin Closing /\ Kept
    BY <1>2, <1>9, Zenon DEF OnText, OnPage, Handle
<1>10. ASSUME NEW t, OnText(t), Finish, UNCHANGED menu_level,
              NEW n, typed' = typed \/ typed' = [typed EXCEPT ![menu_level] = n]
       PROVE  LeftInv'
  <2>1. Kept'
    BY <1>9, <1>10 DEF Kept, DataOK
  <2> QED BY <1>1, <1>3, <1>9, <1>10, <2>1
<1>11. CASE TypeChar
    BY <1>10, <1>11, Zenon DEF TypeChar
<1>12. CASE DeleteChar
    BY <1>10, <1>12, Zenon DEF DeleteChar
<1>13. CASE \E turn \in Turned : TurnChar(turn)
    BY <1>10, <1>13, Zenon DEF TurnChar
<1>14. CASE ConfirmSsid
    BY <1>10, <1>14, Zenon DEF ConfirmSsid
<1>15. ASSUME NEW t, OnText(t), Finish, LeaveTo(menu_level, menu_level) PROVE LeftInv'
  <2>1. Kept'
    BY <1>9, <1>15 DEF Kept, DataOK, LeaveTo
  <2> QED BY <1>1, <1>3, <1>9, <1>15, <2>1
<1>16. CASE Back \/ Refuse
    BY <1>15, <1>16, Zenon DEF Back, Refuse
<1>17. CASE Confirm
  <2>1. OnText("button") /\ UNCHANGED <<menu_level, typed>> /\ at' = "confirm"
    BY <1>17, Zenon DEF Confirm, menuVars
  <2>2. Kept' /\ WaitsOpen'
    BY <1>9, <2>1 DEF Kept, WaitsOpen
  <2> QED BY <1>1, <1>9, <2>1, <2>2
<1>18. ASSUME NEW t, OnNumber(t)
       PROVE  /\ \E level : Handle(t, level)
              /\ menu_level = 0 /\ display_at \notin Closing /\ Kept'
  <2>1. Handle(t, {IRRIGATE_NOW}) /\ UNCHANGED typed /\ display_at \notin Closing /\ Kept
    BY <1>2, <1>18, Zenon DEF OnNumber, OnPage
  <2>2. menu_level = 0 /\ menu_level \notin TextPages
    BY <2>1 DEF Handle, TextPages
  <2> QED BY <1>4, <2>1, <2>2
<1>19. CASE \/ (\E status \in Status : PressNone(status) \/ PressSchedule(status) \/ PressZone(status))
            \/ ClickNone \/ ClickSchedule \/ ClickZone \/ ClickIrrigating
            \/ \E turn \in Turned : TurnNumber(turn)
  <2>1. \E t : OnNumber(t) /\ Finish
    BY <1>19, Zenon DEF PressNone, PressSchedule, PressZone, Press, ClickNone, ClickSchedule,
        ClickZone, ClickIrrigating, Click, TurnNumber
  <2> QED BY <1>1, <1>3, <1>18, <2>1
<1>20. CASE \E status \in Status : PressIrrigating(status)
  <2>1. /\ OnNumber("button") /\ UNCHANGED menu_level
        /\ at' \in {"$DATA 5", "$DATA 5 long"}
    BY <1>20 DEF PressIrrigating
  <2>2. WaitsOpen'
    BY <1>18, <2>1 DEF WaitsOpen
  <2> QED BY <1>1, <1>18, <2>1, <2>2
<1> QED BY <1>5, <1>6, <1>7, <1>8, <1>11, <1>12, <1>13, <1>14, <1>16, <1>17, <1>19, <1>20, Zenon
        DEF Handlers, MenuTurn

\* An answer finds the page open that waits for it, and leaves its text empty.
LEMMA AnswersLeft == ASSUME DataOK, LeftInv, Answers, ~blind' PROVE LeftInv'
<1> USE DEF IRRIGATE_NOW, WIFI, PASSWD
<1>1. ~blind /\ display_at' = display_at /\ ClosesAlone /\ WaitsOpen
  <2>1. blind' = blind /\ display_at' = display_at
    BY Zenon DEF Answers, SendPasswd, PasswdAnswered, WifiAccepted, WifiAnswered, DataAnswered,
        Answered
  <2> QED BY <2>1 DEF LeftInv
<1>2. at # "free"
    BY DEF Answers, SendPasswd, PasswdAnswered, WifiAccepted, WifiAnswered, DataAnswered, Answered
<1>3. display_at \notin Closing \ {"exit_paint"} /\ Kept
    BY <1>1, <1>2 DEF ClosesAlone, Closing
<1>4. ASSUME Kept', WaitsOpen' PROVE LeftInv'
    BY <1>1, <1>3, <1>4 DEF LeftInv, ClosesAlone, Closing
<1>5. CASE SendPasswd \/ WifiAccepted
  <2>1. UNCHANGED <<menu_level, typed>>
    BY <1>5, Zenon DEF SendPasswd, WifiAccepted, menuVars
  <2>2. \/ menu_level = PASSWD /\ at' \in {"$AUTH passwd", "$CONF 11"}
        \/ menu_level = WIFI /\ at' \in {"$AUTH wifi", "$CONF 6", "$CONF 7", "$CONF STORE"}
    <3>1. CASE SendPasswd
      BY <3>1 DEF SendPasswd
    <3>2. CASE WifiAccepted
      BY <1>1, <3>2 DEF WifiAccepted, Answered, WaitsOpen
    <3> QED BY <1>5, <3>1, <3>2
  <2>3. Kept' /\ WaitsOpen'
    BY <1>3, <2>1, <2>2 DEF Kept, WaitsOpen
  <2> QED BY <1>4, <2>3
<1>6. CASE PasswdAnswered
  <2>1. menu_level = PASSWD
    BY <1>1, <1>6 DEF PasswdAnswered, Answered, WaitsOpen
  <2>2. typed' = [typed EXCEPT ![PASSWD] = 0] /\ at' = "free"
    BY <1>6, Zenon DEF PasswdAnswered, LeaveTo, Finish
  <2>3. typed'[WIFI] = 0 /\ typed'[PASSWD] = 0
    BY <1>3, <2>1, <2>2 DEF Kept, DataOK, TextPages
  <2>4. Kept' /\ WaitsOpen'
    BY <2>2, <2>3 DEF Kept, WaitsOpen, TextPages
  <2> QED BY <1>4, <2>4
<1>7. CASE WifiAnswered
  <2>1. menu_level = WIFI
    BY <1>1, <1>7 DEF WifiAnswered, Answered, WaitsOpen
  <2>2. typed' = [typed EXCEPT ![WIFI] = 0] /\ at' = "free"
    BY <1>7, Zenon DEF WifiAnswered, LeaveTo, Finish
  <2>3. typed'[WIFI] = 0 /\ typed'[PASSWD] = 0
    BY <1>3, <2>1, <2>2 DEF Kept, DataOK, TextPages
  <2>4. Kept' /\ WaitsOpen'
    BY <2>2, <2>3 DEF Kept, WaitsOpen, TextPages
  <2> QED BY <1>4, <2>4
<1>8. CASE DataAnswered
  <2>1. menu_level = IRRIGATE_NOW
    BY <1>1, <1>8 DEF DataAnswered, Answered, WaitsOpen
  <2>2. typed' = typed /\ at' = "free"
    BY <1>8, Zenon DEF DataAnswered, Finish
  <2>3. Kept' /\ WaitsOpen'
    BY <1>3, <2>1, <2>2 DEF Kept, WaitsOpen, TextPages
  <2> QED BY <1>4, <2>3
<1> QED BY <1>5, <1>6, <1>7, <1>8 DEF Answers

\* Closing the menu empties one text after the other, with nobody in between.
LEMMA DisplayLeft == ASSUME DataOK, LeftInv, Display, ~blind' PROVE LeftInv'
<1> USE DEF WIFI, PASSWD
<1>1. ASSUME ~blind, UNCHANGED <<menu_level, typed, at>>,
             display_at \notin Closing, display_at' \in {"idle", "paint", "off", "exit_paint"}
      PROVE  LeftInv'
    BY <1>1 DEF LeftInv, ClosesAlone, WaitsOpen, Kept, Closing
<1>2. CASE Begin \/ BeginLocked \/ BeginTooEarly \/ PaintNothing
  <2>1. /\ UNCHANGED <<menu_level, typed, at, blind>> /\ display_at \in {"idle", "paint"}
        /\ display_at' \in {"idle", "paint", "off", "exit_paint"}
    BY <1>2 DEF Begin, BeginLocked, BeginTooEarly, PaintNothing, GoOn, DisplayGoes,
        UnchangedByDisplay, menuVars
  <2> QED BY <1>1, <2>1 DEF Closing
<1>3. CASE PaintLevel \/ PaintText \/ PaintNumber
  <2>1. PaintMenu
    BY <1>3, Zenon DEF PaintLevel, PaintText, PaintNumber
  <2>2. /\ UNCHANGED <<menu_level, typed, at, blind>> /\ display_at = "paint"
        /\ display_at' \in {"idle", "off", "exit_paint"}
    BY <2>1 DEF PaintMenu, GoOn, DisplayGoes
  <2> QED BY <1>1, <2>2 DEF Closing
<1>4. CASE ExitPaint
  <2>1. /\ UNCHANGED <<menu_level, typed, at>> /\ ~blind /\ at = "free"
        /\ display_at = "exit_paint" /\ display_at' = "exit_opened"
    BY <1>4, Zenon DEF ExitPaint, DisplayGoes, UnchangedByDisplay, menuVars
  <2> QED BY <2>1 DEF LeftInv, ClosesAlone, WaitsOpen, Kept, Closing
<1>5. CASE ExitOpened \/ ExitIdx
  <2>1. /\ UNCHANGED <<menu_level, typed, at, blind>>
        /\ display_at \in {"exit_opened", "exit_idx"} /\ display_at' \in {"exit_idx", "exit_level"}
    BY <1>5 DEF ExitOpened, ExitIdx, DisplayGoes, UnchangedByDisplay, menuVars
  <2> QED BY <2>1 DEF LeftInv, ClosesAlone, WaitsOpen, Kept, Closing
<1>6. CASE ExitLevel
  <2>1. /\ UNCHANGED <<at, blind>>
        /\ display_at = "exit_level" /\ display_at' = "exit_passwd"
    BY <1>6, Zenon DEF ExitLevel, DisplayGoes
  <2> QED BY <2>1 DEF LeftInv, ClosesAlone, WaitsOpen, Closing
<1>7. CASE ExitPasswd
  <2>1. /\ UNCHANGED <<at, blind>> /\ typed' = [typed EXCEPT ![PASSWD] = 0]
        /\ display_at = "exit_passwd" /\ display_at' = "exit_wifi"
    BY <1>7, Zenon DEF ExitPasswd, DisplayGoes
  <2>2. typed'[PASSWD] = 0
    BY <2>1 DEF DataOK, TextPages
  <2> QED BY <2>1, <2>2 DEF LeftInv, ClosesAlone, WaitsOpen, Closing
<1>8. CASE ExitWifi
  <2>1. /\ UNCHANGED <<at, blind>> /\ typed' = [typed EXCEPT ![WIFI] = 0]
        /\ display_at = "exit_wifi" /\ display_at' = "off"
    BY <1>8, Zenon DEF ExitWifi
  <2>2. at = "free" /\ typed[PASSWD] = 0
    BY <2>1 DEF LeftInv, ClosesAlone, Closing
  <2>3. Kept'
    BY <2>1, <2>2 DEF Kept, DataOK, TextPages
  <2> QED BY <2>1, <2>2, <2>3 DEF LeftInv, ClosesAlone, WaitsOpen, Closing
<1>9. CASE Off
  <2>1. /\ UNCHANGED <<menu_level, typed, at>> /\ (blind => Closed)
        /\ display_at = "off" /\ display_at' = "idle"
    BY <1>9, Zenon DEF Off, DisplayGoes, UnchangedByDisplay, menuVars
  <2>2. CASE blind
    BY <2>1, <2>2 DEF Closed, NothingLeft, LeftInv, ClosesAlone, WaitsOpen, Kept, Closing
  <2>3. CASE ~blind
    BY <1>1, <2>1, <2>3 DEF Closing
  <2> QED BY <2>2, <2>3
<1> QED BY <1>2, <1>3, <1>4, <1>5, <1>6, <1>7, <1>8, <1>9 DEF Display

LEMMA LeftStep == ASSUME DataOK, LeftInv, [Next]_vars PROVE LeftInv'
<1> SUFFICES ASSUME ~blind' PROVE LeftInv'
    BY DEF LeftInv
<1>1. CASE UNCHANGED vars \/ (\E t \in Threads : Gate(t)) \/ Ignored \/ Session
  <2>1. UNCHANGED <<menu_level, typed, at, display_at, blind>>
    BY <1>1, Zenon DEF vars, Gate, Ignored, Session, LogIn, Lock, LogOut, UnchangedBySession,
        menuVars
  <2> QED BY <2>1 DEF LeftInv, ClosesAlone, WaitsOpen, Kept
<1> QED BY <1>1, HandlersLeft, AnswersLeft, DisplayLeft DEF Next

LEMMA LeftInit == Init => LeftInv
BY DEF Init, LeftInv, ClosesAlone, WaitsOpen, Kept, PASSWD, Closing, TextPages

(* No password stays behind a page that has been left, whatever the order of *)
(* the button, the encoder, the answers and the closing of the menu.         *)
THEOREM NothingLeftBehind == Spec => []NoLeftovers
<1>1. LeftInv => NoLeftovers
    BY DEF LeftInv, ClosesAlone, Kept, NoLeftovers, Orderly, Closing
<1>2. TypeOK => DataOK
    BY TypeParts
<1> QED BY <1>1, <1>2, LeftInit, LeftStep, TypeCorrect, PTL DEF Spec

-----------------------------------------------------------------------------
(* The shared index.  The limits follow the step of the page, whoever acts.  *)
(* While nobody acts blind, the index fits the level, a menu that is closed  *)
(* or being closed has no entry left, and the schedule chosen is one that    *)
(* there is.                                                                 *)
LimitsFollow ==
    /\ step = "SCHEDULE" => number_limit = UpTo(Schedules)
    /\ step = "IRRIGATING" => number_limit = UpTo(ByteSize - 1)

IndexAtLevel ==
    /\ menu_level \in Entries \cup {-1}
    /\ opened /\ menu_level = -1 => menu_idx \in Entries
    /\ menu_level \in TextPages => menu_idx \in Font \cup {-1}

ClosedEmpty ==
    /\ display_at \in Closing \ {"exit_paint", "exit_opened"} => ~opened
    /\ display_at = "exit_level" => menu_idx = -1
    /\ ~opened /\ display_at \notin {"exit_idx", "exit_level"} => menu_idx = -1 /\ menu_level = -1

ChoiceExists ==
    /\ selections.schedule_idx < Schedules
    /\ at \in {"$DATA 5", "$DATA 5 long"} => selections.irrigating_minutes > 0

IndexInv == LimitsFollow /\ (~blind => IndexAtLevel /\ ClosedEmpty /\ ChoiceExists)

(* The display.  A page that waits for an answer is to be painted again.     *)
Current ==
    \/ menu_level = -1 /\ shown = Picture("label", menu_idx, 0)
    \/ menu_level \in TextPages /\ shown = Picture(TextPage, menu_idx, typed[menu_level])
    \/ menu_level = IRRIGATE_NOW /\ NoZone /\ shown.page = "No zone"
    \/ menu_level = IRRIGATE_NOW /\ ~NoZone /\ shown = Picture(step, menu_idx, 0)

ShownInv ==
    ~blind =>
        /\ at # "free" => do_paint
        /\ opened /\ ~do_paint /\ ~logged /\ display_at \notin Closing /\ shown.page # "none"
               => Current

\* Only the page that chooses numbers changes its step and its limits.
LEMMA LimitsStep == ASSUME LimitsFollow, [Next]_vars PROVE LimitsFollow'
<1>1. ASSUME UNCHANGED <<step, number_limit>> PROVE LimitsFollow'
    BY <1>1 DEF LimitsFollow
<1>2. ASSUME step' \in {"NONE", "ZONE"} PROVE LimitsFollow'
    BY <1>2 DEF LimitsFollow
<1>3. CASE UNCHANGED vars \/ (\E t \in Threads : Gate(t)) \/ Ignored \/ Session
    BY <1>1, <1>3, Zenon DEF vars, Gate, Ignored, Session, LogIn, Lock, LogOut,
        UnchangedBySession, irrigateVars
<1>4. CASE \/ MenuSelect \/ MenuOpen \/ (\E turn \in Turned : MenuTurn(turn))
           \/ \E t \in Threads : NoPage(t)
    BY <1>1, <1>4, Zenon DEF MenuSelect, MenuOpen, MenuTurn, MenuTurnTo, NoPage, irrigateVars
<1>5. CASE \/ TypeChar \/ DeleteChar \/ Back \/ Refuse \/ ConfirmSsid \/ Confirm
           \/ \E turn \in Turned : TurnChar(turn)
    BY <1>1, <1>5, Zenon DEF TypeChar, DeleteChar, Back, Refuse, ConfirmSsid, Confirm, TurnChar,
        OnText, irrigateVars
<1>6. CASE \/ \E status \in Status : PressSchedule(status)
           \/ ClickSchedule \/ ClickIrrigating \/ DataAnswered
  <2>1. step' \in {"NONE", "ZONE"}
    BY <1>6 DEF PressSchedule, ClickSchedule, ClickIrrigating, DataAnswered
  <2> QED BY <1>2, <2>1
<1>7. CASE \/ ClickNone
           \/ (\E status \in Status : PressIrrigating(status))
           \/ \E turn \in Turned : TurnNumber(turn)
    BY <1>1, <1>7, Zenon DEF PressIrrigating, ClickNone, Click, TurnNumber
<1>8. CASE \/ (\E status \in Status : PressNone(status) \/ PressZone(status)) \/ ClickZone
  <2>1. \/ step' = "SCHEDULE" /\ number_limit' = UpTo(Schedules)
        \/ step' = "IRRIGATING" /\ number_limit' = UpTo(ByteSize - 1)
    BY <1>8, Zenon DEF PressNone, PressZone, Press, ClickZone, Click
  <2> QED BY <2>1 DEF LimitsFollow
<1>9. CASE SendPasswd \/ PasswdAnswered \/ WifiAccepted \/ WifiAnswered
    BY <1>1, <1>9, Zenon DEF SendPasswd, PasswdAnswered, WifiAccepted, WifiAnswered, irrigateVars
<1>10. CASE PaintNumber
  <2>1. /\ step' = IF step = "NONE" THEN "SCHEDULE" ELSE step
        /\ number_limit' = IF step = "NONE" THEN UpTo(Schedules) ELSE number_limit
    BY <1>10, Zenon DEF PaintNumber
  <2> QED BY <2>1 DEF LimitsFollow
<1>11. CASE \/ Begin \/ BeginLocked \/ BeginTooEarly \/ PaintNothing \/ PaintLevel \/ PaintText
            \/ ExitPaint \/ ExitOpened \/ ExitIdx \/ ExitLevel \/ ExitPasswd \/ ExitWifi \/ Off
    BY <1>1, <1>11, Zenon DEF Begin, BeginLocked, BeginTooEarly, PaintNothing, PaintLevel,
        PaintText, ExitPaint, ExitOpened, ExitIdx, ExitLevel, ExitPasswd, ExitWifi, Off,
        UnchangedByDisplay, irrigateVars
<1> QED BY <1>3, <1>4, <1>5, <1>6, <1>7, <1>8, <1>9, <1>10, <1>11
        DEF Next, Handlers, Answers, Display

\* A handler that leaves nobody blind found an index that fits, and leaves one.
LEMMA HandlersIndex ==
    ASSUME DataOK, LeftInv, IndexInv, Handlers, ~blind'
    PROVE  IndexAtLevel' /\ ClosedEmpty' /\ ChoiceExists'
<1> USE DisplayMenuAssumption DEF DisplayMenuAssumption, IRRIGATE_NOW, WIFI, PASSWD, MENU_SIZE,
        Entries, TextPages
<1> DEFINE Goal == IndexAtLevel /\ ClosedEmpty /\ ChoiceExists
<1>0. selections \in [schedule_idx : Byte, zone_idx : Byte, irrigating_minutes : Byte]
    BY DEF DataOK
<1>1. ~blind => Goal
    BY DEF IndexInv
<1>2. ASSUME NEW t, NEW level, Handle(t, level)
      PROVE  menu_level \in level /\ display_at' = display_at /\ shown' = shown
    BY <1>2, Zenon DEF Handle
<1>3. ASSUME display_at' = display_at, display_at \notin Closing,
             opened', IndexAtLevel', ChoiceExists'
      PROVE  Goal'
    BY <1>3 DEF ClosedEmpty, Closing
<1>4. ASSUME NEW looks, Looking(looks) PROVE ~blind /\ display_at \notin Closing /\ looks /\ Goal
  <2>1. ~blind /\ display_at \notin Closing /\ looks
    BY <1>4, Zenon DEF Looking
  <2> QED BY <1>1, <2>1
<1>5. CASE MenuSelect
  <2>1. /\ Handle("button", {-1}) /\ Looking(menu_idx # -1 \/ ~opened) /\ UNCHANGED irrigateVars
        /\ menu_level' = menu_idx /\ menu_idx' = -1 /\ opened' = opened /\ at' = "free"
    BY <1>5, Zenon DEF MenuSelect, Finish
  <2>2. /\ menu_level = -1 /\ display_at' = display_at
        /\ display_at \notin Closing /\ Goal
    BY <1>2, <1>4, <2>1
  <2>3. ChoiceExists'
    BY <2>1, <2>2 DEF ChoiceExists, irrigateVars
  <2>4. CASE opened
    <3>1. menu_idx \in Entries
      BY <2>2, <2>4 DEF IndexAtLevel
    <3>2. IndexAtLevel'
      BY <2>1, <3>1 DEF IndexAtLevel
    <3> QED BY <1>3, <2>1, <2>2, <2>3, <2>4, <3>2
  <2>5. CASE ~opened
    <3>1. menu_idx = -1
      BY <2>2, <2>5 DEF ClosedEmpty, Closing
    <3>2. IndexAtLevel' /\ ClosedEmpty'
      BY <2>1, <2>2, <2>5, <3>1 DEF IndexAtLevel, ClosedEmpty, Closing
    <3> QED BY <2>3, <3>2
  <2> QED BY <2>4, <2>5
<1>6. CASE MenuOpen
  <2>1. /\ Handle("encoder", {-1}) /\ Looking(opened /\ menu_idx # -1) /\ UNCHANGED irrigateVars
        /\ UNCHANGED <<menu_idx, menu_level>> /\ opened' = TRUE /\ at' = "free"
    BY <1>6, Zenon DEF MenuOpen, menuVars, Finish
  <2>2. display_at' = display_at /\ display_at \notin Closing /\ Goal /\ opened
    BY <1>2, <1>4, <2>1
  <2>3. IndexAtLevel' /\ ChoiceExists'
    BY <2>1, <2>2 DEF IndexAtLevel, ChoiceExists, irrigateVars
  <2> QED BY <1>3, <2>1, <2>2, <2>3
<1>7. ASSUME NEW turn \in Turned, MenuTurn(turn) PROVE Goal'
  <2> DEFINE idx == IF turn = "cw" THEN IF menu_idx + 1 >= MENU_SIZE THEN 0 ELSE menu_idx + 1
                    ELSE IF menu_idx - 1 < 0 THEN MENU_SIZE - 1 ELSE menu_idx - 1
  <2>1. /\ Handle("encoder", {-1}) /\ UNCHANGED <<irrigateVars, menu_level>>
        /\ menu_idx' = idx /\ opened' = TRUE /\ at' = "free"
        /\ display_at \notin Closing /\ (~blind \/ (idx \in Entries /\ NothingLeft))
    BY <1>7, Zenon DEF MenuTurn, MenuTurnTo, Finish
  <2>2. menu_level = -1 /\ display_at' = display_at
    BY <1>2, <2>1
  <2>3. idx \in Entries
    <3>1. CASE ~blind
      <4>1. menu_idx \in Entries \/ menu_idx = -1
        BY <1>1, <2>1, <2>2, <3>1 DEF IndexAtLevel, ClosedEmpty, Closing
      <4> QED BY <4>1
    <3> QED BY <2>1, <3>1
  <2>4. selections.schedule_idx < Schedules
    <3>1. CASE ~blind
      BY <1>1, <3>1 DEF ChoiceExists
    <3> QED BY <2>1, <3>1 DEF NothingLeft
  <2> HIDE DEF idx
  <2>5. IndexAtLevel' /\ ChoiceExists'
    BY <2>1, <2>2, <2>3, <2>4 DEF IndexAtLevel, ChoiceExists, irrigateVars
  <2> QED BY <1>3, <2>1, <2>2, <2>5
<1>8. ASSUME NEW t \in Threads, NoPage(t) PROVE Goal'
    BY <1>4, <1>8, Zenon DEF NoPage
<1>9. ASSUME NEW t, OnText(t)
      PROVE  /\ menu_level \in TextPages /\ menu_idx \in Font /\ UNCHANGED irrigateVars
             /\ display_at' = display_at /\ display_at \notin Closing /\ opened' /\ Goal
  <2>1. /\ Handle(t, TextPages) /\ Looking(menu_idx # -1) /\ UNCHANGED irrigateVars
        /\ opened' = (opened \/ t = "encoder")
    BY <1>9, Zenon DEF OnText, OnPage
  <2>2. /\ menu_level \in TextPages /\ display_at' = display_at /\ display_at \notin Closing
        /\ Goal /\ menu_idx # -1
    BY <1>2, <1>4, <2>1
  <2>3. opened /\ menu_idx \in Font
    BY <2>2 DEF ClosedEmpty, Closing, IndexAtLevel
  <2>4. opened'
    BY <2>1, <2>3, Zenon
  <2> QED BY <2>1, <2>2, <2>3, <2>4
<1>10. ASSUME NEW t, OnText(t), at' \notin {"$DATA 5", "$DATA 5 long"},
              \/ menu_level' = menu_level /\ menu_idx' \in Font
              \/ menu_level' = -1 /\ menu_idx' \in Entries
       PROVE  Goal'
  <2>1. /\ menu_level \in TextPages /\ UNCHANGED irrigateVars
        /\ display_at' = display_at /\ display_at \notin Closing /\ opened' /\ Goal
    BY <1>9, <1>10
  <2>2. IndexAtLevel'
    <3>1. CASE menu_level' = menu_level /\ menu_idx' \in Font
      <4>1. menu_level' \in TextPages
        BY <2>1, <3>1, Zenon
      <4>2. menu_level' \in Entries \cup {-1} /\ menu_level' # -1 /\ menu_idx' \in Font
        BY <3>1, <4>1
      <4> QED BY <4>2, Zenon DEF IndexAtLevel
    <3>2. CASE menu_level' = -1 /\ menu_idx' \in Entries
      <4>1. menu_level' \in Entries \cup {-1} /\ menu_level' \notin TextPages
        BY <3>2
      <4> QED BY <3>2, <4>1, Zenon DEF IndexAtLevel
    <3> QED BY <1>10, <3>1, <3>2
  <2>3. ChoiceExists'
    BY <1>10, <2>1 DEF ChoiceExists, irrigateVars
  <2> QED BY <1>3, <2>1, <2>2, <2>3
<1>11. CASE TypeChar
  <2>1. OnText("button") /\ menu_level' = menu_level /\ at' = "free" /\ menu_idx' \in {CharA, menu_idx}
    BY <1>11 DEF TypeChar, Finish
  <2> QED BY <1>9, <1>10, <2>1 DEF Font
<1>12. ASSUME NEW turn \in Turned, TurnChar(turn) PROVE Goal'
  <2>1. /\ OnText("encoder") /\ menu_level' = menu_level /\ at' = "free"
        /\ menu_idx' = IF turn = "cw" THEN IF menu_idx + 1 > LastChar THEN FirstChar ELSE menu_idx + 1
                       ELSE IF menu_idx - 1 < FirstChar THEN LastChar ELSE menu_idx - 1
    BY <1>12, Zenon DEF TurnChar, Finish
  <2>2. menu_idx' \in Font
    BY <1>9, <2>1 DEF Font
  <2> QED BY <1>10, <2>1, <2>2
<1>13. CASE DeleteChar
  <2>1. OnText("encoder") /\ menu_level' = menu_level /\ at' = "free" /\ menu_idx' = CharA
    BY <1>13, Zenon DEF DeleteChar, Finish
  <2> QED BY <1>10, <2>1 DEF Font
<1>14. CASE Back \/ Refuse
  <2>1. PICK t : OnText(t) /\ menu_level' = -1 /\ at' = "free" /\ menu_idx' = menu_level
    BY <1>14, Zenon DEF Back, Refuse, LeaveTo, Finish
  <2> QED BY <1>9, <1>10, <2>1
<1>15. CASE ConfirmSsid \/ Confirm
  <2>1. /\ OnText("button") /\ UNCHANGED <<menu_level, menu_idx>>
        /\ at' = "free" \/ at' = "confirm"
    BY <1>15, Zenon DEF ConfirmSsid, Confirm, menuVars, Finish
  <2> QED BY <1>9, <1>10, <2>1
<1>16. ASSUME NEW t, OnNumber(t)
       PROVE  /\ menu_level = 0 /\ menu_idx \in Int
              /\ step # "NONE" /\ (step = "ZONE" \/ InLimit(menu_idx, number_limit))
              /\ display_at' = display_at /\ display_at \notin Closing /\ opened' /\ Goal
  <2>1. /\ Handle(t, {IRRIGATE_NOW}) /\ opened' = (opened \/ t = "encoder")
        /\ Looking(step # "NONE" /\ (step = "ZONE" \/ InLimit(menu_idx, number_limit)))
    BY <1>16, Zenon DEF OnNumber, OnPage
  <2>2. /\ menu_level = 0 /\ display_at' = display_at /\ display_at \notin Closing
        /\ Goal /\ step # "NONE" /\ (step = "ZONE" \/ InLimit(menu_idx, number_limit))
    <3>1. /\ ~blind /\ display_at \notin Closing
          /\ step # "NONE" /\ (step = "ZONE" \/ InLimit(menu_idx, number_limit))
      BY <2>1, Zenon DEF Looking
    <3>2. menu_level = 0 /\ display_at' = display_at
      BY <1>2, <2>1
    <3> QED BY <1>1, <3>1, <3>2
  <2>3. opened
    BY <2>2 DEF ClosedEmpty, Closing
  <2>4. opened'
    BY <2>1, <2>3, Zenon
  <2> QED BY <2>2, <2>4 DEF DataOK, Index
<1>17. ASSUME NEW t, OnNumber(t), ChoiceExists',
              \/ menu_level' = 0
              \/ menu_level' = -1 /\ menu_idx' \in Entries
       PROVE  Goal'
  <2>1. IndexAtLevel'
    BY <1>17 DEF IndexAtLevel
  <2> QED BY <1>3, <1>16, <1>17, <2>1
<1>18. ASSUME NEW t, OnNumber(t), at' = "free", selections'.schedule_idx < Schedules
       PROVE  ChoiceExists'
    BY <1>18 DEF ChoiceExists
<1>19. ASSUME NEW status \in Status, PressNone(status) \/ PressZone(status) PROVE Goal'
  <2>1. /\ OnNumber("button") /\ menu_level' = menu_level /\ at' = "free"
        /\ selections' = selections \/ selections' = [selections EXCEPT !.zone_idx = 0]
    BY <1>19, Zenon DEF PressNone, PressZone, Press, Finish
  <2>2. selections'.schedule_idx = selections.schedule_idx
    BY <2>1 DEF DataOK
  <2> QED BY <1>16, <1>17, <1>18, <2>1, <2>2 DEF ChoiceExists
<1>20. ASSUME NEW status \in Status, PressSchedule(status) PROVE Goal'
  <2>1. /\ OnNumber("button") /\ menu_level' = menu_level /\ at' = "free" /\ step = "SCHEDULE"
        /\ selections' = [selections EXCEPT !.schedule_idx = (menu_idx - 1) % ByteSize]
    BY <1>20, Zenon DEF PressSchedule, Press, Finish
  <2>2. menu_idx \in 1 .. Schedules
    <3>1. number_limit = [first |-> 1, second |-> Schedules]
      BY <2>1 DEF IndexInv, LimitsFollow, UpTo
    <3>2. menu_idx \in Int /\ InLimit(menu_idx, number_limit)
      BY <1>16, <2>1
    <3> QED BY <3>1, <3>2 DEF InLimit
  <2>3. selections'.schedule_idx = menu_idx - 1
    <3>1. (menu_idx - 1) % ByteSize = menu_idx - 1
      BY <2>2
    <3> QED BY <1>0, <2>1, <3>1
  <2>4. selections'.schedule_idx < Schedules
    BY <2>2, <2>3
  <2> QED BY <1>16, <1>17, <1>18, <2>1, <2>4
<1>21. ASSUME NEW status \in Status, PressIrrigating(status) PROVE Goal'
  <2>1. /\ OnNumber("button") /\ menu_level' = menu_level /\ step = "IRRIGATING"
        /\ selections' = [selections EXCEPT !.irrigating_minutes = menu_idx % ByteSize]
    BY <1>21, Zenon DEF PressIrrigating
  <2>2. menu_idx \in 1 .. ByteSize - 1
    <3>1. number_limit = [first |-> 1, second |-> ByteSize - 1]
      BY <2>1 DEF IndexInv, LimitsFollow, UpTo
    <3>2. menu_idx \in Int /\ InLimit(menu_idx, number_limit)
      BY <1>16, <2>1
    <3> QED BY <3>1, <3>2 DEF InLimit
  <2>3. /\ selections'.irrigating_minutes = menu_idx
        /\ selections'.schedule_idx = selections.schedule_idx
    <3>1. menu_idx % ByteSize = menu_idx
      BY <2>2
    <3> QED BY <1>0, <2>1, <3>1
  <2>4. menu_level = 0 /\ selections.schedule_idx < Schedules
    BY <1>16, <2>1, Zenon DEF ChoiceExists
  <2>5. menu_idx > 0
    BY <2>2
  <2>6. ChoiceExists'
    BY <2>3, <2>4, <2>5, Zenon DEF ChoiceExists
  <2> QED BY <1>17, <2>1, <2>4, <2>6
<1>22. CASE ClickNone \/ ClickSchedule \/ ClickZone \/ ClickIrrigating
  <2>1. /\ OnNumber("encoder") /\ at' = "free"
        /\ \/ menu_level' = 0
           \/ menu_level' = -1 /\ menu_idx' = number_limit.first
        /\ \/ selections' = selections
           \/ selections' = [selections EXCEPT !.zone_idx = 0]
           \/ selections' = [selections EXCEPT !.schedule_idx = 0]
           \/ selections' = [selections EXCEPT !.irrigating_minutes = 0]
    BY <1>22, Zenon DEF ClickNone, ClickSchedule, ClickZone, ClickIrrigating, Click, Finish
  <2>2. selections'.schedule_idx \in {selections.schedule_idx, 0}
    BY <1>0, <2>1
  <2>3. selections'.schedule_idx < Schedules
    <3>1. selections.schedule_idx < Schedules
      BY <1>16, <2>1, Zenon DEF ChoiceExists
    <3>2. 0 < Schedules
      OBVIOUS
    <3> QED BY <2>2, <3>1, <3>2, Zenon
  <2>4. menu_level' = 0 \/ (menu_level' = -1 /\ menu_idx' \in Entries)
    BY <2>1 DEF DataOK
  <2> QED BY <1>17, <1>18, <2>1, <2>3, <2>4
<1>23. ASSUME NEW turn \in Turned, TurnNumber(turn) PROVE Goal'
  <2>1. OnNumber("encoder") /\ at' = "free" /\ UNCHANGED <<menu_level, selections>>
    BY <1>23, Zenon DEF TurnNumber, Finish
  <2> QED BY <1>16, <1>17, <1>18, <2>1 DEF ChoiceExists
<1> QED BY <1>5, <1>6, <1>7, <1>8, <1>11, <1>12, <1>13, <1>14, <1>15, <1>19, <1>20, <1>21,
           <1>22, <1>23 DEF Handlers

\* An answer puts the menu back to an entry, or lets the page go on.
LEMMA AnswersIndex ==
    ASSUME DataOK, LeftInv, IndexInv, Answers, ~blind'
    PROVE  IndexAtLevel' /\ ClosedEmpty' /\ ChoiceExists'
<1> USE DisplayMenuAssumption DEF DisplayMenuAssumption, IRRIGATE_NOW, WIFI, PASSWD, MENU_SIZE,
        Entries, TextPages
<1>1. /\ UNCHANGED <<blind, display_at, opened>>
      /\ IndexAtLevel /\ ClosedEmpty /\ ChoiceExists /\ ClosesAlone /\ WaitsOpen
  <2>1. UNCHANGED <<blind, display_at, opened>>
    BY Zenon DEF Answers, SendPasswd, PasswdAnswered, WifiAccepted, WifiAnswered, DataAnswered,
        Answered
  <2> QED BY <2>1 DEF LeftInv, IndexInv
<1>2. at # "free" /\ menu_level \in Entries
  <2>1. \/ at = "confirm" \/ at \in {"$AUTH passwd", "$CONF 11"}
        \/ at \in {"$AUTH wifi", "$CONF 6", "$CONF 7", "$CONF STORE"}
        \/ at \in {"$DATA 5", "$DATA 5 long"}
    BY DEF Answers, SendPasswd, PasswdAnswered, WifiAccepted, WifiAnswered, DataAnswered, Answered
  <2>2. at # "free"
    BY <2>1
  <2>3. menu_level \in TextPages \/ menu_level = PASSWD \/ menu_level = WIFI \/ menu_level = 0
    BY <1>1, <2>1, Zenon DEF WaitsOpen
  <2> QED BY <2>2, <2>3
<1>3. display_at \notin Closing \ {"exit_paint"} /\ opened
  <2>1. display_at \notin Closing \ {"exit_paint"}
    BY <1>1, <1>2 DEF ClosesAlone
  <2> QED BY <1>1, <1>2, <2>1 DEF ClosedEmpty, Closing
<1>4. ClosedEmpty'
    BY <1>1, <1>3 DEF ClosedEmpty, Closing
<1>5. CASE SendPasswd \/ WifiAccepted
  <2>1. UNCHANGED <<menu_level, menu_idx, selections>>
    BY <1>5, Zenon DEF SendPasswd, WifiAccepted, menuVars, irrigateVars
  <2>2. at' \notin {"$DATA 5", "$DATA 5 long"}
    BY <1>5 DEF SendPasswd, WifiAccepted
  <2> QED BY <1>1, <1>4, <2>1, <2>2 DEF IndexAtLevel, ChoiceExists
<1>6. CASE PasswdAnswered
  <2>1. /\ at' = "free" /\ UNCHANGED selections
        /\ \/ menu_idx' = PASSWD /\ menu_level' = -1
           \/ menu_idx' = CharA /\ menu_level' = PASSWD
    BY <1>6, Zenon DEF PasswdAnswered, LeaveTo, Finish, irrigateVars
  <2>2. IndexAtLevel'
    BY <2>1 DEF IndexAtLevel, Font
  <2>3. ChoiceExists'
    BY <1>1, <2>1 DEF ChoiceExists
  <2> QED BY <1>4, <2>2, <2>3
<1>7. CASE WifiAnswered
  <2>1. /\ at' = "free" /\ UNCHANGED selections
        /\ \/ menu_idx' = WIFI /\ menu_level' = -1
           \/ UNCHANGED <<menu_idx, menu_level>>
    BY <1>7, Zenon DEF WifiAnswered, LeaveTo, Finish, irrigateVars
  <2>2. IndexAtLevel'
    BY <1>1, <2>1 DEF IndexAtLevel
  <2>3. ChoiceExists'
    BY <1>1, <2>1 DEF ChoiceExists
  <2> QED BY <1>4, <2>2, <2>3
<1>8. CASE DataAnswered
  <2>1. /\ at' = "free" /\ selections' = NoSelections /\ menu_level' = -1
        /\ \E status : menu_idx' = Raised(0, number_limit, status)
    BY <1>8, Zenon DEF DataAnswered, Finish
  <2>2. menu_idx' \in {0, 1}
    BY <2>1 DEF Raised, DataOK
  <2> QED BY <1>4, <2>1, <2>2 DEF IndexAtLevel, ChoiceExists, NoSelections
<1> QED BY <1>5, <1>6, <1>7, <1>8 DEF Answers

\* Neither a paint nor the closing of the menu leaves an index that does not fit.
LEMMA DisplayIndex ==
    ASSUME DataOK, LeftInv, IndexInv, Display, ~blind'
    PROVE  IndexAtLevel' /\ ClosedEmpty' /\ ChoiceExists'
<1> USE DisplayMenuAssumption DEF DisplayMenuAssumption, IRRIGATE_NOW, WIFI, PASSWD, MENU_SIZE,
        Entries, TextPages
<1> DEFINE Goal == IndexAtLevel /\ ClosedEmpty /\ ChoiceExists
<1>1. ~blind => Goal
    BY DEF IndexInv
<1>2. UNCHANGED <<at, selections>>
    BY Zenon DEF Display, Begin, BeginLocked, BeginTooEarly, PaintNothing, PaintLevel, PaintText,
        PaintNumber, PaintMenu, ExitPaint, ExitOpened, ExitIdx, ExitLevel, ExitPasswd, ExitWifi,
        Off, GoOn, DisplayGoes, irrigateVars
<1>3. ASSUME ~blind, UNCHANGED <<opened, menu_level>>,
             display_at \notin Closing, display_at' \in {"idle", "paint", "off", "exit_paint"},
             \/ menu_idx' = menu_idx
             \/ menu_idx' = CharA /\ menu_level \in TextPages
             \/ menu_level = 0
      PROVE  Goal'
  <2>1. ~opened => menu_idx = -1 /\ menu_level = -1
    BY <1>1, <1>3 DEF ClosedEmpty, Closing
  <2>2. ClosedEmpty'
    BY <1>3, <2>1 DEF ClosedEmpty, Closing
  <2>3. IndexAtLevel'
    BY <1>1, <1>3 DEF IndexAtLevel, Font
  <2>4. ChoiceExists'
    BY <1>1, <1>2, <1>3 DEF ChoiceExists
  <2> QED BY <2>2, <2>3, <2>4
<1>4. CASE Begin \/ BeginLocked \/ BeginTooEarly \/ PaintNothing
  <2>1. /\ UNCHANGED <<opened, menu_idx, menu_level, blind>> /\ display_at \in {"idle", "paint"}
        /\ display_at' \in {"idle", "paint", "off", "exit_paint"}
    BY <1>4 DEF Begin, BeginLocked, BeginTooEarly, PaintNothing, GoOn, DisplayGoes,
        UnchangedByDisplay, menuVars
  <2> QED BY <1>3, <2>1 DEF Closing
<1>5. CASE PaintLevel \/ PaintText \/ PaintNumber
  <2>1. PaintMenu
    BY <1>5, Zenon DEF PaintLevel, PaintText, PaintNumber
  <2>2. /\ UNCHANGED <<opened, menu_level, blind>> /\ display_at = "paint"
        /\ display_at' \in {"idle", "off", "exit_paint"}
    BY <2>1 DEF PaintMenu, GoOn, DisplayGoes
  <2>3. \/ menu_idx' = menu_idx
        \/ menu_idx' = CharA /\ menu_level \in TextPages
        \/ menu_level = 0
    BY <1>5 DEF PaintLevel, PaintText, PaintNumber
  <2> QED BY <1>3, <2>2, <2>3 DEF Closing
<1>6. CASE ExitPaint
  <2>1. /\ UNCHANGED <<opened, menu_idx, menu_level>> /\ ~blind
        /\ display_at = "exit_paint" /\ display_at' = "exit_opened"
    BY <1>6, Zenon DEF ExitPaint, DisplayGoes, UnchangedByDisplay, menuVars
  <2> QED BY <1>1, <1>2, <2>1 DEF IndexAtLevel, ClosedEmpty, ChoiceExists, Closing
<1>7. CASE ExitOpened
  <2>1. /\ UNCHANGED <<menu_idx, menu_level, blind>> /\ opened' = FALSE
        /\ display_at = "exit_opened" /\ display_at' = "exit_idx"
    BY <1>7, Zenon DEF ExitOpened, DisplayGoes, UnchangedByDisplay, menuVars
  <2> QED BY <1>1, <1>2, <2>1 DEF IndexAtLevel, ClosedEmpty, ChoiceExists, Closing
<1>8. CASE ExitIdx
  <2>1. /\ UNCHANGED <<opened, menu_level, blind>> /\ menu_idx' = -1
        /\ display_at = "exit_idx" /\ display_at' = "exit_level"
    BY <1>8, Zenon DEF ExitIdx, DisplayGoes
  <2> QED BY <1>1, <1>2, <2>1 DEF IndexAtLevel, ClosedEmpty, ChoiceExists, Closing
<1>9. CASE ExitLevel
  <2>1. /\ UNCHANGED <<opened, menu_idx, blind>> /\ menu_level' = -1
        /\ display_at = "exit_level" /\ display_at' = "exit_passwd"
    BY <1>9, Zenon DEF ExitLevel, DisplayGoes
  <2> QED BY <1>1, <1>2, <2>1 DEF IndexAtLevel, ClosedEmpty, ChoiceExists, Closing
<1>10. CASE ExitPasswd \/ ExitWifi
  <2>1. /\ UNCHANGED <<opened, menu_idx, menu_level, blind>>
        /\ \/ display_at = "exit_passwd" /\ display_at' = "exit_wifi"
           \/ display_at = "exit_wifi" /\ display_at' = "off"
    BY <1>10, Zenon DEF ExitPasswd, ExitWifi, DisplayGoes
  <2> QED BY <1>1, <1>2, <2>1 DEF IndexAtLevel, ClosedEmpty, ChoiceExists, Closing
<1>11. CASE Off
  <2>1. /\ UNCHANGED <<opened, menu_idx, menu_level>> /\ (blind => Closed)
        /\ display_at = "off" /\ display_at' = "idle"
    BY <1>11, Zenon DEF Off, DisplayGoes, UnchangedByDisplay, menuVars
  <2>2. CASE blind
    <3>1. /\ ~opened /\ menu_idx = -1 /\ menu_level = -1 /\ at = "free"
          /\ selections.schedule_idx < Schedules
      BY <2>1, <2>2 DEF Closed, NothingLeft
    <3> QED BY <1>2, <2>1, <3>1 DEF IndexAtLevel, ClosedEmpty, ChoiceExists, Closing
  <2>3. CASE ~blind
    BY <1>3, <2>1, <2>3 DEF Closing
  <2> QED BY <2>2, <2>3
<1> QED BY <1>4, <1>5, <1>6, <1>7, <1>8, <1>9, <1>10, <1>11 DEF Display

LEMMA IndexStep == ASSUME DataOK, LeftInv, IndexInv, [Next]_vars PROVE IndexInv'
<1>1. LimitsFollow'
    BY LimitsStep DEF IndexInv
<1>2. ASSUME ~blind' PROVE IndexAtLevel' /\ ClosedEmpty' /\ ChoiceExists'
  <2>1. CASE UNCHANGED vars \/ (\E t \in Threads : Gate(t)) \/ Ignored \/ Session
    <3>1. UNCHANGED <<opened, menu_idx, menu_level, at, display_at, selections, blind>>
      BY <2>1, Zenon DEF vars, Gate, Ignored, Session, LogIn, Lock, LogOut, UnchangedBySession,
          menuVars, irrigateVars
    <3> QED BY <1>2, <3>1 DEF IndexInv, IndexAtLevel, ClosedEmpty, ChoiceExists
  <2> QED BY <1>2, <2>1, HandlersIndex, AnswersIndex, DisplayIndex DEF Next
<1> QED BY <1>1, <1>2 DEF IndexInv

\* What is not painted is not asked to be painted again only by MenuOpen.
LEMMA PaintAsked == ASSUME do_paint' PROVE ShownInv'
BY DEF ShownInv

LEMMA HandlersShown == ASSUME ShownInv, Handlers PROVE ShownInv'
<1>1. CASE MenuOpen
  <2> SUFFICES ASSUME ~blind' PROVE ShownInv'
    BY DEF ShownInv
  <2>1. ~blind /\ opened
    BY <1>1, Zenon DEF MenuOpen, Looking
  <2>2. /\ UNCHANGED <<do_paint, menu_idx, menu_level, typed, wifi_step, step, selections,
                       display_at, shown, logged>>
        /\ at' = "free"
    BY <1>1, Zenon DEF MenuOpen, Handle, Finish, menuVars, wifiVars, irrigateVars, sessionVars
  <2>3. Current => Current'
    BY <2>2, Zenon DEF Current, TextPage, NoZone
  <2> QED BY <2>1, <2>2, <2>3, Zenon DEF ShownInv
<1>2. CASE MenuSelect \/ (\E turn \in Turned : MenuTurn(turn))
  <2>1. do_paint'
    BY <1>2, Zenon DEF MenuSelect, MenuTurn, MenuTurnTo
  <2> QED BY <2>1, PaintAsked
<1>3. ASSUME NEW t, NEW level, OnPage(t, level) PROVE ShownInv'
  <2>1. do_paint'
    BY <1>3, Zenon DEF OnPage
  <2> QED BY <2>1, PaintAsked
<1>4. CASE \/ (\E t \in Threads : NoPage(t))
           \/ TypeChar \/ DeleteChar \/ Back \/ Refuse \/ ConfirmSsid \/ Confirm
           \/ (\E turn \in Turned : TurnChar(turn))
    BY <1>3, <1>4, Zenon DEF NoPage, TypeChar, DeleteChar, Back, Refuse, ConfirmSsid, Confirm,
        TurnChar, OnText
<1>5. CASE \/ (\E turn \in Turned : TurnNumber(turn))
           \/ (\E status \in Status : PressNone(status) \/ PressSchedule(status)
                                        \/ PressZone(status) \/ PressIrrigating(status))
           \/ ClickNone \/ ClickSchedule \/ ClickZone \/ ClickIrrigating
  <2>1. \E t : OnNumber(t)
    BY <1>5, Zenon DEF TurnNumber, PressNone, PressSchedule, PressZone, PressIrrigating, Press,
        ClickNone, ClickSchedule, ClickZone, ClickIrrigating, Click
  <2> QED BY <1>3, <2>1, Zenon DEF OnNumber
<1> QED BY <1>1, <1>2, <1>4, <1>5, Zenon DEF Handlers

\* A page that waits for an answer has been asked to be painted, and still is.
LEMMA AnswersShown == ASSUME ShownInv, Answers PROVE ShownInv'
<1>1. at # "free"
    BY DEF Answers, SendPasswd, PasswdAnswered, WifiAccepted, WifiAnswered, DataAnswered, Answered
<1>2. UNCHANGED <<do_paint, blind>>
    BY Zenon DEF Answers, SendPasswd, PasswdAnswered, WifiAccepted, WifiAnswered, DataAnswered,
        Answered
<1> QED BY <1>1, <1>2, Zenon DEF ShownInv

\* A paint shows what is current; nothing else that the display does matters.
LEMMA DisplayShown ==
    ASSUME DataOK, LeftInv, IndexInv, ShownInv, Display, ~blind'
    PROVE  ShownInv'
<1>1. ASSUME ~blind, UNCHANGED <<do_paint, at>>,
             ~opened' \/ display_at' \in Closing \/ shown'.page = "none"
      PROVE  ShownInv'
    BY <1>1, Zenon DEF ShownInv
<1>2. ASSUME ~blind, display_at \notin Closing,
             UNCHANGED <<do_paint, at, opened, logged, menu_idx, menu_level, typed, wifi_step,
                         step, selections, shown>>
      PROVE  ShownInv'
  <2>1. Current => Current'
    BY <1>2, Zenon DEF Current, TextPage, NoZone
  <2> QED BY <1>2, <2>1, Zenon DEF ShownInv
<1>3. ASSUME at' = "free", Current' PROVE ShownInv'
    BY <1>3, Zenon DEF ShownInv
<1>4. CASE Begin \/ BeginTooEarly \/ PaintNothing
  <2>1. /\ UNCHANGED <<do_paint, at, opened, logged, menu_idx, menu_level, typed, wifi_step,
                       step, selections, blind>>
        /\ display_at \in {"idle", "paint"}
        /\ shown' = shown \/ (~opened /\ shown' = NotMenu)
    BY <1>4, Zenon DEF Begin, BeginTooEarly, PaintNothing, GoOn, DisplayGoes, UnchangedByDisplay,
        menuVars, wifiVars, sessionVars
  <2>2. display_at \notin Closing
    BY <2>1 DEF Closing
  <2>3. shown' = NotMenu => shown'.page = "none"
    BY DEF NotMenu
  <2> QED BY <1>1, <1>2, <2>1, <2>2, <2>3
<1>5. CASE BeginLocked
  <2>1. UNCHANGED <<do_paint, at, blind>> /\ shown' = NotMenu
    BY <1>5, Zenon DEF BeginLocked, DisplayGoes
  <2> QED BY <1>1, <2>1 DEF NotMenu
<1>6. CASE PaintLevel
  <2>1. /\ at' = "free" /\ UNCHANGED <<menu_idx, menu_level, blind>> /\ menu_level \notin Entries
        /\ shown' = IF menu_level = -1 THEN Picture("label", menu_idx, 0) ELSE shown
    BY <1>6, Zenon DEF PaintLevel, PaintMenu, GoOn, DisplayGoes
  <2>2. menu_level = -1
    BY <2>1 DEF IndexInv, IndexAtLevel
  <2>3. Current'
    BY <2>1, <2>2, Zenon DEF Current, Picture
  <2> QED BY <1>3, <2>1, <2>3
<1>7. CASE PaintText
  <2>1. /\ at' = "free" /\ menu_level \in TextPages
        /\ UNCHANGED <<menu_level, typed, logged, wifi_step>>
        /\ shown' = Picture(TextPage, menu_idx', typed[menu_level])
    BY <1>7, Zenon DEF PaintText, PaintMenu, GoOn, DisplayGoes, wifiVars, sessionVars
  <2>2. Current'
    BY <2>1, Zenon DEF Current, Picture, TextPage
  <2> QED BY <1>3, <2>1, <2>2
<1>8. CASE PaintNumber
  <2>1. /\ at' = "free" /\ menu_level = IRRIGATE_NOW /\ UNCHANGED <<menu_level, selections>>
        /\ step' = IF step = "NONE" THEN "SCHEDULE" ELSE step
        /\ shown' = IF NoZone THEN Picture("No zone", 0, 0) ELSE Picture(step', menu_idx', 0)
    BY <1>8, Zenon DEF PaintNumber, PaintMenu, GoOn, DisplayGoes
  <2>2. step' = "ZONE" <=> step = "ZONE"
    BY <2>1
  <2>3. NoZone' <=> NoZone
    BY <2>1, <2>2, Zenon DEF NoZone
  <2>4. NoZone => shown'.page = "No zone"
    BY <2>1 DEF Picture
  <2>5. Current'
    BY <2>1, <2>3, <2>4, Zenon DEF Current, Picture, IRRIGATE_NOW
  <2> QED BY <1>3, <2>1, <2>5
<1>9. CASE ExitPaint
  <2>1. at' = "free" /\ display_at' = "exit_opened"
    BY <1>9, Zenon DEF ExitPaint, DisplayGoes
  <2> QED BY <2>1 DEF ShownInv, Closing
<1>10. CASE ExitOpened \/ ExitIdx \/ ExitLevel \/ ExitPasswd
  <2>1. /\ UNCHANGED <<do_paint, at, blind>>
        /\ display_at' \in {"exit_idx", "exit_level", "exit_passwd", "exit_wifi"}
    BY <1>10 DEF ExitOpened, ExitIdx, ExitLevel, ExitPasswd, DisplayGoes
  <2> QED BY <1>1, <2>1 DEF Closing
<1>11. CASE ExitWifi
  <2>1. UNCHANGED <<do_paint, at, blind, opened>> /\ display_at = "exit_wifi"
    BY <1>11, Zenon DEF ExitWifi
  <2>2. ~opened
    BY <2>1 DEF IndexInv, ClosedEmpty, Closing
  <2> QED BY <1>1, <2>1, <2>2
<1>12. CASE Off
  <2>1. /\ UNCHANGED <<do_paint, at, opened, logged, menu_idx, menu_level, typed, wifi_step,
                       step, selections, shown>>
        /\ display_at = "off" /\ (blind => Closed)
    BY <1>12, Zenon DEF Off, DisplayGoes, UnchangedByDisplay, menuVars, wifiVars, sessionVars
  <2>2. CASE blind
    BY <2>1, <2>2, Zenon DEF Closed, ShownInv
  <2>3. CASE ~blind
    BY <1>2, <2>1, <2>3 DEF Closing
  <2> QED BY <2>2, <2>3
<1> QED BY <1>4, <1>5, <1>6, <1>7, <1>8, <1>9, <1>10, <1>11, <1>12, Zenon DEF Display

LEMMA ShownStep == ASSUME DataOK, LeftInv, IndexInv, ShownInv, [Next]_vars PROVE ShownInv'
<1> SUFFICES ASSUME ~blind' PROVE ShownInv'
    BY DEF ShownInv
<1>1. CASE UNCHANGED vars \/ (\E t \in Threads : Gate(t)) \/ Ignored
  <2>1. UNCHANGED <<do_paint, at, opened, logged, menu_idx, menu_level, typed, wifi_step,
                    step, selections, shown, display_at, blind>>
    BY <1>1, Zenon DEF vars, Gate, Ignored, menuVars, wifiVars, irrigateVars, sessionVars
  <2>2. Current => Current'
    BY <2>1, Zenon DEF Current, TextPage, NoZone
  <2> QED BY <2>1, <2>2, Zenon DEF ShownInv
<1>2. CASE Session
  <2>1. UNCHANGED <<at, blind>>
    BY <1>2, Zenon DEF Session, LogIn, Lock, LogOut, UnchangedBySession
  <2>2. CASE LogIn \/ Lock
    <3>1. UNCHANGED do_paint /\ logged'
      BY <2>2 DEF LogIn, Lock
    <3> QED BY <2>1, <3>1, Zenon DEF ShownInv
  <2>3. CASE LogOut
    BY <2>3, PaintAsked, Zenon DEF LogOut
  <2> QED BY <1>2, <2>2, <2>3 DEF Session
<1> QED BY <1>1, <1>2, HandlersShown, AnswersShown, DisplayShown DEF Next

(* What every property of the menu rests on: nothing is left of a page that  *)
(* is closed, the shared index fits, and what is painted is current, for     *)
(* every font, keyboard, number of schedules and of zones.                   *)
THEOREM MenuCorrect == Spec => [](LeftInv /\ IndexInv /\ ShownInv)
<1>1. Init => IndexInv /\ ShownInv
  <2> SUFFICES ASSUME Init PROVE IndexInv /\ ShownInv
    OBVIOUS
  <2>1. /\ ~opened /\ menu_idx = -1 /\ menu_level = -1 /\ at = "free" /\ step = "NONE"
        /\ selections = NoSelections
    BY Zenon DEF Init
  <2>2. LimitsFollow
    BY <2>1 DEF LimitsFollow
  <2>3. IndexAtLevel
    BY <2>1 DEF IndexAtLevel, TextPages, WIFI, PASSWD
  <2>4. ClosedEmpty
    BY <2>1 DEF ClosedEmpty
  <2>5. ChoiceExists
    BY <2>1, DisplayMenuAssumption DEF ChoiceExists, DisplayMenuAssumption, NoSelections
  <2> QED BY <2>1, <2>2, <2>3, <2>4, <2>5, Zenon DEF IndexInv, ShownInv
<1>2. TypeOK => DataOK
    BY TypeParts
<1> QED BY <1>1, <1>2, LeftInit, LeftStep, IndexStep, ShownStep, TypeCorrect, PTL DEF Spec

(* The one index that entries, characters and numbers share fits what it is  *)
(* used for next (app-display-menu.cpp:60-241).                              *)
THEOREM IndexAlwaysFits == Spec => []IndexFits
<1>1. LeftInv /\ IndexInv /\ ShownInv => IndexFits
    BY Zenon DEF IndexInv, IndexAtLevel, ChoiceExists, IndexFits, Orderly
<1> QED BY <1>1, MenuCorrect, PTL

(* An irrigation that the display asks for lasts at least a minute, and its  *)
(* schedule exists (app-display-irrigate-now.cpp:54-102, 148-190).           *)
THEOREM IrrigationChosen == Spec => []SentIsChosen
<1>1. LeftInv /\ IndexInv /\ ShownInv => SentIsChosen
    BY DEF IndexInv, ChoiceExists, SentIsChosen
<1> QED BY <1>1, MenuCorrect, PTL

(* With nothing left to paint, the display shows what the next event will    *)
(* act on (app-display-menu.cpp:60-241, app-display-handler.cpp:344-354).    *)
THEOREM DisplayCurrent == Spec => []ShownIsCurrent
<1>1. LeftInv /\ IndexInv /\ ShownInv => ShownIsCurrent
    BY Zenon DEF ShownInv, Current, ShownIsCurrent, Orderly
<1> QED BY <1>1, MenuCorrect, PTL
=============================================================================
