----------------------------- MODULE DisplayMenu -----------------------------
(***************************************************************************)
(* The display's menu and its pages: app_display_menu, app_display_passwd, *)
(* app_display_wifi, app_display_irrigate_now and app_display_keyboard     *)
(* (hhg-app/src).                                                          *)
(*                                                                         *)
(*  - the threads of the button and of the encoder (NORMAL) test that the  *)
(*    display is on and not locked, wait for the menu's mutex and handle   *)
(*    one event; a page that is confirmed sends commands to the parser and *)
(*    waits for each answer, holding the mutex;                            *)
(*  - the display's thread (LOW) paints with the mutex and closes a menu   *)
(*    left alone without it, one assignment after the other; the others    *)
(*    may come between these;                                              *)
(*  - the parser's and the timer's threads log users in and out.           *)
(*                                                                         *)
(* There is one menu_idx for everything: the first level's entry, the      *)
(* character under the cursor, the number being chosen.  -1 says that the  *)
(* menu or the page has not been painted yet.  A text is the number of its *)
(* characters, and is kept by the page it is typed in.                     *)
(***************************************************************************)
EXTENDS Integers

CONSTANTS
    FirstChar, LastChar,  \* the characters of the font
    CharA,                \* 'a', where the keyboard starts
    KeyboardSize,         \* KEYBOARD_BUFFER_SIZE, 32
    ByteSize,             \* 256, for the 8-bit fields of the selections
    Int16Max,
    Schedules, Zones,     \* HHG_SCHEDULES_SIZE, HHG_ZONES_SIZE
    ZonesLen,             \* the zones configured in each schedule
    BlindPages            \* bound: do log-ins, and events for a page, follow after somebody acts blind?

ASSUME DisplayMenuAssumption ==
    /\ FirstChar \in Nat /\ LastChar \in Nat /\ CharA \in FirstChar .. LastChar
    /\ KeyboardSize \in Nat /\ KeyboardSize >= 2
    /\ ByteSize \in Nat /\ Int16Max \in Nat /\ ByteSize <= Int16Max /\ 3 <= Int16Max /\ LastChar < Int16Max
    /\ Schedules \in 1 .. ByteSize - 1 /\ Zones \in 1 .. ByteSize - 1
    /\ ZonesLen \in [0 .. Schedules - 1 -> 0 .. ByteSize - 1]
    /\ BlindPages \in BOOLEAN

VARIABLES
    do_paint, opened, menu_idx,
    menu_level,        \* menu_level_store[MENU_LEVEL_ZERO]
    typed,             \* keyboard_position of the two text pages
    wifi_step,
    step,              \* of app_display_irrigate_now
    number_limit,      \* of its keyboard
    selections

VARIABLES
    gated,             \* threads that found the display on and not locked
    at,                \* the handler that has the mutex: "free", or where it waits
    display_at,        \* where the display's thread is
    lcd_on,
    timed_out,         \* display_turn_off_timer is zero
    shown,             \* what is on the display
    logged, locked

VARIABLES
    blind,             \* history: see Looking
    overtaken          \* history: see LogIn

menuVars == <<menu_idx, menu_level, typed>>
wifiVars == wifi_step
irrigateVars == <<step, number_limit, selections>>
sessionVars == <<logged, locked, overtaken>>
vars == <<do_paint, opened, menuVars, wifiVars, irrigateVars, gated, at, display_at,
          lcd_on, timed_out, shown, sessionVars, blind>>

IRRIGATE_NOW == 0
WIFI == 1
PASSWD == 2
MENU_SIZE == 3
TextPages == {WIFI, PASSWD}
Entries == 0 .. MENU_SIZE - 1
Font == FirstChar .. LastChar
Threads == {"button", "encoder"}

Sending == {"$DATA 5", "$DATA 5 long", "$AUTH passwd", "$AUTH wifi", "$CONF 11",
            "$CONF 6", "$CONF 7", "$CONF STORE"}
Closing == {"exit_paint", "exit_opened", "exit_idx", "exit_level", "exit_passwd", "exit_wifi"}
Pages == {"SCHEDULE", "ZONE", "No zone", "IRRIGATING", "SSID", "PASSWD", "New passwd",
          "Access pwd"}
NotMenu == [page |-> "none", idx |-> 0, typed |-> 0]
NoSelections == [schedule_idx |-> 0, zone_idx |-> 0, irrigating_minutes |-> 0]

Index == -1 .. Int16Max
Byte == 0 .. ByteSize - 1

(* Every variable has its type; what is typed leaves room in the keyboard's  *)
(* buffer for the terminating zero (app-display-keyboard.cpp:89-95), and the *)
(* index that everything shares stays in its int16_t.                        *)
TypeOK ==
    /\ do_paint \in BOOLEAN /\ opened \in BOOLEAN
    /\ menu_idx \in Index /\ menu_level \in Index
    /\ typed \in [TextPages -> 0 .. KeyboardSize - 1]
    /\ wifi_step \in {"SSID", "PASSWD"}
    /\ step \in {"NONE", "SCHEDULE", "ZONE", "IRRIGATING"}
    /\ number_limit \in [first : {0, 1}, second : 0 .. Int16Max]
    /\ selections \in [schedule_idx : Byte, zone_idx : Byte, irrigating_minutes : Byte]
    /\ gated \subseteq Threads
    /\ at \in {"free", "confirm"} \cup Sending
    /\ display_at \in {"idle", "paint", "off"} \cup Closing
    /\ lcd_on \in BOOLEAN /\ timed_out \in BOOLEAN
    /\ shown \in [page : {"none", "label"} \cup Pages, idx : Index, typed : 0 .. KeyboardSize - 1]
    /\ logged \in BOOLEAN /\ locked \in BOOLEAN
    /\ blind \in BOOLEAN /\ overtaken \in BOOLEAN

Init ==
    /\ do_paint = FALSE /\ opened = FALSE /\ menu_idx = -1 /\ menu_level = -1
    /\ typed = [p \in TextPages |-> 0]
    /\ wifi_step = "SSID"
    /\ step = "NONE"
    /\ number_limit = [first |-> 0, second |-> Int16Max]
    /\ selections = NoSelections
    /\ gated = {} /\ at = "free"
    /\ display_at = "idle" /\ lcd_on = TRUE /\ timed_out = FALSE
    /\ shown = NotMenu
    /\ logged = FALSE /\ locked = FALSE
    /\ blind = FALSE /\ overtaken = FALSE

-----------------------------------------------------------------------------
(* The events of the button and of the encoder. *)

\* app_display_handler's callbacks test before they wait for the mutex.
Gate(t) ==
    /\ t \notin gated
    /\ lcd_on /\ ~locked
    /\ ~blind \/ BlindPages \/ (menu_level \notin Entries /\ display_at \notin Closing)
    /\ gated' = gated \cup {t}
    /\ overtaken' = (overtaken \/ logged)
    /\ UNCHANGED <<do_paint, opened, menuVars, wifiVars, irrigateVars, at, display_at,
                   lcd_on, timed_out, shown, logged, locked, blind>>

\* An event that only keeps the display on.
Ignored ==
    /\ ~lcd_on \/ locked
    /\ timed_out' = FALSE
    /\ UNCHANGED <<do_paint, opened, menuVars, wifiVars, irrigateVars, gated, at,
                   display_at, lcd_on, shown, sessionVars, blind>>

(* History.  Somebody acts blind who acts on an entry or a page that is not  *)
(* on the display yet, or on a menu that is being closed.  That is over when *)
(* the menu has been closed, or turned to an entry, with nothing left of it. *)
Looking(looks) == blind' = (blind \/ ~looks \/ display_at \in Closing)

NothingLeft == typed = [p \in TextPages |-> 0] /\ selections.schedule_idx < Schedules

\* The mutex is taken; the handlers below say what becomes of it.
Handle(t, level) ==
    /\ at = "free"
    /\ t \in gated /\ gated' = gated \ {t}
    /\ menu_level \in level
    /\ UNCHANGED <<display_at, lcd_on, shown, sessionVars>>

\* The mutex is given back, and the display stays on.
Finish == at' = "free" /\ timed_out' = FALSE

Turned == {"ccw", "cw"}

(* app_display_menu at the first level. *)

MenuSelect ==
    /\ Handle("button", {-1})
    /\ do_paint' = TRUE
    /\ menu_level' = menu_idx
    /\ menu_idx' = -1
    /\ Looking(menu_idx # -1 \/ ~opened)
    /\ Finish
    /\ UNCHANGED <<opened, typed, wifiVars, irrigateVars>>

MenuTurnTo(idx) ==
    /\ Handle("encoder", {-1})
    /\ do_paint' = TRUE /\ opened' = TRUE
    /\ menu_idx' = idx
    /\ blind' = (display_at \in Closing \/ (blind /\ ~(idx \in Entries /\ NothingLeft)))
    /\ Finish
    /\ UNCHANGED <<menu_level, typed, wifiVars, irrigateVars>>

\* Mutated: the last entry plus one is taken for an entry.
MenuTurnPast(turn) ==
    MenuTurnTo(IF turn = "cw" THEN IF menu_idx + 1 > MENU_SIZE THEN 0 ELSE menu_idx + 1
               ELSE IF menu_idx - 1 < 0 THEN MENU_SIZE - 1 ELSE menu_idx - 1)

\* Mutated: the new entry is not painted.
MenuTurnUnpainted(turn) ==
    /\ Handle("encoder", {-1})
    /\ opened' = TRUE
    /\ menu_idx' = IF turn = "cw" THEN 0 ELSE MENU_SIZE - 1
    /\ Looking(TRUE)
    /\ Finish
    /\ UNCHANGED <<do_paint, menu_level, typed, wifiVars, irrigateVars>>

MenuTurn(turn) ==
    MenuTurnTo(IF turn = "cw" THEN IF menu_idx + 1 >= MENU_SIZE THEN 0 ELSE menu_idx + 1
               ELSE IF menu_idx - 1 < 0 THEN MENU_SIZE - 1 ELSE menu_idx - 1)

(* A click opens the menu without asking for a paint: what is painted next,  *)
(* if a log-out or the button has asked for it, is labels[-1].               *)
MenuOpen ==
    /\ Handle("encoder", {-1})
    /\ opened' = TRUE
    /\ Looking(opened /\ menu_idx # -1)
    /\ Finish
    /\ UNCHANGED <<do_paint, menuVars, wifiVars, irrigateVars>>

\* An event for a page: every page asks for a paint.
OnPage(t, level) ==
    /\ Handle(t, level)
    /\ do_paint' = TRUE
    /\ opened' = (opened \/ t = "encoder")

\* A level that is none of the menu's.
NoPage(t) ==
    /\ OnPage(t, Index \ (-1 .. MENU_SIZE - 1))
    /\ Looking(FALSE)
    /\ Finish
    /\ UNCHANGED <<menuVars, wifiVars, irrigateVars>>

-----------------------------------------------------------------------------
(* The two pages in which a text is typed, with the keyboard. *)

OnText(t) ==
    /\ OnPage(t, TextPages)
    /\ Looking(menu_idx # -1)
    /\ UNCHANGED irrigateVars

TypeChar ==
    /\ OnText("button")
    /\ IF typed[menu_level] < KeyboardSize - 1
       THEN typed' = [typed EXCEPT ![menu_level] = @ + 1] /\ menu_idx' = CharA
       ELSE UNCHANGED <<typed, menu_idx>>
    /\ Finish
    /\ UNCHANGED <<menu_level, wifiVars>>

TurnChar(turn) ==
    /\ OnText("encoder")
    /\ menu_idx' = IF turn = "cw" THEN IF menu_idx + 1 > LastChar THEN FirstChar ELSE menu_idx + 1
                   ELSE IF menu_idx - 1 < FirstChar THEN LastChar ELSE menu_idx - 1
    /\ Finish
    /\ UNCHANGED <<menu_level, typed, wifiVars>>

DeleteChar ==
    /\ OnText("encoder")
    /\ typed[menu_level] > 0
    /\ typed' = [typed EXCEPT ![menu_level] = @ - 1]
    /\ menu_idx' = CharA
    /\ Finish
    /\ UNCHANGED <<menu_level, wifiVars>>

\* The menu is back at the page's entry, and the keyboard is emptied.
LeaveTo(idx, page) ==
    /\ menu_idx' = idx /\ menu_level' = -1
    /\ typed' = [typed EXCEPT ![page] = 0]

Back ==
    /\ OnText("encoder")
    /\ typed[menu_level] = 0
    /\ LeaveTo(menu_level, menu_level)
    /\ Finish
    /\ UNCHANGED wifiVars

\* Mutated: a page that is left keeps what was typed.
RefuseKeepsText ==
    /\ OnText("button")
    /\ ~logged
    /\ menu_idx' = menu_level /\ menu_level' = -1
    /\ Finish
    /\ UNCHANGED <<typed, wifiVars>>

\* Mutated: the keyboard says exit::OK, and the password is sent.
RefuseSends ==
    /\ OnText("button")
    /\ ~logged
    /\ at' = "confirm"
    /\ UNCHANGED <<menuVars, wifiVars, timed_out>>

(* A long press with nobody logged in: the keyboard says exit::KO, which     *)
(* leaves the page.                                                          *)
Refuse ==
    /\ OnText("button")
    /\ ~logged
    /\ LeaveTo(menu_level, menu_level)
    /\ Finish
    /\ UNCHANGED wifiVars

\* With a user logged in, the SSID is kept and its password asked for,
ConfirmSsid ==
    /\ OnText("button")
    /\ logged /\ menu_level = WIFI /\ wifi_step = "SSID"
    /\ wifi_step' = "PASSWD"
    /\ typed' = [typed EXCEPT ![WIFI] = 0]
    /\ Finish
    /\ UNCHANGED <<menu_idx, menu_level>>

\* and a password is sent.
Confirm ==
    /\ OnText("button")
    /\ logged /\ ~(menu_level = WIFI /\ wifi_step = "SSID")
    /\ at' = "confirm"
    /\ UNCHANGED <<menuVars, wifiVars, timed_out>>

\* app_display_menu::on_exit tests again who is logged in.
SendPasswd ==
    /\ at = "confirm"
    /\ \/ menu_level = PASSWD /\ at' = IF logged THEN "$CONF 11" ELSE "$AUTH passwd"
       \/ menu_level = WIFI /\ at' = IF logged THEN "$CONF 6" ELSE "$AUTH wifi"
    /\ UNCHANGED <<do_paint, opened, menuVars, wifiVars, irrigateVars, gated, display_at,
                   lcd_on, timed_out, shown, sessionVars, blind>>

\* The parser has answered, or a second has passed without an answer.
Answered(commands) ==
    /\ at \in commands
    /\ UNCHANGED <<do_paint, opened, gated, display_at, lcd_on, shown, sessionVars, blind>>

PasswdAnswered ==
    /\ Answered({"$CONF 11", "$AUTH passwd"})
    /\ \/ at = "$CONF 11" /\ LeaveTo(PASSWD, PASSWD)
       \/ /\ at = "$AUTH passwd"
          /\ menu_idx' = CharA /\ menu_level' = PASSWD
          /\ typed' = [typed EXCEPT ![PASSWD] = 0]
    /\ Finish
    /\ UNCHANGED <<wifiVars, irrigateVars>>

WifiAccepted ==
    /\ Answered({"$CONF 6", "$CONF 7"})
    /\ at' = IF at = "$CONF 6" THEN "$CONF 7" ELSE "$CONF STORE"
    /\ UNCHANGED <<menuVars, wifiVars, irrigateVars, timed_out>>

\* The page keeps asking for the password until the menu is closed.
WifiAnswered ==
    /\ Answered({"$CONF 6", "$CONF 7", "$CONF STORE", "$AUTH wifi"})
    /\ \/ at # "$AUTH wifi" /\ LeaveTo(WIFI, WIFI)
       \/ /\ at = "$AUTH wifi"
          /\ typed' = [typed EXCEPT ![WIFI] = 0]
          /\ UNCHANGED <<menu_idx, menu_level>>
    /\ wifi_step' = "PASSWD"
    /\ Finish
    /\ UNCHANGED irrigateVars

-----------------------------------------------------------------------------
(* The page that chooses a schedule, a zone and a number of minutes.         *)

UpTo(n) == [first |-> 1, second |-> n]
InLimit(idx, limit) == idx \in limit.first .. limit.second

OnNumber(t) ==
    /\ OnPage(t, {IRRIGATE_NOW})
    /\ Looking(step # "NONE" /\ (step = "ZONE" \/ InLimit(menu_idx, number_limit)))
    /\ UNCHANGED <<typed, wifiVars>>

Status == {"RELEASE", "LONG_PRESS"}

\* The keyboard's own handling of the button, after the page's.
Raised(idx, limit, status) ==
    IF status = "RELEASE" /\ idx < limit.first THEN limit.first ELSE idx

Press(status, idx, limit) ==
    /\ OnNumber("button")
    /\ number_limit' = limit
    /\ menu_idx' = Raised(idx, limit, status)
    /\ Finish
    /\ UNCHANGED menu_level

PressNone(status) ==
    /\ step = "NONE" /\ step' = "SCHEDULE"
    /\ Press(status, menu_idx, UpTo(Schedules))
    /\ UNCHANGED selections

(* app_data::get_data says nullptr of a schedule that there is not, of which *)
(* the page reads the number of zones nevertheless.                          *)
ZonesRead(schedule) == IF schedule < Schedules THEN {ZonesLen[schedule]} ELSE Byte

\* Mutated: the number on the display is taken for the index.
PressScheduleFromOne(status) ==
    /\ step = "SCHEDULE" /\ step' = "ZONE"
    /\ LET schedule == menu_idx % ByteSize
       IN  /\ selections' = [selections EXCEPT !.schedule_idx = schedule]
           /\ \E zones \in ZonesRead(schedule) :
                  Press(status, 0, IF zones # 0 THEN UpTo(zones) ELSE number_limit)

PressSchedule(status) ==
    /\ step = "SCHEDULE" /\ step' = "ZONE"
    /\ LET schedule == (menu_idx - 1) % ByteSize
       IN  /\ selections' = [selections EXCEPT !.schedule_idx = schedule]
           /\ \E zones \in ZonesRead(schedule) :
                  Press(status, 0, IF zones # 0 THEN UpTo(zones) ELSE number_limit)

\* Whatever zone is chosen, and whether there is one, it is the first ("test!!!!!!").
PressZone(status) ==
    /\ step = "ZONE" /\ step' = "IRRIGATING"
    /\ selections' = [selections EXCEPT !.zone_idx = 0]
    /\ Press(status, 0, UpTo(ByteSize - 1))

PressIrrigating(status) ==
    /\ OnNumber("button")
    /\ step = "IRRIGATING"
    /\ selections' = [selections EXCEPT !.irrigating_minutes = menu_idx % ByteSize]
    /\ menu_idx' = 0
    /\ at' = IF status = "RELEASE" THEN "$DATA 5" ELSE "$DATA 5 long"
    /\ UNCHANGED <<menu_level, step, number_limit, timed_out>>

(* The menu is back at "Irrigate now"; after a short press the keyboard, as  *)
(* it raises the number, goes on to the next entry.                          *)
DataAnswered ==
    /\ Answered({"$DATA 5", "$DATA 5 long"})
    /\ menu_idx' = Raised(IRRIGATE_NOW, number_limit, IF at = "$DATA 5" THEN "RELEASE" ELSE "LONG_PRESS")
    /\ menu_level' = -1
    /\ selections' = NoSelections /\ step' = "NONE"
    /\ Finish
    /\ UNCHANGED <<typed, wifiVars, number_limit>>

\* app_data::get_data(schedule, zone): how many zones there are, if that is one of them.
GetData(schedule, zone) ==
    IF schedule < Schedules /\ zone < Zones
    THEN IF zone <= ZonesLen[schedule] THEN ZonesLen[schedule] ELSE 0
    ELSE 0

\* The page's own handling of a click, and the keyboard's set_first_char.
Click(level, limit) ==
    /\ OnNumber("encoder")
    /\ menu_level' = level
    /\ number_limit' = limit
    /\ menu_idx' = limit.first
    /\ Finish

ClickNone ==
    /\ step = "NONE"
    /\ Click(IRRIGATE_NOW, number_limit)
    /\ UNCHANGED <<step, selections>>

ClickSchedule ==
    /\ step = "SCHEDULE" /\ step' = "NONE"
    /\ selections' = [selections EXCEPT !.zone_idx = 0]
    /\ Click(-1, number_limit)

ClickZone ==
    /\ step = "ZONE" /\ step' = "SCHEDULE"
    /\ selections' = [selections EXCEPT !.schedule_idx = 0]
    /\ Click(IRRIGATE_NOW, UpTo(Schedules))

ClickIrrigating ==
    /\ step = "IRRIGATING" /\ step' = "ZONE"
    /\ selections' = [selections EXCEPT !.irrigating_minutes = 0]
    /\ LET zones == GetData(selections.schedule_idx, (menu_idx - 1) % ByteSize)
       IN  Click(IRRIGATE_NOW, IF zones # 0 THEN UpTo(zones) ELSE number_limit)

\* Counter-clockwise, only the first number has a number before it: the last.
TurnNumber(turn) ==
    /\ OnNumber("encoder")
    /\ menu_idx' = IF turn = "cw"
                   THEN IF InLimit(menu_idx + 1, number_limit) THEN menu_idx + 1
                        ELSE number_limit.first
                   ELSE IF menu_idx - 1 = number_limit.first THEN menu_idx - 1
                        ELSE number_limit.second
    /\ Finish
    /\ UNCHANGED <<menu_level, step, number_limit, selections>>

Handlers ==
    \/ MenuSelect \/ MenuOpen \/ (\E turn \in Turned : MenuTurn(turn))
    \/ (\E t \in Threads : NoPage(t))
    \/ TypeChar \/ DeleteChar \/ Back \/ Refuse \/ ConfirmSsid \/ Confirm
    \/ (\E turn \in Turned : TurnChar(turn) \/ TurnNumber(turn))
    \/ (\E status \in Status : PressNone(status) \/ PressSchedule(status)
                                \/ PressZone(status) \/ PressIrrigating(status))
    \/ ClickNone \/ ClickSchedule \/ ClickZone \/ ClickIrrigating

Answers == SendPasswd \/ PasswdAnswered \/ WifiAccepted \/ WifiAnswered \/ DataAnswered

-----------------------------------------------------------------------------
(* The display's thread, which only runs while the other two wait. *)

Resting == (at = "free" /\ gated = {}) \/ at \in Sending

DisplayGoes(from, to) ==
    /\ Resting
    /\ display_at = from /\ display_at' = to
    /\ UNCHANGED <<wifiVars, selections, gated, at, sessionVars>>

UnchangedByDisplay == UNCHANGED <<menuVars, step, number_limit>>

\* An iteration: the LCD is turned on again, unless the timer for "Ready" has not ended.
Begin ==
    /\ ~locked
    /\ DisplayGoes("idle", "paint")
    /\ lcd_on' = (lcd_on \/ ~timed_out)
    /\ UnchangedByDisplay
    /\ UNCHANGED <<do_paint, opened, timed_out, shown, blind>>

BeginLocked ==
    /\ locked
    /\ DisplayGoes("idle", "idle")
    /\ lcd_on' = TRUE /\ timed_out' = FALSE
    /\ shown' = NotMenu
    /\ UnchangedByDisplay
    /\ UNCHANGED <<do_paint, opened, blind>>

\* The iteration ends, or a minute without an event does.
GoOn(from) ==
    \/ ~timed_out /\ DisplayGoes(from, "idle") /\ timed_out' \in BOOLEAN
    \/ /\ timed_out /\ timed_out' = TRUE
       /\ DisplayGoes(from, IF opened THEN "exit_paint" ELSE "off")

BeginTooEarly ==
    /\ ~locked
    /\ GoOn("idle")
    /\ UnchangedByDisplay
    /\ UNCHANGED <<do_paint, opened, lcd_on, shown, blind>>

\* Nothing of the menu to paint.
PaintNothing ==
    /\ ~lcd_on \/ ~opened \/ ~do_paint
    /\ GoOn("paint")
    /\ shown' = IF lcd_on /\ ~opened THEN NotMenu ELSE shown
    /\ UnchangedByDisplay
    /\ UNCHANGED <<do_paint, opened, lcd_on, blind>>

PaintMenu ==
    /\ lcd_on /\ opened /\ do_paint
    /\ at = "free"
    /\ GoOn("paint")
    /\ do_paint' = FALSE
    /\ UNCHANGED <<opened, menu_level, typed, lcd_on, blind>>

Picture(page, idx, chars) == [page |-> page, idx |-> idx, typed |-> chars]

\* The first level, or a level that is none of the menu's, of which nothing is painted.
PaintLevel ==
    /\ PaintMenu
    /\ menu_level \notin Entries
    /\ shown' = IF menu_level = -1 THEN Picture("label", menu_idx, 0) ELSE shown
    /\ UNCHANGED <<menu_idx, step, number_limit>>

TextPage ==
    IF ~logged THEN "Access pwd" ELSE IF menu_level = PASSWD THEN "New passwd" ELSE wifi_step

PaintText ==
    /\ PaintMenu
    /\ menu_level \in TextPages
    /\ menu_idx' = IF menu_idx = -1 THEN CharA ELSE menu_idx
    /\ shown' = Picture(TextPage, menu_idx', typed[menu_level])
    /\ UNCHANGED <<step, number_limit>>

Clamped(idx, limit) ==
    IF idx < limit.first THEN limit.first ELSE IF idx > limit.second THEN limit.second ELSE idx

NoZone == step = "ZONE" /\ GetData(selections.schedule_idx, selections.zone_idx) = 0

PaintNumber ==
    /\ PaintMenu
    /\ menu_level = IRRIGATE_NOW
    /\ step' = IF step = "NONE" THEN "SCHEDULE" ELSE step
    /\ number_limit' = IF step = "NONE" THEN UpTo(Schedules) ELSE number_limit
    /\ menu_idx' = IF NoZone THEN menu_idx ELSE Clamped(menu_idx, number_limit')
    /\ shown' = IF NoZone THEN Picture("No zone", 0, 0) ELSE Picture(step', menu_idx', 0)

(* app_display_menu::exit, without the mutex: one assignment after the other,*)
(* perhaps while a page waits for an answer.                                 *)
ExitPaint ==
    /\ DisplayGoes("exit_paint", "exit_opened")
    /\ do_paint' = FALSE
    /\ blind' = (blind \/ at # "free")
    /\ UnchangedByDisplay
    /\ UNCHANGED <<opened, lcd_on, timed_out, shown>>

ExitOpened ==
    /\ DisplayGoes("exit_opened", "exit_idx")
    /\ opened' = FALSE
    /\ UnchangedByDisplay
    /\ UNCHANGED <<do_paint, lcd_on, timed_out, shown, blind>>

ExitIdx ==
    /\ DisplayGoes("exit_idx", "exit_level")
    /\ menu_idx' = -1
    /\ UNCHANGED <<do_paint, opened, menu_level, typed, step, number_limit, lcd_on,
                   timed_out, shown, blind>>

ExitLevel ==
    /\ DisplayGoes("exit_level", "exit_passwd")
    /\ menu_level' = -1
    /\ UNCHANGED <<do_paint, opened, menu_idx, typed, step, number_limit, lcd_on,
                   timed_out, shown, blind>>

ExitPasswd ==
    /\ DisplayGoes("exit_passwd", "exit_wifi")
    /\ typed' = [typed EXCEPT ![PASSWD] = 0]
    /\ UNCHANGED <<do_paint, opened, menu_idx, menu_level, step, number_limit, lcd_on,
                   timed_out, shown, blind>>

ExitWifi ==
    /\ Resting
    /\ display_at = "exit_wifi" /\ display_at' = "off"
    /\ wifi_step' = "SSID"
    /\ typed' = [typed EXCEPT ![WIFI] = 0]
    /\ UNCHANGED <<do_paint, opened, menu_idx, menu_level, irrigateVars, gated, at, lcd_on,
                   timed_out, shown, sessionVars, blind>>

Closed == ~opened /\ menu_idx = -1 /\ menu_level = -1 /\ at = "free" /\ NothingLeft

Off ==
    /\ DisplayGoes("off", "idle")
    /\ lcd_on' = FALSE
    /\ blind' = (blind /\ ~Closed)
    /\ UnchangedByDisplay
    /\ UNCHANGED <<do_paint, opened, timed_out, shown>>

Display ==
    \/ Begin \/ BeginLocked \/ BeginTooEarly \/ PaintNothing \/ PaintLevel \/ PaintText \/ PaintNumber
    \/ ExitPaint \/ ExitOpened \/ ExitIdx \/ ExitLevel \/ ExitPasswd \/ ExitWifi \/ Off

-----------------------------------------------------------------------------
(* The parser's thread and the session's timer. *)

UnchangedBySession ==
    UNCHANGED <<opened, menuVars, wifiVars, irrigateVars, gated, at, display_at, lcd_on,
                timed_out, shown, blind>>

(* History.  A log-in overtakes an event that has passed the test of the lock*)
(* but has not been handled to its end; from the UART, the lock only comes   *)
(* after it (Gate).                                                          *)
LogIn ==
    /\ ~logged
    /\ ~blind \/ BlindPages
    /\ logged' = TRUE
    /\ overtaken' = (gated # {} \/ at # "free")
    /\ UnchangedBySession
    /\ UNCHANGED <<do_paint, locked>>

Lock ==
    /\ logged
    /\ ~blind \/ BlindPages
    /\ locked' = TRUE
    /\ UnchangedBySession
    /\ UNCHANGED <<do_paint, logged, overtaken>>

\* What comes between the log-out and the call of on_logout is painted again.
LogOut ==
    /\ logged
    /\ logged' = FALSE /\ locked' = FALSE
    /\ do_paint' = TRUE
    /\ UnchangedBySession
    /\ UNCHANGED overtaken

Session == LogIn \/ Lock \/ LogOut

Next == (\E t \in Threads : Gate(t)) \/ Ignored \/ Handlers \/ Answers \/ Display \/ Session

Spec == Init /\ [][Next]_vars

-----------------------------------------------------------------------------
(* Properties. *)

\* Nobody has acted blind, and the menu is not being closed.
Orderly == ~blind /\ display_at \notin Closing

(* One index serves the entries, the characters and the numbers.  Where it   *)
(* is left by one, it fits the next: an opened first level has an entry, the *)
(* font a character, and the schedule whose zones are read exists.           *)
(* (app-display-menu.cpp:60-241, app-display-keyboard.cpp:67-192,            *)
(* app-display-irrigate-now.cpp:54-63)                                       *)
IndexFits ==
    Orderly =>
        /\ opened /\ menu_level = -1 => menu_idx \in Entries
        /\ menu_level \in TextPages => menu_idx \in Font \cup {-1}
        /\ step \in {"ZONE", "IRRIGATING"} => selections.schedule_idx < Schedules

(* A password typed on the display is nowhere once its page is left, however *)
(* it is left: refused, sent, deleted or closed by the timer.                *)
(* (app-display-keyboard.cpp:59-67, 98-102, 128-144)                         *)
NoLeftovers ==
    Orderly => \A p \in TextPages : typed[p] # 0 => menu_level = p

(* When nothing is left to paint, the entry or the page on the display is    *)
(* the one that the next event acts on.                                      *)
(* (app-display-menu.cpp:60-241, app-display-handler.cpp:344-354)            *)
ShownIsCurrent ==
    Orderly /\ opened /\ ~do_paint /\ at = "free" /\ ~logged
    /\ shown.page # "none" =>
        \/ menu_level = -1 /\ shown = Picture("label", menu_idx, 0)
        \/ menu_level \in TextPages /\ shown = Picture(TextPage, menu_idx, typed[menu_level])
        \/ menu_level = IRRIGATE_NOW /\ NoZone /\ shown.page = "No zone"
        \/ menu_level = IRRIGATE_NOW /\ ~NoZone /\ shown = Picture(step, menu_idx, 0)

(* What is sent is an irrigation of at least a minute and of a zone of a     *)
(* schedule that exists (app-display-irrigate-now.cpp:54-102, 148-190).      *)
SentIsChosen ==
    ~blind /\ at \in {"$DATA 5", "$DATA 5 long"} =>
        selections.irrigating_minutes > 0 /\ selections.schedule_idx < Schedules

(* The pages for the passwords never send anything unless a log-in from the  *)
(* UART overtakes a press: without one the keyboard leaves the page, although*)
(* it asks for the "Access pwd" (app-display-keyboard.cpp:98-102,            *)
(* app-display-menu.cpp:284-294, 330-343).                                   *)
OnlyOvertakenSends ==
    at \in Sending \ {"$DATA 5", "$DATA 5 long"} => overtaken
=============================================================================
