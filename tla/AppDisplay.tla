----------------------------- MODULE AppDisplay -----------------------------
(***************************************************************************)
(* The display's thread, app_display_handler (app-display-handler.cpp),    *)
(* and the two flags of the menu that it works with (app-display-menu.cpp).*)
(*                                                                         *)
(* The thread, of priority LOW, paints what the bits of the state machine, *)
(* the lock and the menu call for, every 5 ms.  Buttons, the encoder and   *)
(* the parser are of priority NORMAL, the session's timer of a higher one: *)
(* their calls may come between any two accesses of the thread to what     *)
(* they share with it, and are not interrupted by it.                      *)
(*                                                                         *)
(* Time is counted in iterations of the thread.  What is painted is only   *)
(* told apart as far as the screens are; the pages of the menu are left    *)
(* out.  One callback of the button or the encoder is under way at a time. *)
(***************************************************************************)
EXTENDS Integers

CONSTANTS
    OneSec,     \* iterations in a second, 200
    Blink,      \* BLINK_SLEEP, 100
    Full        \* DISPLAY_TURN_ODD_TIMEOUT, 12 000

ASSUME AppDisplayAssumption ==
    /\ OneSec \in Nat /\ Blink \in Nat /\ Full \in Nat
    /\ 0 < Blink /\ Blink <= OneSec
    /\ OneSec + 2 < Full

VARIABLES
    fsm,              \* app_main's bits, as far as the thread tells them apart
    locked,
    generic_timer, turn_off,          \* turn_off is display_turn_off_timer
    opened, do_paint                  \* of the menu

VARIABLES
    lcd_on, screen,   \* the LCD: is it on, and what was last sent to it
    blink,            \* locked_blink_show
    d_at,             \* where the thread is
    fsm_state, last,  \* its locals: the bits read, fsm_last_state
    read              \* and the value of a timer between its load and its store

VARIABLES
    pressed,          \* a callback has called the menu, not yet reset turn_off
    unshown           \* history: iterations for which the lock is not yet shown

sharedVars == <<fsm, locked, generic_timer, turn_off, opened, do_paint>>
displayThreadVars == <<lcd_on, screen, blink, d_at, fsm_state, last, read>>
displayVars == <<sharedVars, displayThreadVars, pressed, unshown>>

(* The bits select a branch; "wait" and "wait_more" select the same one with *)
(* different other bits, "none" selects none (CHECK_USERS is no bit).  ERROR *)
(* and EXECUTE_ZONE are never set.                                           *)
Fsm == {"none", "wait", "wait_more", "check", "sinch", "ready"}

LockScreens == {"locked", "blank"}

Step == {"fetch", "branch", "ready", "ready_count", "wake", "ready_paint",
         "send_ready", "send_menu", "ready_off", "exit_paint", "exit_opened", "off",
         "locked", "locked_test", "locked_count", "send_locked", "locked_timer",
         "end", "store"}

(* Every variable has its type; the timers do not pass zero, where the tests *)
(* for zero would not find them, although lock() resets one of them at any   *)
(* moment (app-display-handler.cpp:325, 361, 421-432, 439-441, 465-469).     *)
DisplayTypeOK ==
    /\ fsm \in Fsm /\ fsm_state \in Fsm /\ last \in Fsm
    /\ locked \in BOOLEAN
    /\ generic_timer \in 0 .. OneSec
    /\ turn_off \in 0 .. Full
    /\ opened \in BOOLEAN /\ do_paint \in BOOLEAN
    /\ lcd_on \in BOOLEAN /\ blink \in BOOLEAN
    /\ screen \in {"loading", "wait", "ready", "menu"} \cup LockScreens
    /\ d_at \in Step
    /\ read \in 0 .. Full
    /\ pressed \in BOOLEAN
    /\ unshown \in Nat

DisplayInit ==
    /\ fsm = "none" /\ fsm_state = "none" /\ last = "none"
    /\ locked = FALSE
    /\ generic_timer = 0 /\ turn_off = Full
    /\ opened = FALSE /\ do_paint = FALSE
    /\ lcd_on = TRUE /\ screen = "loading" /\ blink = TRUE
    /\ d_at = "fetch" /\ read = 0
    /\ pressed = FALSE /\ unshown = 0

-----------------------------------------------------------------------------
(* The thread. *)

Goto(a, b) == d_at = a /\ d_at' = b

FetchBits ==
    /\ Goto("fetch", "branch")
    /\ fsm_state' = fsm
    /\ UNCHANGED <<sharedVars, lcd_on, screen, blink, last, read, pressed, unshown>>

(* Before READY: the wait for a connection is painted once for each value of *)
(* the bits; CHECK_TIMESTAMP is only remembered, and SINCH_TIMESTAMP, which  *)
(* reads the clock, not even that.                                           *)
Starting ==
    /\ Goto("branch", "end")
    /\ ~locked
    /\ fsm_state # "ready"
    /\ \/ /\ fsm_state \in {"wait", "wait_more"} /\ last # fsm_state
          /\ last' = fsm_state /\ screen' = "wait"
       \/ /\ fsm_state = "check"
          /\ last' = fsm_state /\ screen' = screen
       \/ /\ fsm_state \in {"none", "sinch", last}
          /\ UNCHANGED <<last, screen>>
    /\ UNCHANGED <<sharedVars, lcd_on, blink, fsm_state, read, pressed, unshown>>

Dispatch ==
    /\ d_at = "branch"
    /\ \/ locked /\ d_at' = "locked"
       \/ ~locked /\ fsm_state = "ready" /\ d_at' = "ready"
    /\ UNCHANGED <<sharedVars, lcd_on, screen, blink, fsm_state, last, read,
                   pressed, unshown>>

(* The test of generic_timer, in the READY and in the locked branch; the     *)
(* value tested is the one the count starts from.                            *)
TestTimer(at, zero, count) ==
    /\ d_at = at
    /\ d_at' = IF generic_timer = 0 THEN zero ELSE count
    /\ read' = generic_timer
    /\ UNCHANGED <<sharedVars, lcd_on, screen, blink, fsm_state, last, pressed, unshown>>

Count(at, next) ==
    /\ Goto(at, next)
    /\ generic_timer' = read - 1
    /\ read' = 0
    /\ UNCHANGED <<fsm, locked, turn_off, opened, do_paint, lcd_on, screen, blink,
                   fsm_state, last, pressed, unshown>>

\* Mutated: the LCD is not turned on again.
StaysDark ==
    /\ Goto("wake", "ready_paint")
    /\ UNCHANGED <<sharedVars, lcd_on, screen, blink, fsm_state, last, read,
                   pressed, unshown>>

Wake ==
    /\ Goto("wake", "ready_paint")
    /\ lcd_on' = (lcd_on \/ turn_off # 0)
    /\ UNCHANGED <<sharedVars, screen, blink, fsm_state, last, read, pressed, unshown>>

\* Mutated: painting the menu does not take the request back.
PaintsForEver ==
    /\ d_at = "ready_paint"
    /\ \/ /\ lcd_on /\ ~opened
          /\ generic_timer' = OneSec
          /\ d_at' = "send_ready"
       \/ /\ lcd_on /\ opened /\ do_paint
          /\ d_at' = "send_menu" /\ generic_timer' = generic_timer
       \/ /\ ~lcd_on \/ (opened /\ ~do_paint)
          /\ d_at' = "ready_off" /\ generic_timer' = generic_timer
    /\ UNCHANGED <<fsm, locked, turn_off, opened, do_paint, lcd_on, screen, blink,
                   fsm_state, last, read, pressed, unshown>>

(* "Ready" once a second, or the menu if something has changed in it, unless *)
(* the LCD is off.                                                           *)
ReadyPaint ==
    /\ d_at = "ready_paint"
    /\ \/ /\ lcd_on /\ ~opened
          /\ generic_timer' = OneSec
          /\ d_at' = "send_ready" /\ do_paint' = do_paint
       \/ /\ lcd_on /\ opened /\ do_paint
          /\ do_paint' = FALSE
          /\ d_at' = "send_menu" /\ generic_timer' = generic_timer
       \/ /\ ~lcd_on \/ (opened /\ ~do_paint)
          /\ d_at' = "ready_off"
          /\ UNCHANGED <<generic_timer, do_paint>>
    /\ UNCHANGED <<fsm, locked, turn_off, opened, lcd_on, screen, blink, fsm_state,
                   last, read, pressed, unshown>>

SendReady ==
    /\ Goto("send_ready", "ready_off")
    /\ screen' = "ready"
    /\ UNCHANGED <<sharedVars, lcd_on, blink, fsm_state, last, read, pressed, unshown>>

SendMenu ==
    /\ Goto("send_menu", "ready_off")
    /\ screen' = IF opened THEN "menu" ELSE screen
    /\ UNCHANGED <<sharedVars, lcd_on, blink, fsm_state, last, read, pressed, unshown>>

\* A minute without a button: the menu is closed, in two steps, and the LCD turned off.
ReadyOff ==
    /\ d_at = "ready_off"
    /\ d_at' = IF turn_off # 0 THEN "end" ELSE IF opened THEN "exit_paint" ELSE "off"
    /\ UNCHANGED <<sharedVars, lcd_on, screen, blink, fsm_state, last, read,
                   pressed, unshown>>

ExitPaint ==
    /\ Goto("exit_paint", "exit_opened")
    /\ do_paint' = FALSE
    /\ UNCHANGED <<fsm, locked, generic_timer, turn_off, opened, lcd_on, screen, blink,
                   fsm_state, last, read, pressed, unshown>>

ExitOpened ==
    /\ Goto("exit_opened", "off")
    /\ opened' = FALSE
    /\ UNCHANGED <<fsm, locked, generic_timer, turn_off, do_paint, lcd_on, screen, blink,
                   fsm_state, last, read, pressed, unshown>>

Off ==
    /\ Goto("off", "end")
    /\ lcd_on' = FALSE
    /\ UNCHANGED <<sharedVars, screen, blink, fsm_state, last, read, pressed, unshown>>

Locked ==
    /\ Goto("locked", "locked_test")
    /\ turn_off' = Full
    /\ UNCHANGED <<fsm, locked, generic_timer, opened, do_paint, lcd_on, screen, blink,
                   fsm_state, last, read, pressed, unshown>>

\* Mutated: the lock is painted on an LCD that may be off.
SendLockedDark ==
    /\ Goto("send_locked", "locked_timer")
    /\ screen' = IF blink THEN "locked" ELSE "blank"
    /\ blink' = ~blink
    /\ UNCHANGED <<sharedVars, lcd_on, fsm_state, last, read, pressed, unshown>>

SendLocked ==
    /\ Goto("send_locked", "locked_timer")
    /\ lcd_on' = TRUE
    /\ screen' = IF blink THEN "locked" ELSE "blank"
    /\ blink' = ~blink
    /\ UNCHANGED <<sharedVars, fsm_state, last, read, pressed, unshown>>

LockedTimer ==
    /\ Goto("locked_timer", "end")
    /\ generic_timer' = Blink
    /\ UNCHANGED <<fsm, locked, turn_off, opened, do_paint, lcd_on, screen, blink,
                   fsm_state, last, read, pressed, unshown>>

Shown == lcd_on /\ screen \in LockScreens

\* The end of an iteration: turn_off, which is volatile, is loaded, then stored.
End ==
    /\ d_at = "end"
    /\ d_at' = IF turn_off # 0 THEN "store" ELSE "fetch"
    /\ read' = turn_off
    /\ unshown' = IF locked /\ ~Shown THEN unshown + 1 ELSE unshown
    /\ UNCHANGED <<sharedVars, lcd_on, screen, blink, fsm_state, last, pressed>>

Store ==
    /\ Goto("store", "fetch")
    /\ turn_off' = read - 1
    /\ read' = 0
    /\ UNCHANGED <<fsm, locked, generic_timer, opened, do_paint, lcd_on, screen, blink,
                   fsm_state, last, pressed, unshown>>

Thread ==
    \/ FetchBits \/ Starting \/ Dispatch
    \/ TestTimer("ready", "wake", "ready_count") \/ Count("ready_count", "ready_off")
    \/ Wake \/ ReadyPaint \/ SendReady \/ SendMenu
    \/ ReadyOff \/ ExitPaint \/ ExitOpened \/ Off
    \/ Locked \/ TestTimer("locked_test", "send_locked", "locked_count")
    \/ Count("locked_count", "end") \/ SendLocked \/ LockedTimer
    \/ End \/ Store

-----------------------------------------------------------------------------
(* What the others do. *)

\* The state machine starts once, and is READY for ever.
FsmStep ==
    /\ fsm # "ready"
    /\ \E f \in Fsm : fsm' = f
    /\ UNCHANGED <<locked, generic_timer, turn_off, opened, do_paint, displayThreadVars,
                   pressed, unshown>>

\* lock(): somebody has logged in on the UART.
Lock ==
    /\ locked' = TRUE
    /\ generic_timer' = 0
    /\ unshown' = IF locked THEN unshown ELSE 0
    /\ UNCHANGED <<fsm, turn_off, opened, do_paint, displayThreadVars, pressed>>

\* Mutated: the menu is not asked to paint itself again.
LogoutForgetsMenu ==
    /\ locked' = FALSE
    /\ UNCHANGED <<fsm, generic_timer, turn_off, opened, do_paint, displayThreadVars,
                   pressed, unshown>>

OnLogout ==
    /\ locked' = FALSE
    /\ do_paint' = TRUE
    /\ UNCHANGED <<fsm, generic_timer, turn_off, opened, displayThreadVars, pressed, unshown>>

(* on_button_click, on_rotary_encoder_event: the menu is called if the LCD   *)
(* is on and not locked.  Turning the encoder opens and paints it, a click   *)
(* opens it and may paint it, the button may paint it.                       *)
Press ==
    /\ ~pressed /\ pressed' = TRUE
    /\ IF lcd_on /\ ~locked
       THEN \/ opened' = TRUE /\ do_paint' = TRUE
            \/ opened' = TRUE /\ do_paint' = do_paint
            \/ opened' = opened /\ do_paint' = TRUE
            \/ opened' = opened /\ do_paint' = do_paint
       ELSE UNCHANGED <<opened, do_paint>>
    /\ UNCHANGED <<fsm, locked, generic_timer, turn_off, displayThreadVars, unshown>>

\* A page may keep its callback waiting for an answer of the parser.
PressDone ==
    /\ pressed /\ pressed' = FALSE
    /\ turn_off' = Full
    /\ UNCHANGED <<fsm, locked, generic_timer, opened, do_paint, displayThreadVars, unshown>>

DisplayNext == Thread \/ FsmStep \/ Lock \/ OnLogout \/ Press \/ PressDone

DisplaySpec == DisplayInit /\ [][DisplayNext]_displayVars

\* The thread is scheduled again and again; its iterations end.
DisplayFairSpec == DisplaySpec /\ WF_displayVars(Thread)

-----------------------------------------------------------------------------
(* Properties. *)

(* However the lock and the thread's own writes of the timer interleave, the *)
(* lock is on the display at most a second and an iteration after lock()     *)
(* (app-display-handler.cpp:418-433, 465-469).                               *)
LockIsShown == locked /\ ~Shown => unshown <= OneSec + 1

(* A display that is dark lights up within a second of a button, or the lock,*)
(* whatever was left in the timer it waits for (app-display-handler.cpp:     *)
(* 325-371, 420-423, 439-442).                                               *)
LightsUp == ~lcd_on /\ turn_off > 0 => turn_off + OneSec + 1 >= Full

(* TODO.md:25, 28: a lock that blinks when the log-out comes does not stay on *)
(* a display that is READY, whether the menu is open or not.  A lock painted  *)
(* before READY may: it is there until the bits change, or, if the display    *)
(* goes dark meanwhile and a click on the encoder opens the menu as soon as   *)
(* it lights up, until the menu changes (app-display-handler.cpp:325-356).    *)
LockScreenLeaves ==
    fsm = "ready" /\ ~locked /\ Shown /\ generic_timer > 0 ~> locked \/ ~Shown

(* What has changed in the menu is painted, or the menu closed.              *)
(* (app-display-handler.cpp:344-354, app-display-menu.cpp:187-240)           *)
MenuIsPainted ==
    <>[](fsm = "ready" /\ ~locked) => []<>(~opened \/ ~do_paint)
=============================================================================
