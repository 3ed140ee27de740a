----------------------------- MODULE PartsProofs -----------------------------
(***************************************************************************)
(* Proofs about the parts that keep their own state: the display's thread, *)
(* the status LED, the zones and the schedules, the LCD, the start of the  *)
(* hardware, the keyboard's row, the button, the rotary encoder, the       *)
(* columns of text and the clock; for every value of their constants, and  *)
(* wherever other threads, interrupts and callbacks come in between.  The  *)
(* parts share no variable and no definition.                              *)
(***************************************************************************)
EXTENDS AppDisplay, AppLed, AppZones, AppSchedules, PicoSh1106, HardwareStart,
        KeyboardLine, PicoButton, PicoRotaryEncoder, AppDisplayPaint, PicoTime,
        FiniteSetTheorems, SequenceTheorems, TLAPS

-----------------------------------------------------------------------------
(* The display's thread: the inductive invariant. *)

Counting == {"ready_count", "locked_count"}

ReadySteps == {"ready", "ready_count", "wake", "ready_paint", "send_ready", "send_menu",
               "ready_off", "exit_paint", "exit_opened", "off"}

LockedSteps == {"locked", "locked_test", "locked_count"}

(* What generic_timer is counted down from, and turn_off, when the value has *)
(* been loaded and not yet stored.                                           *)
LeftToPaint == IF d_at \in Counting THEN read ELSE generic_timer
LeftToDark == IF d_at = "store" THEN read ELSE turn_off

\* A value between its load and its store: the other threads may only have reset the timer.
Loads ==
    /\ d_at \in Counting => read \in 1 .. OneSec
    /\ d_at = "store" => read > 0 /\ turn_off \in {read, Full}

\* The display goes dark only when READY, and READY is for ever.
DarkWhenReady ==
    /\ fsm_state = "ready" => fsm = "ready"
    /\ d_at \in ReadySteps => fsm_state = "ready"
    /\ ~lcd_on => fsm_state = "ready"
    /\ d_at \in {"send_ready", "send_menu", "locked_timer"} => lcd_on
    /\ d_at \in {"exit_paint", "exit_opened", "off"} => turn_off \in {0, Full}
    /\ d_at = "locked_timer" => screen \in LockScreens

(* While the display is dark, the two timers are counted down together: when *)
(* generic_timer is 0, something is left of turn_off.                        *)
Lighting ==
    ~lcd_on /\ LeftToDark > 0 =>
        LeftToDark + OneSec
            + (IF d_at \in {"fetch", "branch", "ready", "ready_count", "wake", "send_locked"}
                           \cup LockedSteps THEN 1 ELSE 0)
        >= Full + LeftToPaint

(* A lock comes with all of generic_timer to wait for at most, one iteration *)
(* after the one it came in.                                                 *)
Locking ==
    /\ locked /\ d_at \in ReadySteps => unshown = 0
    /\ locked /\ ~Shown =>
        /\ d_at = "end" => unshown + generic_timer <= OneSec
        /\ d_at \in {"store", "fetch", "branch"} \cup LockedSteps =>
               unshown + LeftToPaint <= OneSec + 1
        /\ d_at = "send_locked" => unshown <= OneSec + 1

DisplayInv == DisplayTypeOK /\ Loads /\ DarkWhenReady /\ Lighting /\ Locking

-----------------------------------------------------------------------------
(* Steps. *)

(* Every variable keeps its type: what is counted down stops at zero, where  *)
(* the tests for zero find it.                                               *)
LEMMA NextTypeOK == DisplayTypeOK /\ Loads /\ [DisplayNext]_displayVars => DisplayTypeOK'
<1> SUFFICES ASSUME DisplayTypeOK, Loads, [DisplayNext]_displayVars PROVE DisplayTypeOK'
  OBVIOUS
<1> USE AppDisplayAssumption DEF AppDisplayAssumption, DisplayTypeOK, Loads, Counting, Fsm, Step,
    LockScreens,
        sharedVars, displayThreadVars, Goto
<1>1. CASE FetchBits
  BY <1>1 DEF FetchBits
<1>2. CASE Starting
  BY <1>2 DEF Starting
<1>3. CASE Dispatch
  BY <1>3 DEF Dispatch
<1>4. CASE TestTimer("ready", "wake", "ready_count")
  BY <1>4 DEF TestTimer
<1>5. CASE Count("ready_count", "ready_off")
  BY <1>5 DEF Count
<1>6. CASE Wake
  BY <1>6 DEF Wake
<1>7. CASE ReadyPaint
  <2>1. do_paint' \in BOOLEAN
    BY <1>7, Zenon DEF ReadyPaint
  <2>2. QED
    BY <1>7, <2>1 DEF ReadyPaint
<1>8. CASE SendReady
  BY <1>8 DEF SendReady
<1>9. CASE SendMenu
  BY <1>9 DEF SendMenu
<1>10. CASE ReadyOff
  BY <1>10 DEF ReadyOff
<1>11. CASE ExitPaint
  <2>1. do_paint' \in BOOLEAN
    BY <1>11, Zenon DEF ExitPaint
  <2>2. QED
    BY <1>11, <2>1 DEF ExitPaint
<1>12. CASE ExitOpened
  <2>1. opened' \in BOOLEAN
    BY <1>12, Zenon DEF ExitOpened
  <2>2. QED
    BY <1>12, <2>1 DEF ExitOpened
<1>13. CASE Off
  <2>1. lcd_on' \in BOOLEAN
    BY <1>13, Zenon DEF Off
  <2>2. QED
    BY <1>13, <2>1 DEF Off
<1>14. CASE Locked
  BY <1>14 DEF Locked
<1>15. CASE TestTimer("locked_test", "send_locked", "locked_count")
  BY <1>15 DEF TestTimer
<1>16. CASE Count("locked_count", "end")
  BY <1>16 DEF Count
<1>17. CASE SendLocked
  BY <1>17 DEF SendLocked
<1>18. CASE LockedTimer
  BY <1>18 DEF LockedTimer
<1>19. CASE End
  BY <1>19 DEF End
<1>20. CASE Store
  BY <1>20 DEF Store
<1>21. CASE FsmStep
  BY <1>21 DEF FsmStep
<1>22. CASE Lock
  BY <1>22 DEF Lock
<1>23. CASE OnLogout
  <2>1. locked' \in BOOLEAN /\ do_paint' \in BOOLEAN
    BY <1>23, Zenon DEF OnLogout
  <2>2. QED
    BY <1>23, <2>1 DEF OnLogout
<1>24. CASE Press
  <2>1. opened' \in BOOLEAN /\ do_paint' \in BOOLEAN /\ pressed' \in BOOLEAN
    BY <1>24, Zenon DEF Press
  <2>2. QED
    BY <1>24, <2>1 DEF Press
<1>25. CASE PressDone
  <2>1. pressed' \in BOOLEAN
    BY <1>25, Zenon DEF PressDone
  <2>2. QED
    BY <1>25, <2>1 DEF PressDone
<1>26. CASE UNCHANGED displayVars
  BY <1>26 DEF displayVars
<1>27. QED
  BY <1>1, <1>2, <1>3, <1>4, <1>5, <1>6, <1>7, <1>8, <1>9, <1>10, <1>11, <1>12, <1>13,
     <1>14, <1>15, <1>16, <1>17, <1>18, <1>19, <1>20, <1>21, <1>22, <1>23, <1>24, <1>25, <1>26
  DEF DisplayNext, Thread

(* Between a load and its store, lock() and the buttons reset what was       *)
(* loaded, and nothing else writes it.                                       *)
LEMMA NextLoads == DisplayTypeOK /\ Loads /\ [DisplayNext]_displayVars => Loads'
<1> SUFFICES ASSUME DisplayTypeOK, Loads, [DisplayNext]_displayVars PROVE Loads'
  OBVIOUS
<1> USE AppDisplayAssumption
    DEF AppDisplayAssumption, DisplayTypeOK, Loads, Counting, sharedVars, displayThreadVars, Goto
<1>1. CASE \/ FetchBits \/ Starting \/ Dispatch \/ Wake \/ ReadyPaint
           \/ SendReady \/ SendMenu
  BY <1>1 DEF FetchBits, Starting, Dispatch, Wake, ReadyPaint, SendReady, SendMenu
<1>2. CASE \/ ReadyOff \/ ExitPaint \/ ExitOpened \/ Off \/ Locked
           \/ SendLocked \/ LockedTimer
  BY <1>2 DEF ReadyOff, ExitPaint, ExitOpened, Off, Locked, SendLocked,
             LockedTimer
<1>3. CASE TestTimer("ready", "wake", "ready_count")
  BY <1>3 DEF TestTimer
<1>4. CASE TestTimer("locked_test", "send_locked", "locked_count")
  BY <1>4 DEF TestTimer
<1>5. CASE Count("ready_count", "ready_off")
  BY <1>5 DEF Count
<1>6. CASE Count("locked_count", "end")
  BY <1>6 DEF Count
<1>7. CASE End
  BY <1>7 DEF End
<1>8. CASE Store
  BY <1>8 DEF Store
<1>9. CASE FsmStep \/ Lock \/ OnLogout \/ Press
  BY <1>9 DEF FsmStep, Lock, OnLogout, Press
<1>10. CASE PressDone
  BY <1>10 DEF PressDone
<1>11. CASE UNCHANGED displayVars
  BY <1>11 DEF displayVars
<1>12. QED
  BY <1>1, <1>2, <1>3, <1>4, <1>5, <1>6, <1>7, <1>8, <1>9, <1>10, <1>11 DEF DisplayNext, Thread

(* Only the READY branch, with nothing left of turn_off, leads to the step    *)
(* that turns the display off.                                               *)
LEMMA NextDark ==
    DisplayTypeOK /\ Loads /\ DarkWhenReady /\ [DisplayNext]_displayVars => DarkWhenReady'
<1> SUFFICES ASSUME DisplayTypeOK, Loads, DarkWhenReady, [DisplayNext]_displayVars
             PROVE DarkWhenReady'
  OBVIOUS
<1> USE AppDisplayAssumption
    DEF AppDisplayAssumption, DisplayTypeOK, Loads, Counting, DarkWhenReady, ReadySteps,
        LockScreens,
        sharedVars, displayThreadVars, Goto
<1>1. CASE FetchBits
  BY <1>1 DEF FetchBits
<1>2. CASE Starting \/ Dispatch
  BY <1>2 DEF Starting, Dispatch
<1>3. CASE TestTimer("ready", "wake", "ready_count")
  BY <1>3 DEF TestTimer
<1>4. CASE TestTimer("locked_test", "send_locked", "locked_count")
  BY <1>4 DEF TestTimer
<1>5. CASE Count("ready_count", "ready_off")
  BY <1>5 DEF Count
<1>6. CASE Count("locked_count", "end")
  BY <1>6 DEF Count
<1>7. CASE Wake
  BY <1>7 DEF Wake
<1>8. CASE ReadyPaint \/ SendReady \/ SendMenu
  BY <1>8 DEF ReadyPaint, SendReady, SendMenu
<1>9. CASE ReadyOff \/ ExitPaint \/ ExitOpened
  BY <1>9 DEF ReadyOff, ExitPaint, ExitOpened
<1>10. CASE Off
  BY <1>10 DEF Off
<1>11. CASE Locked
  BY <1>11 DEF Locked
<1>12. CASE SendLocked
  BY <1>12 DEF SendLocked
<1>13. CASE LockedTimer
  BY <1>13 DEF LockedTimer
<1>14. CASE End
  BY <1>14 DEF End
<1>15. CASE Store
  BY <1>15 DEF Store
<1>16. CASE FsmStep
  BY <1>16 DEF FsmStep
<1>17. CASE Lock \/ OnLogout \/ Press
  BY <1>17 DEF Lock, OnLogout, Press
<1>18. CASE PressDone
  BY <1>18 DEF PressDone
<1>19. CASE UNCHANGED displayVars
  BY <1>19 DEF displayVars
<1>20. QED
  BY <1>1, <1>2, <1>3, <1>4, <1>5, <1>6, <1>7, <1>8, <1>9, <1>10, <1>11, <1>12,
     <1>13, <1>14, <1>15, <1>16, <1>17, <1>18, <1>19
  DEF DisplayNext, Thread

(* While the display is dark, each iteration takes one from both timers, the *)
(* buttons refill turn_off, and lock() only shortens the other.              *)
LEMMA NextLighting == DisplayInv /\ [DisplayNext]_displayVars => Lighting'
<1> SUFFICES ASSUME DisplayInv, [DisplayNext]_displayVars PROVE Lighting'
  OBVIOUS
<1> USE AppDisplayAssumption DEF AppDisplayAssumption, DisplayInv, DisplayTypeOK, Loads,
    Counting, DarkWhenReady, Lighting, LeftToPaint,
        LeftToDark, ReadySteps, LockedSteps, sharedVars, displayThreadVars, Goto
<1>1. CASE FetchBits
  BY <1>1 DEF FetchBits
<1>2. CASE Starting
  BY <1>2 DEF Starting
<1>3. CASE Dispatch
  BY <1>3 DEF Dispatch
<1>4. CASE TestTimer("ready", "wake", "ready_count")
  BY <1>4 DEF TestTimer
<1>5. CASE Count("ready_count", "ready_off")
  BY <1>5 DEF Count
<1>6. CASE Wake
  <2>1. ~lcd_on' => turn_off = 0
    BY <1>6, Zenon DEF Wake
  <2>2. d_at' # "store" /\ turn_off' = turn_off
    BY <1>6 DEF Wake
  <2>3. QED
    BY <2>1, <2>2
<1>7. CASE ReadyPaint
  BY <1>7 DEF ReadyPaint
<1>8. CASE SendReady
  BY <1>8 DEF SendReady
<1>9. CASE SendMenu
  BY <1>9 DEF SendMenu
<1>10. CASE ReadyOff
  BY <1>10 DEF ReadyOff
<1>11. CASE ExitPaint
  BY <1>11 DEF ExitPaint
<1>12. CASE ExitOpened
  BY <1>12 DEF ExitOpened
<1>13. CASE Off
  BY <1>13 DEF Off
<1>14. CASE Locked
  BY <1>14 DEF Locked
<1>15. CASE TestTimer("locked_test", "send_locked", "locked_count")
  BY <1>15 DEF TestTimer
<1>16. CASE Count("locked_count", "end")
  BY <1>16 DEF Count
<1>17. CASE SendLocked
  BY <1>17 DEF SendLocked
<1>18. CASE LockedTimer
  BY <1>18 DEF LockedTimer
<1>19. CASE End
  BY <1>19 DEF End
<1>20. CASE Store
  BY <1>20 DEF Store
<1>21. CASE FsmStep
  BY <1>21 DEF FsmStep
<1>22. CASE Lock
  BY <1>22 DEF Lock
<1>23. CASE OnLogout
  BY <1>23 DEF OnLogout
<1>24. CASE Press
  BY <1>24 DEF Press
<1>25. CASE PressDone
  BY <1>25 DEF PressDone
<1>26. CASE UNCHANGED displayVars
  BY <1>26 DEF displayVars
<1>27. QED
  BY <1>1, <1>2, <1>3, <1>4, <1>5, <1>6, <1>7, <1>8, <1>9, <1>10, <1>11, <1>12, <1>13,
     <1>14, <1>15, <1>16, <1>17, <1>18, <1>19, <1>20, <1>21, <1>22, <1>23, <1>24, <1>25, <1>26
  DEF DisplayNext, Thread

(* A lock that comes while the READY branch is under way leaves at most a    *)
(* second in generic_timer, and each iteration takes one from it.            *)
LEMMA NextLocking == DisplayInv /\ [DisplayNext]_displayVars => Locking'
<1> SUFFICES ASSUME DisplayInv, [DisplayNext]_displayVars PROVE Locking'
  OBVIOUS
<1> USE AppDisplayAssumption DEF AppDisplayAssumption, DisplayInv, DisplayTypeOK, Loads,
    Counting, DarkWhenReady, Locking, LeftToPaint,
        Shown, LockScreens, ReadySteps, LockedSteps, sharedVars, displayThreadVars, Goto
<1>1. CASE FetchBits
  BY <1>1 DEF FetchBits
<1>2. CASE Starting
  BY <1>2 DEF Starting
<1>3. CASE Dispatch
  BY <1>3 DEF Dispatch
<1>4. CASE TestTimer("ready", "wake", "ready_count")
  BY <1>4 DEF TestTimer
<1>5. CASE Count("ready_count", "ready_off")
  BY <1>5 DEF Count
<1>6. CASE Wake
  BY <1>6 DEF Wake
<1>7. CASE ReadyPaint
  BY <1>7 DEF ReadyPaint
<1>8. CASE SendReady
  BY <1>8 DEF SendReady
<1>9. CASE SendMenu
  BY <1>9 DEF SendMenu
<1>10. CASE ReadyOff
  BY <1>10 DEF ReadyOff
<1>11. CASE ExitPaint
  BY <1>11 DEF ExitPaint
<1>12. CASE ExitOpened
  BY <1>12 DEF ExitOpened
<1>13. CASE Off
  BY <1>13 DEF Off
<1>14. CASE Locked
  BY <1>14 DEF Locked
<1>15. CASE TestTimer("locked_test", "send_locked", "locked_count")
  BY <1>15 DEF TestTimer
<1>16. CASE Count("locked_count", "end")
  BY <1>16 DEF Count
<1>17. CASE SendLocked
  BY <1>17 DEF SendLocked
<1>18. CASE LockedTimer
  BY <1>18 DEF LockedTimer
<1>19. CASE End
  BY <1>19 DEF End
<1>20. CASE Store
  BY <1>20 DEF Store
<1>21. CASE FsmStep
  BY <1>21 DEF FsmStep
<1>22. CASE Lock
  BY <1>22 DEF Lock
<1>23. CASE OnLogout
  BY <1>23 DEF OnLogout
<1>24. CASE Press
  BY <1>24 DEF Press
<1>25. CASE PressDone
  BY <1>25 DEF PressDone
<1>26. CASE UNCHANGED displayVars
  BY <1>26 DEF displayVars
<1>27. QED
  BY <1>1, <1>2, <1>3, <1>4, <1>5, <1>6, <1>7, <1>8, <1>9, <1>10, <1>11, <1>12, <1>13,
     <1>14, <1>15, <1>16, <1>17, <1>18, <1>19, <1>20, <1>21, <1>22, <1>23, <1>24, <1>25, <1>26
  DEF DisplayNext, Thread

-----------------------------------------------------------------------------
(* Theorems. *)

LEMMA InitDisplayInv == DisplayInit => DisplayInv
<1> SUFFICES ASSUME DisplayInit PROVE DisplayInv
  OBVIOUS
<1> USE AppDisplayAssumption DEF AppDisplayAssumption, DisplayInit
<1>1. /\ locked \in BOOLEAN /\ opened \in BOOLEAN /\ do_paint \in BOOLEAN
      /\ lcd_on \in BOOLEAN /\ blink \in BOOLEAN /\ pressed \in BOOLEAN
  BY Zenon
<1>2. DisplayTypeOK
  BY <1>1 DEF DisplayTypeOK, Fsm, Step, LockScreens
<1>3. Loads /\ DarkWhenReady
  BY DEF Loads, Counting, DarkWhenReady, ReadySteps
<1>4. Lighting /\ Locking
  <2>1. lcd_on /\ ~locked
    BY Zenon
  <2>2. QED
    BY <2>1 DEF Lighting, Locking
<1>5. QED
  BY <1>2, <1>3, <1>4 DEF DisplayInv

LEMMA NextDisplayInv == DisplayInv /\ [DisplayNext]_displayVars => DisplayInv'
  BY NextTypeOK, NextLoads, NextDark, NextLighting, NextLocking DEF DisplayInv

(* Every variable keeps its type, the timers of the thread among them.       *)
THEOREM TypeCorrect == DisplaySpec => []DisplayTypeOK
<1>1. DisplayInv => DisplayTypeOK
  BY DEF DisplayInv
<1>2. QED
  BY <1>1, InitDisplayInv, NextDisplayInv, PTL DEF DisplaySpec

(* A dark display lights up within a second of a button or a lock, whatever  *)
(* the timers were at (app-display-handler.cpp:325-371, 439-442).            *)
THEOREM LightsUpCorrect == DisplaySpec => []LightsUp
<1>1. DisplayInv => LightsUp
  <2> SUFFICES ASSUME DisplayInv, ~lcd_on, turn_off > 0
               PROVE  turn_off + OneSec + 1 >= Full
    BY DEF LightsUp
  <2> USE AppDisplayAssumption
      DEF AppDisplayAssumption, DisplayInv, DisplayTypeOK, Loads, Lighting, LeftToDark,
          LeftToPaint, Counting, LockedSteps
  <2>1. CASE d_at = "store"
    BY <2>1
  <2>2. CASE d_at # "store"
    BY <2>2
  <2>3. QED
    BY <2>1, <2>2
<1>2. QED
  BY <1>1, InitDisplayInv, NextDisplayInv, PTL DEF DisplaySpec

(* A lock is on the display at most a second and an iteration after lock(),  *)
(* wherever in the thread's iteration it came                                *)
(* (app-display-handler.cpp:418-433, 465-469).                               *)
THEOREM LockIsShownCorrect == DisplaySpec => []LockIsShown
<1>1. DisplayInv => LockIsShown
  <2> SUFFICES ASSUME DisplayInv, locked, ~Shown
               PROVE  unshown <= OneSec + 1
    BY DEF LockIsShown
  <2> USE AppDisplayAssumption
      DEF AppDisplayAssumption, DisplayInv, DisplayTypeOK, Loads, DarkWhenReady, Locking,
          LeftToPaint, Counting, ReadySteps, LockedSteps, Step, Shown
  <2>1. CASE d_at \in ReadySteps \cup {"end", "send_locked", "locked_timer"}
    BY <2>1
  <2>2. CASE d_at \in {"store", "fetch", "branch"} \cup LockedSteps
    BY <2>2
  <2>3. QED
    BY <2>1, <2>2
<1>2. QED
  BY <1>1, InitDisplayInv, NextDisplayInv, PTL DEF DisplaySpec

-----------------------------------------------------------------------------
(* The status LED: the inductive invariant. *)

(* What is waiting between two iterations, once a status has been heard: it,  *)
(* or nothing that another one left behind.                                   *)
HeardIsPending ==
    /\ led_at = "settle" => ~heard
    /\ led_at = "switch" /\ heard => led_asked \in {status, curren_status}
    /\ led_at = "switch" /\ repeats > 0 => status \in {"NONE", curren_status, led_asked}

(* After two iterations nothing is left that could replace it. *)
HeardTwiceStays ==
    repeats = 2 => /\ curren_status = led_asked
                   /\ led_at = "switch" => status \in {"NONE", led_asked}

(* A phase of LOADING is what is left of it and what has been seen of it; the *)
(* next one changes the colour.                                              *)
LoadingPhases ==
    curren_status = "LOADING" =>
        /\ led_at = "settle" => /\ rgb = (IF on THEN "green" ELSE "off")
                                /\ steady + timer_on + timer_off <= LoadingTicks
        /\ led_at = "switch" =>
              \/ /\ status = "NONE" /\ rgb = (IF on THEN "green" ELSE "off")
                 /\ steady + timer_on + timer_off < LoadingTicks
              \/ /\ status = "LOADING" /\ rgb = (IF on THEN "off" ELSE "green")
                 /\ steady <= LoadingTicks
              \/ status \notin {"NONE", "LOADING"} /\ steady <= LoadingTicks

(* READY is dark for the iteration in which it has found a dark phase. *)
ReadyDark ==
    curren_status = "READY" /\ rgb = "off" =>
        /\ steady = 0
        /\ \/ led_at = "settle" /\ ~on /\ timer_on = 0 /\ timer_off = 0
           \/ led_at = "switch" /\ on /\ status # "NONE"

LedIndInv == LedInv /\ HeardIsPending /\ HeardTwiceStays /\ LoadingPhases /\ ReadyDark

LEMMA LedTicks ==
    /\ LoadingTicks \in Nat \ {0} /\ WarningTicks \in Nat \ {0}
    /\ ErrorTicks \in Nat \ {0} /\ ReadyTicks \in Nat \ {0}
    /\ SteadyCap \in Nat \ {0}
    /\ \A s \in Status : PhaseTicks(s) \in Nat \ {0} /\ Colour(s) \in {"green", "yellow", "red"}
<1>1. /\ LoadingTicks \in Nat \ {0} /\ WarningTicks \in Nat \ {0}
      /\ ErrorTicks \in Nat \ {0} /\ ReadyTicks \in Nat \ {0}
  BY AppLedAssumption
<1>2. SteadyCap \in Nat \ {0}
  BY <1>1 DEF SteadyCap
<1>3. \A s \in Status : PhaseTicks(s) \in Nat \ {0} /\ Colour(s) \in {"green", "yellow", "red"}
  BY <1>1 DEF PhaseTicks, Colour, Status
<1> QED BY <1>1, <1>2, <1>3

LEMMA LedStarts == LedInit => LedIndInv
<1> SUFFICES ASSUME LedInit PROVE LedIndInv
  OBVIOUS
<1> USE LedTicks DEF LedInit
<1>1. LedTypeOK
  <2>1. (on \in BOOLEAN /\ heard \in BOOLEAN)
    BY DEF LedInit, Status
  <2>2. (status \in Status \cup {"NONE"} /\ curren_status \in Status /\ led_asked \in Status)
    BY DEF LedInit, Status
  <2>3. (timer_on \in Nat /\ timer_off \in Nat)
    BY DEF LedInit, Status
  <2>4. (rgb \in {"off", "green", "yellow", "red"} /\ led_at \in {"switch", "settle"})
    BY DEF LedInit, Status
  <2>5. (repeats \in 0 .. 2 /\ steady \in 0 .. SteadyCap)
    BY DEF LedInit, Status
  <2> QED BY <2>1, <2>2, <2>3, <2>4, <2>5 DEF LedTypeOK
<1>2. ColourTells /\ PhasesAreSeen
  BY DEF ColourTells, PhasesAreSeen
<1>3. HeardIsPending /\ HeardTwiceStays
  BY DEF HeardIsPending, HeardTwiceStays
<1>4. LoadingPhases /\ ReadyDark
  BY DEF LoadingPhases, ReadyDark
<1> QED BY <1>1, <1>2, <1>3, <1>4 DEF LedIndInv, LedInv

LEMMA ShowKeeps == LedIndInv /\ Show => LedIndInv'
<1> SUFFICES ASSUME LedIndInv, Show PROVE LedIndInv'
  OBVIOUS
<1> USE LedTicks DEF LedIndInv, LedInv, LedTypeOK
<1>1. LedTypeOK'
  <2>1. (on \in BOOLEAN /\ heard \in BOOLEAN)'
    BY DEF Show, Seen
  <2>2. (status \in Status \cup {"NONE"} /\ curren_status \in Status /\ led_asked \in Status)'
    BY DEF Show, Seen
  <2>3. (timer_on \in Nat /\ timer_off \in Nat)'
    BY DEF Show, Seen
  <2>4. (rgb \in {"off", "green", "yellow", "red"} /\ led_at \in {"switch", "settle"})'
    BY DEF Show, Seen
  <2>5. (repeats \in 0 .. 2 /\ steady \in 0 .. SteadyCap)'
    BY DEF Show, Seen
  <2> QED BY <2>1, <2>2, <2>3, <2>4, <2>5
<1>2. (ColourTells /\ PhasesAreSeen)'
  BY DEF Show, ColourTells, PhasesAreSeen, Status, Colour, PhaseTicks
<1>3. (HeardIsPending /\ HeardTwiceStays)'
  BY DEF Show, Seen, HeardIsPending, HeardTwiceStays, Status
<1>4. LoadingPhases'
  BY DEF Show, Seen, LoadingPhases, PhasesAreSeen, Status, Colour, PhaseTicks
<1>5. ReadyDark'
  BY DEF Show, Seen, ReadyDark, PhasesAreSeen, Status, Colour, PhaseTicks
<1> QED BY <1>1, <1>2, <1>3, <1>4, <1>5

LEMMA SettleKeeps == LedIndInv /\ Settle => LedIndInv'
<1> SUFFICES ASSUME LedIndInv, Settle PROVE LedIndInv'
  OBVIOUS
<1> USE LedTicks DEF LedIndInv, LedInv, LedTypeOK, askedVars
<1>1. LedTypeOK'
  <2>1. (on \in BOOLEAN /\ heard \in BOOLEAN)'
    BY DEF Settle
  <2>2. (status \in Status \cup {"NONE"} /\ curren_status \in Status /\ led_asked \in Status)'
    BY DEF Settle
  <2>3. (timer_on \in Nat /\ timer_off \in Nat)'
    BY DEF Settle
  <2>4. (rgb \in {"off", "green", "yellow", "red"} /\ led_at \in {"switch", "settle"})'
    BY DEF Settle
  <2>5. (repeats \in 0 .. 2 /\ steady \in 0 .. SteadyCap)'
    BY DEF Settle
  <2> QED BY <2>1, <2>2, <2>3, <2>4, <2>5
<1>2. (ColourTells /\ PhasesAreSeen)'
  BY DEF Settle, ColourTells, PhasesAreSeen, Status, Colour
<1>3. (HeardIsPending /\ HeardTwiceStays)'
  BY DEF Settle, HeardIsPending, HeardTwiceStays, Status
<1>4. LoadingPhases'
  <2> DEFINE Counted == \/ timer_on' = timer_on - 1 /\ timer_off' = timer_off
                        \/ timer_off' = timer_off - 1 /\ timer_on' = timer_on
             Same == /\ UNCHANGED <<rgb, curren_status, steady>>
                     /\ led_at = "settle" /\ led_at' = "switch"
  <2>1. \/ Counted /\ status' = "NONE" /\ UNCHANGED on
        \/ timer_on = 0 /\ timer_off = 0 /\ on' = ~on /\ status' = curren_status
    BY Zenon DEF Settle
  <2>2. Same
    BY Zenon DEF Settle, askedVars
  <2>3. ASSUME Counted, steady + timer_on + timer_off <= LoadingTicks
        PROVE  steady' + timer_on' + timer_off' < LoadingTicks
    <3>1. steady' = steady /\ steady \in Nat /\ timer_on \in Nat /\ timer_off \in Nat
      BY <2>2
    <3> QED BY ONLY <3>1, <2>3, LedTicks
  <2>4. CASE Counted /\ status' = "NONE" /\ UNCHANGED on
    <3> SUFFICES ASSUME curren_status' = "LOADING"
                 PROVE  /\ status' = "NONE" /\ rgb' = (IF on' THEN "green" ELSE "off")
                        /\ steady' + timer_on' + timer_off' < LoadingTicks
      BY <2>2, Zenon DEF LoadingPhases
    <3>1. rgb = (IF on THEN "green" ELSE "off") /\ steady + timer_on + timer_off <= LoadingTicks
      BY <2>2, Zenon DEF LoadingPhases
    <3>2. on' = on /\ rgb' = rgb
      BY <2>2, <2>4
    <3>3. steady' + timer_on' + timer_off' < LoadingTicks
      BY <3>1, <2>3, <2>4, Zenon
    <3>4. rgb' = (IF on' THEN "green" ELSE "off")
      BY ONLY <3>1, <3>2
    <3> QED BY <3>3, <3>4, <2>4, Zenon
  <2>5. CASE timer_on = 0 /\ timer_off = 0 /\ on' = ~on /\ status' = curren_status
    <3> SUFFICES ASSUME curren_status' = "LOADING"
                 PROVE  /\ status' = "LOADING" /\ rgb' = (IF on' THEN "off" ELSE "green")
                        /\ steady' <= LoadingTicks
      BY <2>2, Zenon DEF LoadingPhases
    <3>1. /\ rgb = (IF on THEN "green" ELSE "off") /\ steady + timer_on + timer_off <= LoadingTicks
          /\ rgb' = rgb /\ steady' = steady /\ curren_status' = curren_status
      BY <2>2, Zenon DEF LoadingPhases
    <3>2. steady' <= LoadingTicks
      <4>1. steady \in Nat
        OBVIOUS
      <4> QED BY ONLY <3>1, <2>5, <4>1, LedTicks
    <3>3. rgb' = (IF on' THEN "off" ELSE "green")
      BY ONLY <3>1, <2>5, Zenon
    <3>4. curren_status = "LOADING"
      BY <3>1, Zenon
    <3> QED BY <3>2, <3>3, <3>4, <2>5, Zenon
  <2> QED BY <2>1, <2>4, <2>5
<1>5. ReadyDark'
  BY DEF Settle, ReadyDark, PhasesAreSeen, Status
<1> QED BY <1>1, <1>2, <1>3, <1>4, <1>5

LEMMA AskKeeps == ASSUME LedIndInv, NEW s \in Status, Ask(s) PROVE LedIndInv'
<1> USE LedTicks DEF LedIndInv, LedInv, LedTypeOK
<1>1. LedTypeOK'
  <2>1. (on \in BOOLEAN /\ heard \in BOOLEAN)'
    BY DEF Ask, Asked
  <2>2. (status \in Status \cup {"NONE"} /\ curren_status \in Status /\ led_asked \in Status)'
    BY DEF Ask, Asked
  <2>3. (timer_on \in Nat /\ timer_off \in Nat)'
    BY DEF Ask, Asked
  <2>4. (rgb \in {"off", "green", "yellow", "red"} /\ led_at \in {"switch", "settle"})'
    BY DEF Ask, Asked
  <2>5. (repeats \in 0 .. 2 /\ steady \in 0 .. SteadyCap)'
    BY DEF Ask, Asked
  <2> QED BY <2>1, <2>2, <2>3, <2>4, <2>5
<1>2. (ColourTells /\ PhasesAreSeen)'
  BY DEF Ask, ColourTells, PhasesAreSeen
<1>3. (HeardIsPending /\ HeardTwiceStays)'
  BY DEF Ask, Asked, HeardIsPending, HeardTwiceStays, Status
<1>4. LoadingPhases'
  BY DEF Ask, LoadingPhases, Status
<1>5. ReadyDark'
  BY DEF Ask, ReadyDark, Status
<1> QED BY <1>1, <1>2, <1>3, <1>4, <1>5

(* What is kept of a status between its request and its colour survives      *)
(* every iteration and every call (app-led.cpp:70-201).                      *)
THEOREM LedCorrect == LedSpec => []LedIndInv
<1>1. LedIndInv /\ UNCHANGED ledVars => LedIndInv'
  BY DEF ledVars, askedVars, LedIndInv, LedInv, LedTypeOK, ColourTells, PhasesAreSeen,
         HeardIsPending, HeardTwiceStays, LoadingPhases, ReadyDark
<1>2. LedIndInv /\ [LedNext]_ledVars => LedIndInv'
  BY <1>1, ShowKeeps, SettleKeeps, AskKeeps DEF LedNext, LedThread
<1> QED BY LedStarts, <1>2, PTL DEF LedSpec

(* The colour tells the status, and a phase is seen for what it is counted   *)
(* down from (app-led.cpp:121-156).                                          *)
THEOREM LedShows == LedSpec => []LedInv
<1>1. LedIndInv => LedInv
  BY DEF LedIndInv
<1> QED BY LedCorrect, <1>1, PTL

(* LOADING never stops blinking and READY is hardly ever dark, for every     *)
(* length of their phases (app-led.cpp:77-89, 121-134, 139-153).             *)
THEOREM LedBlinks == LedSpec => []BlinkingTells
<1>1. LedIndInv => BlinkingTells
  BY LedTicks DEF LedIndInv, LedInv, LedTypeOK, LoadingPhases, ReadyDark, BlinkingTells
<1> QED BY LedCorrect, <1>1, PTL

(* A status asked for in two iterations is shown, whatever was asked for and *)
(* lost in between (app-led.cpp:139-153, 164-201).                           *)
THEOREM LedListens == LedSpec => []LastAskedIsShown
<1>1. LedIndInv => LastAskedIsShown
  BY DEF LedIndInv, HeardTwiceStays, LastAskedIsShown
<1> QED BY LedCorrect, <1>1, PTL

-----------------------------------------------------------------------------
(* The zones. *)

(* Up to the first zone that is out of order, and the first id that is not of *)
(* the table, what is set is what is counted.                                *)
ZonesInv ==
    /\ zones_len \in 0 .. Zones + 1 /\ zones_set \subseteq 0 .. Zones - 1
    /\ ~beyond => /\ zones_len <= Zones /\ 0 .. zones_len - 1 \subseteq zones_set
                  /\ ~gap /\ ~outside => zones_set = 0 .. zones_len - 1

(* An index is a byte; that of a zone of the table is its id. *)
LEMMA ZoneIndexes ==
    ASSUME NEW id \in Int
    PROVE  ZoneIndex(id) \in 0 .. 255 /\ (id \in 0 .. 255 => ZoneIndex(id) = id)
BY DEF ZoneIndex

(* What is counted of the zones has been set, for every number of zones,     *)
(* every set of ids of either sign and any size, and every order of them;    *)
(* and all that is set is counted while none was outside of the table or     *)
(* before a smaller one (app-data.cpp:355-371, 461).                         *)
THEOREM ZonesCorrect == ZonesSpec => []CountedIsSet
<1> USE AppZonesAssumption
<1>1. ZonesInit => ZonesInv
  BY DEF ZonesInit, ZonesInv
<1>2. ASSUME ZonesInv, NEW id \in ZoneIds, SetZone(id) PROVE ZonesInv'
  <2> DEFINE idx == ZoneIndex(id)
  <2>0. id \in Int /\ idx \in 0 .. 255 /\ (id \in 0 .. 255 => idx = id)
    BY ZoneIndexes
  <2> HIDE DEF idx
  <2>1. /\ zones_len' = IF id = zones_len THEN zones_len + 1 ELSE zones_len
        /\ zones_set' = zones_set \cup ({idx} \cap (0 .. Zones - 1))
        /\ zones_len \in 0 .. Zones + 1 /\ zones_len <= Zones
        /\ zones_set \subseteq 0 .. Zones - 1 /\ 0 .. zones_len - 1 \subseteq zones_set
    BY <1>2, Zenon DEF SetZone, ZonesInv, idx
  <2>2. (zones_len \in 0 .. Zones + 1 /\ zones_set \subseteq 0 .. Zones - 1)'
    BY <2>0, <2>1
  <2>3. ~beyond' => idx < Zones
    <3>1. ~beyond' => ~(idx >= Zones)
      BY <1>2, Zenon DEF SetZone, idx
    <3> QED BY <3>1, <2>0
  <2>4. ASSUME idx < Zones PROVE (zones_len <= Zones /\ 0 .. zones_len - 1 \subseteq zones_set)'
    <3>0. id = zones_len => idx = id
      BY <2>0, <2>1
    <3>1. zones_len' <= Zones
      BY <2>0, <2>1, <2>4, <3>0
    <3>2. ASSUME NEW i \in 0 .. zones_len' - 1 PROVE i \in zones_set'
      <4>1. i \in 0 .. zones_len - 1 \/ (i = idx /\ idx \in 0 .. Zones - 1)
        BY <2>0, <2>1, <2>4, <3>0
      <4> QED BY <2>1, <4>1
    <3> QED BY <3>1, <3>2
  <2>5. ~beyond' /\ ~gap' /\ ~outside' =>
            0 .. idx - 1 \subseteq zones_set /\ zones_set = 0 .. zones_len - 1 /\ id \in 0 .. Zones - 1
    BY <1>2, Zenon DEF SetZone, ZonesInv, idx
  <2>6. ASSUME id \in 0 .. Zones - 1, 0 .. idx - 1 \subseteq zones_set, zones_set = 0 .. zones_len - 1
        PROVE  zones_set' = 0 .. zones_len' - 1
    <3>0. idx = id
      BY <2>0, <2>6
    <3>1. id <= zones_len
      <4>1. CASE id > 0
        <5>1. id - 1 \in 0 .. zones_len - 1
          BY <2>6, <3>0, <4>1
        <5> QED BY <5>1, <2>0, <2>1
      <4> QED BY <4>1, <2>0, <2>1
    <3>2. \A i : i \in zones_set' <=> i \in 0 .. zones_len' - 1
      BY <3>0, <3>1, <2>1, <2>6
    <3> QED BY <3>2
  <2> QED BY <2>2, <2>3, <2>4, <2>5, <2>6, Zenon DEF ZonesInv
<1>3. ZonesInv /\ UNCHANGED zoneVars => ZonesInv'
  BY DEF ZonesInv, zoneVars
<1>4. ZonesInv => CountedIsSet
  <2> SUFFICES ASSUME ZonesInv, ~beyond, ~gap, ~outside
               PROVE  zones_len = Cardinality(zones_set) /\ \A id \in zones_set : Readable(id)
    BY DEF ZonesInv, CountedIsSet
  <2>1. Cardinality(0 .. zones_len - 1) =
            IF 0 > zones_len - 1 THEN 0 ELSE zones_len - 1 - 0 + 1
    BY FS_Interval DEF ZonesInv
  <2> QED BY <2>1 DEF ZonesInv, Readable
<1>5. ZonesInv /\ [ZonesNext]_zoneVars => ZonesInv'
  BY <1>2, <1>3 DEF ZonesNext
<1> QED BY <1>1, <1>4, <1>5, PTL DEF ZonesSpec

-----------------------------------------------------------------------------
(* The schedules. *)

\* The members of a schedule, in no order.
MemberNames == {"minute", "hour", "days", "months", "status"}

\* setting is between two of its five assignments.
SchedulesTypeOK ==
    /\ schedules \in [Ids -> Schedule] /\ schedules_set \in [Ids -> Request]
    /\ \/ setting = NotSetting
       \/ setting \in [id : Ids, done : 0 .. 4, asked : Request]

\* Only the schedule being set differs from what its last request assigns.
OthersAsSet == \A id \in Ids : id # setting.id => schedules[id] = AsAssigned(schedules_set[id])

(* Of the schedule being set, the members done are those of the request, and *)
(* it is not active unless it was when that began.                           *)
PartlySet ==
    setting # NotSetting =>
        /\ \A k \in 1 .. 5 : k <= setting.done =>
               schedules[setting.id][Members[k]] = AsAssigned(setting.asked)[Members[k]]
        /\ setting.id \notin changed_live => schedules[setting.id].status # "ACTIVE"

\* What was found due is active, and nothing has been assigned since.
FoundActive ==
    due # NotLooking => /\ due.id \in Ids /\ due.found = schedules[due.id]
                        /\ due.found.status = "ACTIVE"

SchedulesInv == SchedulesTypeOK /\ OthersAsSet /\ PartlySet /\ FoundActive

LEMMA ScheduleTypes ==
    /\ Unset \in Schedule /\ Schedules \notin Ids /\ Ids \subseteq Nat /\ Ids \subseteq 0 .. 254
    /\ NotSetting.id = Schedules /\ NotSetting.done = 0
    /\ Unasked \in Request /\ AsAssigned(Unasked) = Unset
BY AppSchedulesAssumption DEF Unset, Unasked, NotSetting, Schedule, Request, AsAssigned,
   ScheduleStatus, Ids, NotSet8, NotSet16, Byte8, Word16

\* Whatever numbers a request has, its members get values of their width.
LEMMA AssignedFits == ASSUME NEW r \in Request PROVE AsAssigned(r) \in Schedule
<1>1. /\ r.id \in Int /\ r.hour \in Int /\ r.days \in Int /\ r.months \in Int
      /\ r.status \in ScheduleStatus
  BY DEF Request
<1>2. \A n \in Int : n % 256 \in Byte8 /\ n % 65536 \in Word16
  BY DEF Byte8, Word16
<1>3. /\ r.id % 256 \in Byte8 /\ r.hour % 256 \in Byte8 /\ r.days % 256 \in Byte8
      /\ r.months % 65536 \in Word16 /\ r.status \in ScheduleStatus
  BY <1>1, <1>2
<1> QED BY <1>3 DEF AsAssigned, Schedule

\* What is assigned is as it was asked, but for the minute.
LEMMA AssignedAsAsked == ASSUME NEW r PROVE IsAsAsked(AsAssigned(r), r)
BY DEF IsAsAsked, AsAssigned

LEMMA SameMembers ==
    ASSUME NEW s \in Schedule, NEW n \in Schedule, \A k \in MemberNames : s[k] = n[k] PROVE s = n
BY DEF Schedule, MemberNames

LEMMA Assigned ==
    ASSUME NEW f \in [Ids -> Schedule], NEW i \in Ids, NEW n \in Schedule, NEW m \in MemberNames,
           NEW g, g = [f EXCEPT ![i][m] = n[m]]
    PROVE  /\ g \in [Ids -> Schedule]
           /\ \A j \in Ids : j # i => g[j] = f[j]
           /\ \A k \in MemberNames : g[i][k] = IF k = m THEN n[m] ELSE f[i][k]
<1>1. [f[i] EXCEPT ![m] = n[m]] \in Schedule
  BY DEF Schedule, MemberNames
<1>2. \A k \in MemberNames : [f[i] EXCEPT ![m] = n[m]][k] = IF k = m THEN n[m] ELSE f[i][k]
  BY DEF Schedule, MemberNames
<1>3. g = [f EXCEPT ![i] = [f[i] EXCEPT ![m] = n[m]]]
  OBVIOUS
<1> QED BY <1>1, <1>2, <1>3

LEMMA SchedulesStart == SchedulesInit => SchedulesInv
<1> SUFFICES ASSUME SchedulesInit PROVE SchedulesInv
  OBVIOUS
<1>1. SchedulesTypeOK
  BY ScheduleTypes DEF SchedulesInit, SchedulesTypeOK
<1>2. OthersAsSet /\ PartlySet /\ FoundActive
  BY ScheduleTypes DEF SchedulesInit, OthersAsSet, PartlySet, FoundActive
<1> QED BY <1>1, <1>2 DEF SchedulesInv

LEMMA MinOfOne == ASSUME NEW m \in Nat PROVE Min({m}) = m
BY DEF Min

LEMMA LookKeeps == SchedulesInv /\ ReadyLooks => SchedulesInv'
<1> SUFFICES ASSUME SchedulesInv, ReadyLooks PROVE SchedulesInv'
  OBVIOUS
<1>1. (SchedulesTypeOK /\ OthersAsSet /\ PartlySet)'
  BY DEF ReadyLooks, SchedulesInv, SchedulesTypeOK, OthersAsSet, PartlySet
<1>2. FoundActive'
  <2> DEFINE ids(now) == {id \in Considered(now) : id = Min(Considered(now))
                                                   /\ MeetsDate(schedules[id], now)}
  <2>1. PICK now \in Moments :
            /\ due' = IF ids(now) = {} THEN NotLooking
                      ELSE [id |-> Min(ids(now)), found |-> schedules[Min(ids(now))], now |-> now]
            /\ schedules' = schedules
    BY DEF ReadyLooks
  <2>2. CASE ids(now) = {}
    BY <2>1, <2>2 DEF FoundActive
  <2>3. ASSUME NEW m \in ids(now) PROVE FoundActive'
    <3>1. m \in Ids /\ m \in Nat /\ schedules[m].status = "ACTIVE" /\ ids(now) = {m}
      BY ScheduleTypes DEF Considered
    <3>2. due' = [id |-> m, found |-> schedules[m], now |-> now]
      BY <2>1, <3>1, MinOfOne
    <3> QED BY <2>1, <3>1, <3>2 DEF FoundActive
  <2> QED BY <2>2, <2>3
<1> QED BY <1>1, <1>2 DEF SchedulesInv

LEMMA BeginKeeps == SchedulesInv /\ BeginSetSchedule => SchedulesInv'
<1> SUFFICES ASSUME SchedulesInv, BeginSetSchedule PROVE SchedulesInv'
  OBVIOUS
<1>1. FoundActive'
  BY DEF BeginSetSchedule, FoundActive
<1>2. \A i \in Ids : schedules'[i] = AsAssigned(schedules_set'[i])
  BY ScheduleTypes DEF BeginSetSchedule, SchedulesInv, OthersAsSet
<1>3. PICK r \in Requests :
          setting' = IF r.id % 256 \in Ids THEN [id |-> r.id % 256, done |-> 0, asked |-> r]
                     ELSE setting
  BY DEF BeginSetSchedule
<1> DEFINE id == r.id % 256
<1>4. SchedulesTypeOK'
  <2>1. r \in Request
    BY AppSchedulesAssumption
  <2> QED BY <1>3, <2>1 DEF BeginSetSchedule, SchedulesInv, SchedulesTypeOK
<1>5. PartlySet'
  <2>1. CASE id \in Ids
    <3>1. setting'.done = 0 /\ setting'.id = id
      BY <1>3, <2>1
    <3>2. id \notin changed_live' => schedules'[id].status # "ACTIVE"
      BY <3>1, <2>1 DEF BeginSetSchedule
    <3> QED BY <3>1, <3>2 DEF PartlySet
  <2>2. CASE id \notin Ids
    BY <1>3, <2>2 DEF BeginSetSchedule, PartlySet
  <2> QED BY <2>1, <2>2
<1> QED BY <1>1, <1>2, <1>4, <1>5 DEF SchedulesInv, OthersAsSet

LEMMA AssignKeeps == SchedulesInv /\ AssignMember => SchedulesInv'
<1> SUFFICES ASSUME SchedulesInv, AssignMember PROVE SchedulesInv'
  OBVIOUS
<1> DEFINE id == setting.id
           new == AsAssigned(setting.asked)
           member == Members[setting.done + 1]
<1>1. /\ setting \in [id : Ids, done : 0 .. 4, asked : Request] /\ setting # NotSetting
      /\ id \in Ids /\ setting.asked \in Request /\ new \in Schedule /\ setting.done \in 0 .. 4
  BY AssignedFits DEF SchedulesInv, SchedulesTypeOK, AssignMember
<1>2. FoundActive'
  BY DEF AssignMember, FoundActive
<1>3. schedules' = [schedules EXCEPT ![id][member] = new[member]]
  BY DEF AssignMember
<1>4. /\ member \in {"minute", "hour", "days", "months", "status"}
      /\ member = "status" <=> setting.done = 4
      /\ \A k \in 1 .. 5 : k = setting.done + 1 => Members[k] = member
      /\ Len(Members) = 5
  BY <1>1 DEF Members
<1>5. /\ schedules' \in [Ids -> Schedule]
      /\ \A i \in Ids : i # id => schedules'[i] = schedules[i]
      /\ \A m \in MemberNames : schedules'[id][m] = IF m = member THEN new[m] ELSE schedules[id][m]
  <2>1. schedules \in [Ids -> Schedule] /\ member \in MemberNames
    BY <1>4 DEF SchedulesInv, SchedulesTypeOK, MemberNames
  <2>2. id \in Ids /\ new \in Schedule
    BY <1>1
  <2> HIDE DEF id, new, member
  <2>3. /\ \A g : g = [schedules EXCEPT ![id][member] = new[member]]
                => /\ g \in [Ids -> Schedule]
                   /\ \A i \in Ids : i # id => g[i] = schedules[i]
                   /\ \A m \in MemberNames :
                          g[id][m] = IF m = member THEN new[member] ELSE schedules[id][m]
    BY <2>1, <2>2, Assigned
  <2> QED BY <1>3, <2>3
<1>6. /\ \A k \in 1 .. 5 : k <= setting.done + 1 => schedules'[id][Members[k]] = new[Members[k]]
      /\ \A i \in Ids : i # id => schedules'[i] = schedules[i]
  <2>2. \A k \in 1 .. 5 : Members[k] \in MemberNames
    BY DEF Members, MemberNames
  <2>3. \A k \in 1 .. 5 : k <= setting.done => schedules[id][Members[k]] = new[Members[k]]
    BY <1>1 DEF SchedulesInv, PartlySet
  <2>4. ASSUME NEW k \in 1 .. 5, k <= setting.done + 1
        PROVE  schedules'[id][Members[k]] = new[Members[k]]
    BY <1>5, <2>2, <2>3, <2>4, <1>1, <1>4
  <2> QED BY <1>5, <2>4
<1>7. CASE setting.done + 1 < Len(Members)
  <2>1. /\ setting' = [setting EXCEPT !.done = @ + 1]
        /\ UNCHANGED <<schedules_set, changed_live>>
    BY <1>7 DEF AssignMember
  <2>2. /\ setting' \in [id : Ids, done : 0 .. 4, asked : Request]
        /\ setting'.id = id /\ setting'.asked = setting.asked /\ setting'.done = setting.done + 1
    BY <1>1, <1>4, <1>7, <2>1
  <2>3. SchedulesTypeOK'
    BY <1>5, <2>1, <2>2 DEF SchedulesInv, SchedulesTypeOK
  <2>4. OthersAsSet'
    BY <1>6, <2>1, <2>2 DEF SchedulesInv, OthersAsSet
  <2>5. id \notin changed_live => schedules'[id].status # "ACTIVE"
    <3>1. member # "status"
      BY <1>4, <1>7
    <3>2. schedules'[id].status = schedules[id].status
      BY <3>1, <1>5 DEF MemberNames
    <3> QED BY <3>2, <1>1 DEF SchedulesInv, PartlySet
  <2>6. PartlySet'
    BY <1>6, <2>1, <2>2, <2>5 DEF PartlySet
  <2> QED BY <1>2, <2>3, <2>4, <2>6 DEF SchedulesInv
<1>8. CASE ~(setting.done + 1 < Len(Members))
  <2>1. setting' = NotSetting /\ schedules_set' = [schedules_set EXCEPT ![id] = setting.asked]
    BY <1>8 DEF AssignMember
  <2>2. SchedulesTypeOK' /\ PartlySet'
    BY <1>1, <1>5, <2>1 DEF SchedulesInv, SchedulesTypeOK, PartlySet
  <2>3. schedules'[id] = new
    <3>1. setting.done = 4
      BY <1>1, <1>4, <1>8
    <3>2. \A m \in MemberNames : schedules'[id][m] = new[m]
      <4>1. \A k \in 1 .. 5 : schedules'[id][Members[k]] = new[Members[k]]
        BY <1>6, <3>1
      <4>2. /\ Members[1] = "minute" /\ Members[2] = "hour" /\ Members[3] = "days"
            /\ Members[4] = "months" /\ Members[5] = "status"
        BY DEF Members
      <4> QED BY <4>1, <4>2 DEF MemberNames
    <3>3. schedules'[id] \in Schedule /\ new \in Schedule
      BY <1>1, <1>5
    <3> QED BY <3>2, <3>3, SameMembers
  <2>4. OthersAsSet'
    BY <1>1, <1>6, <2>1, <2>3 DEF SchedulesInv, SchedulesTypeOK, OthersAsSet
  <2> QED BY <1>2, <2>2, <2>4 DEF SchedulesInv
<1> QED BY <1>7, <1>8

(* A schedule half set is not active, and the others are what their last     *)
(* requests assign, the id for the minute (app-data.cpp:208, 263-273).       *)
THEOREM SchedulesCorrect == SchedulesSpec => []SchedulesInv
<1>1. SchedulesInv /\ UNCHANGED scheduleVars => SchedulesInv'
  BY DEF SchedulesInv, SchedulesTypeOK, OthersAsSet, PartlySet, FoundActive, scheduleVars
<1>2. SchedulesInv /\ [SchedulesNext]_scheduleVars => SchedulesInv'
  BY <1>1, LookKeeps, BeginKeeps, AssignKeeps DEF SchedulesNext
<1> QED BY SchedulesStart, <1>2, PTL DEF SchedulesSpec

(* A schedule found due is of one request, as it was asked but for the        *)
(* minute, unless it was changed while it was active; for every table and    *)
(* moment and requests with any numbers (app-data.cpp:142-273).              *)
THEOREM DueIsOfOneRequest == SchedulesSpec => []DueIsWhole
<1>1. SchedulesInv => DueIsWhole
  <2> SUFFICES ASSUME SchedulesInv PROVE DueIsWhole
    OBVIOUS
  <2>1. ASSUME due # NotLooking, due.id \notin changed_live
        PROVE  IsAsAsked(due.found, schedules_set[due.id])
    <3>1. due.id \in Ids /\ due.found = schedules[due.id] /\ due.found.status = "ACTIVE"
      BY <2>1 DEF SchedulesInv, FoundActive
    <3>2. due.id # setting.id
      <4> SUFFICES ASSUME due.id = setting.id PROVE FALSE
        OBVIOUS
      <4>1. setting # NotSetting
        BY <3>1, ScheduleTypes
      <4> QED BY <2>1, <3>1, <4>1 DEF SchedulesInv, PartlySet
    <3>3. due.found = AsAssigned(schedules_set[due.id])
      BY <3>1, <3>2 DEF SchedulesInv, OthersAsSet
    <3> QED BY <3>3, AssignedAsAsked
  <2>2. ASSUME setting = NotSetting, NEW id \in Ids
        PROVE  IsAsAsked(GetSchedule(id), schedules_set[id])
    <3>1. GetSchedule(id) = AsAssigned(schedules_set[id])
      BY <2>2, ScheduleTypes DEF SchedulesInv, OthersAsSet, GetSchedule
    <3> QED BY <3>1, AssignedAsAsked
  <2> QED BY <2>1, <2>2 DEF DueIsWhole
<1> QED BY SchedulesCorrect, <1>1, PTL

-----------------------------------------------------------------------------
(* The LCD. *)

\* A send starts with the first page, whatever an earlier one left behind.
Sh1106TypeOK ==
    /\ frame \in [Page -> [Column -> {0, 1}]] /\ panel \in [Page -> [Column -> {0, 1}]]
    /\ send_at \in {"init", "idle", "column", "page", "row", "done"}
    /\ send_page \in Page /\ panel_page \in Page /\ panel_col \in Column
    /\ send_at = "column" => send_page = 0

\* A page of the panel shows the frame, or what was there before it was cleaned.
Shows(p) ==
    \A c \in Column : panel[p][c] = frame[p][c] \/ (cleaned /\ p # 0 /\ frame[p][c] = 0)

\* As long as nothing has failed, the panel writes where the frame is, and shows what was sent.
SentSoFar ==
    /\ send_at \in {"page", "row"} => panel_col = 0 /\ \A p \in Page : p < send_page => Shows(p)
    /\ send_at = "row" => panel_page = send_page
    /\ send_at = "done" => \A p \in Page : Shows(p)

Sh1106Inv == Sh1106TypeOK /\ (send_failed \/ SentSoFar)

LEMMA Rotation ==
    ASSUME NEW c \in Column PROVE (c + Columns - 0) % Columns = c /\ (0 + Columns) % Columns = 0
BY PicoSh1106Assumption DEF Column

LEMMA Modulo == ASSUME NEW k \in Nat PROVE k % Columns \in Column
BY PicoSh1106Assumption DEF Column

LEMMA Sh1106Starts == Sh1106Init => Sh1106Inv
<1> SUFFICES ASSUME Sh1106Init PROVE Sh1106Inv
  OBVIOUS
<1>1. 0 \in Page
  BY PicoSh1106Assumption DEF Page
<1>2. Sh1106TypeOK
  BY <1>1 DEF Sh1106Init, Sh1106TypeOK, Blank
<1>3. SentSoFar
  BY DEF Sh1106Init, SentSoFar
<1> QED BY <1>2, <1>3 DEF Sh1106Inv

\* A row that was written, all of it or some.
LEMMA RowTypes ==
    ASSUME Sh1106TypeOK, NEW n \in Nat, WriteRow(n)
    PROVE  panel' \in [Page -> [Column -> {0, 1}]] /\ panel_col' \in Column
<1>1. ASSUME NEW c \in Column PROVE (c + Columns - panel_col) % Columns \in Column
  <2>1. c + Columns - panel_col \in Nat
    BY PicoSh1106Assumption DEF Sh1106TypeOK, Column
  <2> QED BY <2>1, Modulo
<1>2. panel_col' \in Column
  <2>1. panel_col + n \in Nat /\ panel_col' = (panel_col + n) % Columns
    BY DEF Sh1106TypeOK, Column, WriteRow
  <2> QED BY <2>1, Modulo
<1>3. ASSUME NEW c \in Column
      PROVE  (LET k == (c + Columns - panel_col) % Columns
              IN IF k < n THEN frame[send_page][k] ELSE panel[panel_page][c]) \in {0, 1}
  BY <1>1 DEF Sh1106TypeOK
<1> QED BY <1>2, <1>3 DEF Sh1106TypeOK, WriteRow

LEMMA WholeRow ==
    ASSUME Sh1106TypeOK, panel_col = 0, WriteRow(Columns)
    PROVE  /\ panel_col' = 0
           /\ \A c \in Column : panel'[panel_page][c] = frame[send_page][c]
           /\ \A p \in Page : p # panel_page => panel'[p] = panel[p]
<1>1. panel_col' = 0
  <2>1. 0 \in Column
    BY PicoSh1106Assumption DEF Column
  <2> QED BY <2>1, Rotation DEF WriteRow
<1>2. ASSUME NEW c \in Column
      PROVE  (LET k == (c + Columns - panel_col) % Columns
              IN IF k < Columns THEN frame[send_page][k] ELSE panel[panel_page][c])
             = frame[send_page][c]
  <2>1. (c + Columns - panel_col) % Columns = c /\ c < Columns
    BY Rotation, PicoSh1106Assumption DEF Column
  <2> QED BY <2>1
<1> QED BY <1>1, <1>2 DEF Sh1106TypeOK, WriteRow

LEMMA RowKeeps == Sh1106Inv /\ SendRow => Sh1106Inv'
<1> SUFFICES ASSUME Sh1106Inv, SendRow PROVE Sh1106Inv'
  OBVIOUS
<1>1. /\ send_at = "row" /\ frame' = frame /\ panel_page' = panel_page /\ cleaned' = cleaned
      /\ \/ send_page + 1 < Pages /\ send_at' = "page" /\ send_page' = send_page + 1
         \/ send_page + 1 >= Pages /\ send_at' = "done" /\ send_page' = 0
  BY PicoSh1106Assumption DEF SendRow, Sh1106Inv, Sh1106TypeOK, Page
<1>2. \E n \in Nat : WriteRow(n)
  BY PicoSh1106Assumption DEF SendRow, Transfer
<1>3. Sh1106TypeOK'
  BY <1>1, <1>2, RowTypes, PicoSh1106Assumption DEF Sh1106Inv, Sh1106TypeOK, Page
<1>4. ASSUME ~send_failed' PROVE SentSoFar'
  <2>1. ~send_failed /\ WriteRow(Columns)
    BY <1>4 DEF SendRow, Transfer
  <2>2. /\ Sh1106TypeOK /\ panel_col = 0 /\ panel_page = send_page
        /\ \A p \in Page : p < send_page => Shows(p)
    BY <1>1, <2>1 DEF Sh1106Inv, SentSoFar
  <2>3. panel_col' = 0 /\ \A p \in Page : p <= send_page => Shows(p)'
    BY <1>1, <2>1, <2>2, WholeRow DEF Shows, Sh1106TypeOK, Page
  <2>4. \A p \in Page : send_page + 1 >= Pages => p <= send_page
    BY PicoSh1106Assumption, <2>2 DEF Sh1106TypeOK, Page
  <2>5. \A p \in Page : p < send_page + 1 => p <= send_page
    BY <2>2 DEF Sh1106TypeOK, Page
  <2> QED BY <1>1, <2>3, <2>4, <2>5 DEF SentSoFar
<1> QED BY <1>3, <1>4 DEF Sh1106Inv

LEMMA CleanKeeps == Sh1106Inv /\ PaintClean => Sh1106Inv'
<1> SUFFICES ASSUME Sh1106Inv, PaintClean PROVE Sh1106Inv'
  OBVIOUS
<1>1. PICK c \in Column :
          frame' = [p \in Page |-> IF p = 0 THEN frame[p] ELSE [frame[p] EXCEPT ![c] = 0]]
  BY DEF PaintClean
<1>2. Sh1106TypeOK'
  BY <1>1 DEF PaintClean, Sh1106Inv, Sh1106TypeOK, panelVars
<1>3. ASSUME NEW p \in Page, Shows(p), cleaned' PROVE Shows(p)'
  BY <1>1, <1>3 DEF PaintClean, Sh1106Inv, Sh1106TypeOK, Shows, panelVars
<1>4. send_at' # "done" /\ (send_at' \in {"page", "row"} => send_at' = send_at /\ cleaned')
  BY DEF PaintClean
<1>5. /\ UNCHANGED <<send_page, panel, panel_page, panel_col, send_failed>>
  BY DEF PaintClean, panelVars
<1> QED BY <1>2, <1>3, <1>4, <1>5 DEF Sh1106Inv, SentSoFar

LEMMA OtherStepsKeep ==
    ASSUME Sh1106Inv,
           \/ InitPanel \/ SendBuffer \/ SendColumn \/ SendPageAddress
           \/ Paint \/ TurnOn \/ TurnOff \/ UNCHANGED sh1106Vars
    PROVE  Sh1106Inv'
<1> USE DEF Sh1106Inv
<1>0. 0 \in Page /\ 0 \in Column
  BY PicoSh1106Assumption DEF Page, Column
<1>1. CASE InitPanel
  BY <1>0, <1>1 DEF InitPanel, StartSend, Sh1106TypeOK, SentSoFar, Blank
<1>2. CASE SendBuffer
  BY <1>0, <1>2 DEF SendBuffer, StartSend, Sh1106TypeOK, SentSoFar, panelVars
<1>3. CASE SendColumn
  <2>1. /\ send_at' = "page" /\ panel_col' \in Column
        /\ UNCHANGED <<frame, send_page, panel, panel_page>>
    BY <1>0, <1>3 DEF SendColumn, Transfer
  <2>2. Sh1106TypeOK'
    BY <2>1 DEF Sh1106TypeOK
  <2>3. ~send_failed' => panel_col' = 0
    BY <1>3 DEF SendColumn, Transfer
  <2>4. \A p \in Page : ~(p < send_page')
    BY <1>3, <2>1 DEF SendColumn, Sh1106TypeOK, Page
  <2> QED BY <2>1, <2>2, <2>3, <2>4 DEF SentSoFar
<1>4. CASE SendPageAddress
  <2>1. /\ send_at = "page" /\ send_at' = "row" /\ panel_page' \in Page
        /\ UNCHANGED <<frame, send_page, panel, panel_col, cleaned>>
    BY <1>4 DEF SendPageAddress, Transfer, Sh1106TypeOK
  <2>2. Sh1106TypeOK'
    BY <2>1 DEF Sh1106TypeOK
  <2>3. ~send_failed' => ~send_failed /\ panel_page' = send_page
    BY <1>4 DEF SendPageAddress, Transfer
  <2> QED BY <2>1, <2>2, <2>3 DEF SentSoFar, Shows
<1>5. CASE Paint
  BY <1>5 DEF Paint, Sh1106TypeOK, SentSoFar, panelVars
<1>6. CASE TurnOn \/ TurnOff
  <2>1. UNCHANGED <<frame, send_at, send_page, panel, panel_page, panel_col, send_failed, cleaned>>
    BY <1>6 DEF TurnOn, TurnOff
  <2> QED BY <2>1 DEF Sh1106TypeOK, SentSoFar, Shows
<1>7. CASE UNCHANGED sh1106Vars
  BY <1>7 DEF sh1106Vars, frameVars, panelVars, Sh1106TypeOK, SentSoFar, Shows
<1> QED BY <1>1, <1>2, <1>3, <1>4, <1>5, <1>6, <1>7

(* After a send without a failure the panel shows the frame, for every size  *)
(* and wherever earlier sends failed (pico-sh1106.cpp:134-143, 325-389).     *)
THEOREM SentShows == Sh1106Spec => []SentIsShown
<1>1. Sh1106Inv /\ [Sh1106Next]_sh1106Vars => Sh1106Inv'
  BY RowKeeps, CleanKeeps, OtherStepsKeep DEF Sh1106Next
<1>2. Sh1106Inv => SentIsShown
  BY DEF Sh1106Inv, SentSoFar, Shows, SentIsShown
<1> QED BY Sh1106Starts, <1>1, <1>2, PTL DEF Sh1106Spec

-----------------------------------------------------------------------------
(* The start.  What is done, and what the relays show, follows from how far  *)
(* the start has come; it does not fail between the step that turns the      *)
(* relays on and the one that turns them off.                                *)

GpioAt == 3
RelayAt == 9
StartLength == 27

StartInv ==
    /\ start_step \in 0 .. StartLength
    /\ \A i \in 1 .. start_step : StartSteps[i] \in steps_done
    /\ valves = IF start_step < GpioAt THEN "inputs"
                ELSE IF start_step < RelayAt THEN "on" ELSE "off"
    /\ \/ start_end = "no" /\ start_step < StartLength
       \/ start_end = "running" /\ start_step = StartLength
       \/ start_end = "failed" /\ start_step \notin GpioAt .. RelayAt - 1
    /\ kept_lines \subseteq DOMAIN Needs
    /\ start_crashed => start_end = "failed"

(* The order of the steps, as far as the relays and the commands depend on   *)
(* it (hardware.cpp:150-293, app-main.cpp:423-556).                          *)
LEMMA StartOrder ==
    /\ Len(StartSteps) = StartLength
    /\ StartSteps[GpioAt] = "gpio" /\ StartSteps[RelayAt] = "relay"
    /\ \A i \in 1 .. StartLength :
           /\ i # GpioAt => StartSteps[i] # "gpio"
           /\ i # RelayAt => StartSteps[i] # "relay"
           /\ i \in GpioAt + 1 .. RelayAt => StartSteps[i] \notin MayFail
    /\ StartSteps[19] = "set_app_config" /\ StartSteps[24] = "set_display_handler"
    /\ StartSteps[26] = "set_time"
<1> DEFINE Names == {"hardware", "app_main", "gpio", "rgb_led", "time", "uart", "fs_io", "i2c",
                     "relay", "lcd", "rotary_encoder", "button", "wifi", "app_led", "app_parser",
                     "set_app_parser", "set_on_receive", "app_config", "set_app_config",
                     "serial", "app_data", "set_app_data", "display_handler",
                     "set_display_handler", "app_mqtt", "set_time", "fsm_start"}
           Before == Objects \o DriverSteps
           Whole == Before \o AppSteps
<1>1. /\ Objects \in Seq(Names) /\ Len(Objects) = 2
      /\ DriverSteps \in Seq(Names) /\ Len(DriverSteps) = 11
      /\ AppSteps \in Seq(Names) /\ Len(AppSteps) = 13
      /\ <<"fsm_start">> \in Seq(Names) /\ Len(<<"fsm_start">>) = 1
  BY DEF Objects, DriverSteps, AppSteps
<1> HIDE DEF Names
<1>2. /\ Before \in Seq(Names) /\ Len(Before) = 13
      /\ \A i \in 1 .. 2 : Before[i] = Objects[i]
      /\ \A i \in 3 .. 13 : Before[i] = DriverSteps[i - 2]
  <2>1. /\ Before \in Seq(Names)
        /\ Len(Before) = Len(Objects) + Len(DriverSteps)
        /\ \A i \in 1 .. Len(Objects) + Len(DriverSteps) :
               Before[i] = IF i <= Len(Objects) THEN Objects[i] ELSE DriverSteps[i - Len(Objects)]
    BY <1>1, ConcatProperties, Zenon
  <2> HIDE DEF Before
  <2>2. QED
    BY <1>1, <2>1
<1> HIDE DEF Before
<1>3. /\ Whole \in Seq(Names) /\ Len(Whole) = 26
      /\ \A i \in 1 .. 13 : Whole[i] = Before[i]
      /\ \A i \in 14 .. 26 : Whole[i] = AppSteps[i - 13]
  <2>1. /\ Whole \in Seq(Names)
        /\ Len(Whole) = Len(Before) + Len(AppSteps)
        /\ \A i \in 1 .. Len(Before) + Len(AppSteps) :
               Whole[i] = IF i <= Len(Before) THEN Before[i] ELSE AppSteps[i - Len(Before)]
    BY <1>1, <1>2, ConcatProperties, Zenon
  <2> HIDE DEF Whole
  <2>2. QED
    BY <1>1, <1>2, <2>1
<1>4. /\ Len(StartSteps) = 27
      /\ \A i \in 1 .. 26 : StartSteps[i] = Whole[i]
      /\ StartSteps[27] = "fsm_start"
  <2>1. StartSteps = Whole \o <<"fsm_start">>
    BY DEF StartSteps, Whole, Before
  <2> HIDE DEF Whole
  <2>2. /\ Len(StartSteps) = Len(Whole) + Len(<<"fsm_start">>)
        /\ \A i \in 1 .. Len(Whole) + Len(<<"fsm_start">>) :
               StartSteps[i] = IF i <= Len(Whole) THEN Whole[i]
                               ELSE <<"fsm_start">>[i - Len(Whole)]
    BY <1>1, <1>3, <2>1, ConcatProperties, Zenon
  <2>3. <<"fsm_start">>[1] = "fsm_start"
    OBVIOUS
  <2>4. StartSteps[27] = <<"fsm_start">>[1]
    BY <1>1, <1>3, <2>2
  <2>5. QED
    BY <1>1, <1>3, <2>2, <2>3, <2>4
<1> HIDE DEF Whole
<1>5. /\ \A i \in 1 .. 2 : StartSteps[i] = Objects[i]
      /\ \A i \in 3 .. 13 : StartSteps[i] = DriverSteps[i - 2]
      /\ \A i \in 14 .. 26 : StartSteps[i] = AppSteps[i - 13]
  BY <1>2, <1>3, <1>4
<1>6. \A i \in 1 .. 2 : StartSteps[i] \notin {"gpio", "relay"}
  BY <1>5 DEF Objects
<1>7. /\ StartSteps[3] = "gpio" /\ StartSteps[9] = "relay"
      /\ \A i \in 4 .. 13 : StartSteps[i] # "gpio"
      /\ \A i \in 3 .. 13 : i # 9 => StartSteps[i] # "relay"
      /\ \A i \in 4 .. 9 : StartSteps[i] \notin MayFail
  <2>1. \A j \in 1 .. 11 : StartSteps[j + 2] = DriverSteps[j]
    BY <1>5
  <2>2. /\ DriverSteps[1] = "gpio" /\ DriverSteps[2] = "rgb_led" /\ DriverSteps[3] = "time"
        /\ DriverSteps[4] = "uart" /\ DriverSteps[5] = "fs_io" /\ DriverSteps[6] = "i2c"
        /\ DriverSteps[7] = "relay" /\ DriverSteps[8] = "lcd"
        /\ DriverSteps[9] = "rotary_encoder" /\ DriverSteps[10] = "button"
        /\ DriverSteps[11] = "wifi"
    BY DEF DriverSteps
  <2>3. QED
    BY <2>1, <2>2 DEF MayFail
<1>8. /\ \A i \in 14 .. 26 : StartSteps[i] \notin {"gpio", "relay"}
      /\ StartSteps[19] = "set_app_config" /\ StartSteps[24] = "set_display_handler"
      /\ StartSteps[26] = "set_time"
  <2>1. \A j \in 1 .. 13 : AppSteps[j] \notin {"gpio", "relay"}
    BY DEF AppSteps
  <2>2. AppSteps[6] = "set_app_config" /\ AppSteps[11] = "set_display_handler"
        /\ AppSteps[13] = "set_time"
    BY DEF AppSteps
  <2>3. QED
    BY <1>5, <2>1, <2>2
<1>9. QED
  BY <1>4, <1>6, <1>7, <1>8 DEF GpioAt, RelayAt, StartLength

LEMMA StartStarts == StartInit => StartInv
  BY DEF StartInit, StartInv, GpioAt, RelayAt, StartLength

(* A step done, a failure, a line that comes in and a command that is        *)
(* executed keep the invariant.                                              *)
LEMMA StartKeeps == StartInv /\ [StartNext]_hardwareVars => StartInv'
<1> SUFFICES ASSUME StartInv, [StartNext]_hardwareVars PROVE StartInv'
  OBVIOUS
<1>1. CASE StartStep
  <2>1. /\ start_step \in 0 .. StartLength - 1 /\ start_end = "no" /\ ~start_crashed
        /\ start_step' = start_step + 1
    BY <1>1 DEF StartStep, StartInv, StartLength
  <2>2. steps_done' = steps_done \cup {StartSteps[start_step + 1]}
    BY <1>1 DEF StartStep, Current
  <2>3. \A i \in 1 .. start_step' : StartSteps[i] \in steps_done'
    BY <2>1, <2>2 DEF StartInv
  <2>4. valves' = IF start_step' < GpioAt THEN "inputs"
                  ELSE IF start_step' < RelayAt THEN "on" ELSE "off"
    <3>1. /\ start_step + 1 = GpioAt => valves' = "on"
          /\ start_step + 1 = RelayAt => valves' = "off"
          /\ start_step + 1 \notin {GpioAt, RelayAt} => valves' = valves
      BY <1>1, <2>1, StartOrder DEF StartStep, ValvesAfter, Current, StartLength, GpioAt, RelayAt
    <3>2. QED
      BY <2>1, <3>1 DEF StartInv, GpioAt, RelayAt
  <2>5. \/ start_end' = "no" /\ start_step' < StartLength
        \/ start_end' = "running" /\ start_step' = StartLength
    BY <1>1, <2>1, StartOrder DEF StartStep, StartLength
  <2>6. UNCHANGED <<kept_lines, start_crashed>>
    BY <1>1 DEF StartStep
  <2>7. QED
    BY <2>1, <2>3, <2>4, <2>5, <2>6 DEF StartInv, StartLength
<1>2. CASE StartAborts
  <2>1. /\ start_step \in 0 .. StartLength - 1
        /\ StartSteps[start_step + 1] \in MayFail
    BY <1>2 DEF StartAborts, Current, StartInv, StartLength
  <2>2. start_step \notin GpioAt .. RelayAt - 1
    BY <2>1, StartOrder DEF GpioAt, RelayAt, StartLength
  <2>3. start_end' = "failed"
        /\ UNCHANGED <<start_step, steps_done, valves, kept_lines, start_crashed>>
    BY <1>2 DEF StartAborts
  <2>4. QED
    BY <2>2, <2>3 DEF StartInv
<1>3. CASE UartLine
  <2>1. UNCHANGED <<start_step, start_end, steps_done, valves, start_crashed>>
    BY <1>3 DEF UartLine, startVars
  <2>2. kept_lines' \subseteq DOMAIN Needs
    BY <1>3 DEF UartLine, StartInv
  <2>3. QED
    BY <2>1, <2>2 DEF StartInv
<1>4. CASE ParserExecutes
  <2>1. UNCHANGED <<start_step, start_end, steps_done, valves>> /\ start_end # "no"
    BY <1>4 DEF ParserExecutes, startVars
  <2>2. PICK c \in kept_lines : /\ kept_lines' = kept_lines \ {c}
                                /\ start_crashed' = ~(Needs[c] \subseteq steps_done)
    BY <1>4 DEF ParserExecutes
  <2>3. c \in DOMAIN Needs /\ kept_lines' \subseteq DOMAIN Needs
    BY <2>2 DEF StartInv
  <2>4. CASE start_end = "running"
    <3>1. {StartSteps[19], StartSteps[24], StartSteps[26]} \subseteq steps_done
      BY <2>4 DEF StartInv, StartLength
    <3>2. {"set_app_config", "set_display_handler", "set_time"} \subseteq steps_done
      BY <3>1, StartOrder
    <3>3. Needs[c] \subseteq {"set_app_config", "set_display_handler", "set_time"}
      BY <2>3 DEF Needs
    <3>4. QED
      BY <2>1, <2>2, <2>3, <3>2, <3>3 DEF StartInv
  <2>5. CASE start_end = "failed"
    BY <2>1, <2>3, <2>5 DEF StartInv
  <2>6. QED
    BY <2>1, <2>4, <2>5 DEF StartInv
<1>5. CASE UNCHANGED hardwareVars
  BY <1>5 DEF hardwareVars, startVars, StartInv
<1>6. QED
  BY <1>1, <1>2, <1>3, <1>4, <1>5 DEF StartNext

(* However the start goes, its invariant holds.                              *)
THEOREM StartCorrect == StartSpec => []StartInv
  BY StartStarts, StartKeeps, PTL DEF StartSpec

(* However the start ends, no valve is left open (pico-gpio.cpp:77-88,       *)
(* pico-relay.cpp:33-42, hardware.cpp:150-293).                              *)
THEOREM ValvesLeftShut == StartSpec => []ValvesShut
<1>1. StartInv => ValvesShut
  BY DEF StartInv, ValvesShut, GpioAt, RelayAt, StartLength
<1>2. QED
  BY StartCorrect, <1>1, PTL

(* After a start that went well, every command finds what it calls through   *)
(* (app-main.cpp:423-556, app-parser-commands.cpp:53-58, 312-510).           *)
THEOREM PartsFound == StartSpec => []CommandsFindTheirParts
<1>1. StartInv => CommandsFindTheirParts
  BY DEF StartInv, CommandsFindTheirParts
<1>2. QED
  BY StartCorrect, <1>1, PTL

-----------------------------------------------------------------------------
(* The keyboard's row.  While it is not damaged, every cell is right but     *)
(* those that the next paint, or the one under way, paints itself; and that  *)
(* paint is chosen by a text that has changed by one character at most.      *)

AtEnd == Len(typed) >= LineMax - 1

\* How the text is to be painted.
ModeNow == IF AtEnd THEN "tail" ELSE IF overflow THEN "whole"
           ELSE IF add_char THEN "cell" ELSE "two_cells"

Mode == IF painting = NotPainting THEN ModeNow ELSE painting.mode

LineTypeOK ==
    /\ typed \in Seq(STRING) /\ Len(typed) <= TextMax
    /\ char_idx \in 1 .. Len(Chars)
    /\ \/ painting = NotPainting
       \/ painting \in [position : 0 .. TextMax, mode : {"tail", "whole", "cell", "two_cells"}]
    /\ line = [c \in Cells |-> line[c]]

\* Nothing is kept of a text that has been left, but a paint that was under way.
ClosedLine ==
    ~keyboard_open =>
        /\ typed = <<>> /\ add_char /\ ~overflow
        /\ ~damaged => painting = NotPainting /\ line = Empty

\* A paint of this text, in a way that suits it.
PaintsText ==
    /\ painting.position = Len(typed)
    /\ painting.mode = "tail" <=> AtEnd
    /\ painting.mode = "tail" => overflow
    /\ painting.mode = "cell" => add_char

RightBut(cells) == \A c \in Cells \ cells : line[c] = Char(c)

RightCells ==
    /\ Mode = "cell" => RightBut({Len(typed)})
    /\ Mode = "two_cells" => RightBut({Len(typed), Len(typed) + 1})

RowInv ==
    keyboard_open =>
        /\ painting # NotPainting /\ (~paint_asked \/ ~damaged) => PaintsText
        /\ ~damaged => RightCells
        /\ ~damaged /\ UpToDate =>
               /\ line = Expected
               /\ overflow <=> AtEnd
               /\ overflow \/ add_char

LineInv == LineTypeOK /\ ClosedLine /\ RowInv

\* The row as a whole: the text, or its end, and the character to be entered.
ShortRow(text, char) ==
    [[c \in Cells |-> IF c < Len(text) THEN text[c + 1] ELSE NoChar] EXCEPT ![Len(text)] = char]

EndRow(text, char) ==
    [[c \in Cells |-> IF c \in 3 .. LineMax - 2
                      THEN IF c + Len(text) - (LineMax - 1) < Len(text)
                           THEN text[c + Len(text) - (LineMax - 1) + 1] ELSE NoChar
                      ELSE NoChar] EXCEPT ![LineMax - 1] = char]

RowOf(text, char) == IF Len(text) >= LineMax - 1 THEN EndRow(text, char) ELSE ShortRow(text, char)

LEMMA ExpectedRow ==
    /\ Expected = RowOf(typed, Chars[char_idx])
    /\ Expected' = RowOf(typed', Chars[char_idx'])
<1>1. Expected = RowOf(typed, Chars[char_idx])
    BY DEF Expected, RowOf, EndRow, ShortRow, Cleaned, Char
<1>2. Expected' = RowOf(typed', Chars[char_idx'])
    BY DEF Expected, RowOf, EndRow, ShortRow, Cleaned, Char
<1> QED BY <1>1, <1>2

LEMMA Shortened ==
    ASSUME NEW S, NEW s \in Seq(S), s # <<>>
    PROVE  /\ Len(s) > 0
           /\ SubSeq(s, 1, Len(s) - 1) \in Seq(S)
           /\ Len(SubSeq(s, 1, Len(s) - 1)) = Len(s) - 1
           /\ \A i \in 1 .. Len(s) - 1 : SubSeq(s, 1, Len(s) - 1)[i] = s[i]
<1>1. Len(s) \in Nat \ {0}
    BY EmptySeq
<1>2. 1 \in Int /\ Len(s) - 1 \in Int /\ \A i \in 1 .. Len(s) - 1 : s[i] \in S
    BY <1>1
<1> DEFINE n == Len(s) - 1
<1> HIDE DEF n
<1>3. /\ SubSeq(s, 1, n) \in Seq(S)
      /\ Len(SubSeq(s, 1, n)) = IF 1 <= n THEN n - 1 + 1 ELSE 0
      /\ \A i \in 1 .. n - 1 + 1 : SubSeq(s, 1, n)[i] = s[1 + i - 1]
  <2>1. 1 \in Int /\ n \in Int /\ \A i \in 1 .. n : s[i] \in S
    BY <1>2 DEF n
  <2> QED BY <2>1, SubSeqProperties
<1>4. n = Len(s) - 1 /\ n \in Nat
    BY <1>1 DEF n
<1>5. Len(SubSeq(s, 1, n)) = n
    BY <1>3, <1>4
<1>6. \A i \in 1 .. n : SubSeq(s, 1, n)[i] = s[i]
    BY <1>3, <1>4
<1> QED BY <1>1, <1>3, <1>5, <1>6 DEF n

LEMMA LineTyped == ASSUME LineTypeOK, [LineNext]_lineVars PROVE LineTypeOK'
<1> USE KeyboardLineAssumption DEF KeyboardLineAssumption
<1>1. ASSUME UNCHANGED <<typed, painting, line>>, char_idx' \in 1 .. Len(Chars)
      PROVE  LineTypeOK'
    BY <1>1 DEF LineTypeOK, Cells
<1>2. CASE OpenKeyboard \/ UNCHANGED lineVars
    BY <1>1, <1>2 DEF OpenKeyboard, lineVars, keyboardVars, LineTypeOK
<1>3. CASE Rotate
  <2>1. char_idx' \in 1 .. Len(Chars)
    BY <1>3 DEF Rotate, LineTypeOK
  <2> QED BY <1>1, <1>3, <2>1 DEF Rotate
<1>4. CASE EnterChar
  <2>1. CASE Len(typed) < TextMax
    <3>1. /\ typed' = Append(typed, Chars[char_idx]) /\ char_idx' = 1
          /\ UNCHANGED <<painting, line>>
      BY <1>4, <2>1 DEF EnterChar
    <3>2. Chars[char_idx] \in STRING
      BY DEF LineTypeOK
    <3>3. typed' \in Seq(STRING) /\ Len(typed') = Len(typed) + 1
      BY <3>1, <3>2 DEF LineTypeOK
    <3> QED BY <2>1, <3>1, <3>3 DEF LineTypeOK, Cells
  <2>2. CASE ~(Len(typed) < TextMax)
    BY <1>1, <1>4, <2>2 DEF EnterChar, LineTypeOK
  <2> QED BY <2>1, <2>2
<1>5. CASE DeleteChar
  <2>1. /\ typed # <<>> /\ typed' = SubSeq(typed, 1, Len(typed) - 1) /\ char_idx' = 1
        /\ UNCHANGED <<painting, line>>
    BY <1>5 DEF DeleteChar
  <2>2. typed' \in Seq(STRING) /\ Len(typed') = Len(typed) - 1
    BY <2>1, Shortened DEF LineTypeOK
  <2>3. Len(typed') <= TextMax
    BY <2>2 DEF LineTypeOK
  <2> QED BY <2>1, <2>2, <2>3 DEF LineTypeOK, Cells
<1>6. CASE ExitKeyboard
  <2>1. typed' = <<>> /\ line' = Empty /\ UNCHANGED <<char_idx, painting>>
    BY <1>6 DEF ExitKeyboard
  <2>2. line' = [c \in Cells |-> line'[c]]
    BY <2>1 DEF Empty
  <2> QED BY <2>1, <2>2 DEF LineTypeOK, Cells
<1>7. CASE PaintStart
  <2>1. /\ UNCHANGED <<typed, char_idx, line>>
        /\ painting'.position = Len(typed)
        /\ painting' \in [position : 0 .. TextMax, mode : {"tail", "whole", "cell", "two_cells"}]
    BY <1>7 DEF PaintStart, LineTypeOK
  <2> QED BY <2>1 DEF LineTypeOK, Cells
<1>8. CASE PaintEnd
  <2>1. /\ UNCHANGED <<typed, char_idx>> /\ painting' = NotPainting
        /\ painting.mode \in {"tail", "whole", "cell", "two_cells"}
        /\ \E cell : line' = [Cleaned(painting.mode, painting.position) EXCEPT ![cell] = Chars[char_idx]]
    BY <1>8 DEF PaintEnd, LineTypeOK
  <2>2. DOMAIN line = Cells
    BY DEF LineTypeOK
  <2>3. line' = [c \in Cells |-> line'[c]]
    BY <2>1, <2>2 DEF Cleaned
  <2> QED BY <2>1, <2>3 DEF LineTypeOK, Cells
<1>9. CASE OtherScreen
  <2>1. UNCHANGED <<typed, char_idx, painting>> /\ \E t : line' = [c \in Cells |-> t]
    BY <1>9, Zenon DEF OtherScreen
  <2>2. line' = [c \in Cells |-> line'[c]]
    BY <2>1
  <2> QED BY <2>1, <2>2 DEF LineTypeOK, Cells
<1> QED BY <1>2, <1>3, <1>4, <1>5, <1>6, <1>7, <1>8, <1>9 DEF LineNext

\* Who changes the text while a paint is due or under way damages the row.
LEMMA EditStep ==
    ASSUME LineInv, LineTypeOK', EnterChar \/ DeleteChar
    PROVE  ClosedLine' /\ RowInv'
<1> USE KeyboardLineAssumption DEF KeyboardLineAssumption, LineInv
<1>1. keyboard_open /\ keyboard_open' /\ paint_asked' /\ UNCHANGED <<overflow, painting, line>>
    BY DEF EnterChar, DeleteChar
<1>2. ClosedLine'
    BY <1>1 DEF ClosedLine
<1>3. CASE UNCHANGED <<typed, add_char, damaged>>
    BY <1>1, <1>2, <1>3, Zenon DEF RowInv, PaintsText, RightCells, RightBut, Char, Mode, ModeNow,
        AtEnd, UpToDate
<1>4. ASSUME ~damaged', ~paint_asked, painting = NotPainting, ~damaged, RightCells'
      PROVE  RowInv'
    BY <1>1, <1>4, Zenon DEF RowInv, UpToDate
<1>5. ASSUME damaged' PROVE RowInv'
    BY <1>1, <1>5, Zenon DEF RowInv, UpToDate
<1>6. ASSUME damaged' = (damaged \/ ~UpToDate), ~damaged'
      PROVE  ~paint_asked /\ painting = NotPainting /\ ~damaged
    BY <1>6, Zenon DEF UpToDate
<1>7. ASSUME ~paint_asked, painting = NotPainting, ~damaged
      PROVE  /\ line = RowOf(typed, Chars[char_idx])
             /\ overflow <=> AtEnd
             /\ overflow \/ add_char
    BY <1>1, <1>7, ExpectedRow, Zenon DEF RowInv, UpToDate
<1>8. CASE EnterChar /\ Len(typed) < TextMax
  <2>1. /\ typed' = Append(typed, Chars[char_idx]) /\ add_char'
        /\ damaged' = (damaged \/ ~UpToDate)
    BY <1>8, Zenon DEF EnterChar
  <2> SUFFICES ASSUME ~damaged' PROVE RightCells'
    BY <1>2, <1>4, <1>5, <1>6, <2>1
  <2>2. ~paint_asked /\ painting = NotPainting /\ ~damaged
    BY <1>6, <2>1
  <2>3. /\ Chars[char_idx] \in STRING /\ Len(typed') = Len(typed) + 1
        /\ Len(typed) \in Nat /\ typed \in Seq(STRING)
        /\ \A i \in 1 .. Len(typed) : typed'[i] = typed[i]
        /\ typed'[Len(typed) + 1] = Chars[char_idx]
    BY <2>1 DEF LineTypeOK
  <2>4. CASE AtEnd'
    <3>1. Mode' = "tail"
      BY <1>1, <2>2, <2>4, Zenon DEF Mode, ModeNow
    <3> QED BY <3>1 DEF RightCells
  <2>5. CASE ~AtEnd'
    <3>1. Len(typed) + 1 < LineMax - 1
      BY <2>3, <2>5 DEF AtEnd
    <3>2. ~AtEnd
      BY <2>3, <3>1 DEF AtEnd
    <3>3. Mode' = "cell"
      BY <1>1, <1>7, <2>1, <2>2, <2>5, <3>2, Zenon DEF Mode, ModeNow
    <3>4. line = ShortRow(typed, Chars[char_idx])
      BY <1>7, <2>2, <2>3, <3>1 DEF RowOf
    <3>5. RightBut({Len(typed)})'
      <4> SUFFICES ASSUME NEW c \in Cells, c # Len(typed')
                   PROVE  line[c] = Char(c)'
        BY <1>1 DEF RightBut, Cells
      <4>1. c \in Nat
        BY DEF Cells
      <4>2. line[c] = IF c = Len(typed) THEN Chars[char_idx]
                      ELSE IF c < Len(typed) THEN typed[c + 1] ELSE NoChar
        BY <3>4 DEF ShortRow
      <4> QED BY <2>3, <4>1, <4>2 DEF Char
    <3> QED BY <3>3, <3>5 DEF RightCells
  <2> QED BY <2>4, <2>5
<1>9. CASE DeleteChar
  <2>1. /\ typed # <<>> /\ typed' = SubSeq(typed, 1, Len(typed) - 1) /\ ~add_char'
        /\ damaged' = (damaged \/ ~UpToDate)
    BY <1>9 DEF DeleteChar
  <2> SUFFICES ASSUME ~damaged' PROVE RightCells'
    BY <1>2, <1>4, <1>5, <1>6, <2>1
  <2>2. ~paint_asked /\ painting = NotPainting /\ ~damaged
    BY <1>6, <2>1
  <2>3. /\ Len(typed') = Len(typed) - 1 /\ Len(typed) \in Nat /\ Len(typed) > 0
        /\ \A i \in 1 .. Len(typed) - 1 : typed'[i] = typed[i]
    BY <2>1, Shortened DEF LineTypeOK
  <2>4. CASE AtEnd' \/ overflow
    <3>1. Mode' = "tail" \/ Mode' = "whole"
      BY <1>1, <2>2, <2>4, Zenon DEF Mode, ModeNow
    <3> QED BY <3>1 DEF RightCells
  <2>5. CASE ~AtEnd' /\ ~overflow
    <3>1. Mode' = "two_cells"
      BY <1>1, <2>1, <2>2, <2>5, Zenon DEF Mode, ModeNow
    <3>2. ~AtEnd
      BY <1>7, <2>2, <2>5
    <3>3. line = ShortRow(typed, Chars[char_idx])
      BY <1>7, <2>2, <3>2 DEF RowOf, AtEnd
    <3>4. RightBut({Len(typed), Len(typed) + 1})'
      <4> SUFFICES ASSUME NEW c \in Cells, c # Len(typed'), c # Len(typed') + 1
                   PROVE  line[c] = Char(c)'
        BY <1>1 DEF RightBut, Cells
      <4>1. c \in Nat
        BY DEF Cells
      <4>2. line[c] = IF c = Len(typed) THEN Chars[char_idx]
                      ELSE IF c < Len(typed) THEN typed[c + 1] ELSE NoChar
        BY <3>3 DEF ShortRow
      <4> QED BY <2>3, <4>1, <4>2 DEF Char
    <3> QED BY <3>1, <3>4 DEF RightCells
  <2> QED BY <2>4, <2>5
<1>10. CASE EnterChar /\ ~(Len(typed) < TextMax)
    BY <1>3, <1>10 DEF EnterChar
<1> QED BY <1>8, <1>9, <1>10

\* A paint that ends makes the row what the text is.
LEMMA PaintEndStep == ASSUME LineInv, LineTypeOK', PaintEnd PROVE ClosedLine' /\ RowInv'
<1> USE KeyboardLineAssumption DEF KeyboardLineAssumption, LineInv
<1> DEFINE cell == IF painting.mode = "tail" THEN LineMax - 1 ELSE painting.position
<1>1. /\ painting # NotPainting /\ painting' = NotPainting
      /\ UNCHANGED <<keyboard_open, typed, char_idx, paint_asked>>
      /\ line' = [Cleaned(painting.mode, painting.position) EXCEPT ![cell] = Chars[char_idx]]
    BY Zenon DEF PaintEnd
<1>2. /\ add_char' = (add_char \/ painting.mode \in {"whole", "two_cells"})
      /\ overflow' = (overflow /\ painting.mode = "tail")
      /\ damaged' = (damaged /\ (painting.mode \in {"cell", "two_cells"} \/ paint_asked
                                 \/ ~keyboard_open))
    BY Zenon DEF PaintEnd
<1>3. ASSUME ~keyboard_open PROVE ClosedLine' /\ RowInv'
  <2>1. damaged /\ typed = <<>> /\ add_char /\ ~overflow
    BY <1>1, <1>3, Zenon DEF ClosedLine
  <2>2. damaged' /\ add_char' /\ ~overflow'
    BY <1>2, <1>3, <2>1, Zenon
  <2> QED BY <1>1, <1>3, <2>1, <2>2, Zenon DEF ClosedLine, RowInv
<1>4. ASSUME keyboard_open, ~damaged' PROVE RowInv'
  <2>1. \/ ~damaged
        \/ ~paint_asked /\ painting.mode \notin {"cell", "two_cells"}
    BY <1>2, <1>4, Zenon
  <2>2. PaintsText
    BY <1>1, <1>4, <2>1, Zenon DEF RowInv
  <2>3. painting.mode \in {"tail", "whole", "cell", "two_cells"}
    BY <1>1 DEF LineTypeOK
  <2>4. /\ painting.position = Len(typed) /\ Len(typed) \in Nat
        /\ painting.mode = "tail" <=> Len(typed) >= LineMax - 1
    BY <2>2 DEF PaintsText, AtEnd, LineTypeOK
  <2>5. /\ painting.mode = "cell" => RightBut({Len(typed)})
        /\ painting.mode = "two_cells" => RightBut({Len(typed), Len(typed) + 1})
    <3>1. CASE ~damaged
      BY <1>1, <1>4, <3>1, Zenon DEF RowInv, RightCells, Mode
    <3> QED BY <2>1, <3>1, Zenon
  <2>6. line' = RowOf(typed, Chars[char_idx])
    <3>1. CASE painting.mode = "tail"
      BY <1>1, <2>4, <3>1 DEF RowOf, EndRow, Cleaned, Char
    <3>2. CASE painting.mode = "whole"
      BY <1>1, <2>4, <3>2 DEF RowOf, ShortRow, Cleaned, Char
    <3>3. CASE painting.mode = "cell"
      <4>1. line' = [line EXCEPT ![Len(typed)] = Chars[char_idx]]
        BY <1>1, <2>4, <3>3 DEF Cleaned
      <4>2. line = [c \in Cells |-> line[c]]
        BY DEF LineTypeOK
      <4>3. \A c \in Cells : c # Len(typed) =>
                line[c] = IF c < Len(typed) THEN typed[c + 1] ELSE NoChar
        BY <2>5, <3>3 DEF RightBut, Char
      <4>4. line' = ShortRow(typed, Chars[char_idx])
        BY <4>1, <4>2, <4>3 DEF ShortRow
      <4> QED BY <2>4, <3>3, <4>4 DEF RowOf
    <3>4. CASE painting.mode = "two_cells"
      <4>1. line' = [line EXCEPT ![Len(typed)] = NoChar, ![Len(typed) + 1] = NoChar,
                                 ![Len(typed)] = Chars[char_idx]]
        BY <1>1, <2>4, <3>4 DEF Cleaned
      <4>2. line = [c \in Cells |-> line[c]]
        BY DEF LineTypeOK
      <4>3. \A c \in Cells : c # Len(typed) /\ c # Len(typed) + 1 =>
                line[c] = IF c < Len(typed) THEN typed[c + 1] ELSE NoChar
        BY <2>5, <3>4 DEF RightBut, Char
      <4>4. line' = ShortRow(typed, Chars[char_idx])
        <5>1. line' = [c \in Cells |-> line'[c]]
          BY DEF LineTypeOK, Cells
        <5>2. \A c \in Cells : line'[c] = IF c = Len(typed) THEN Chars[char_idx]
                                          ELSE IF c = Len(typed) + 1 THEN NoChar ELSE line[c]
          BY <2>4, <4>1, <4>2
        <5>3. ShortRow(typed, Chars[char_idx]) =
                  [c \in Cells |-> ShortRow(typed, Chars[char_idx])[c]]
          BY DEF ShortRow
        <5>4. \A c \in Cells : ShortRow(typed, Chars[char_idx])[c] =
                  IF c = Len(typed) THEN Chars[char_idx]
                  ELSE IF c < Len(typed) THEN typed[c + 1] ELSE NoChar
          BY DEF ShortRow
        <5>5. \A c \in Cells : c \in Nat
          BY DEF Cells
        <5>6. \A c \in Cells : line'[c] = ShortRow(typed, Chars[char_idx])[c]
          BY <2>4, <4>3, <5>2, <5>4, <5>5
        <5> QED BY <5>1, <5>3, <5>6
      <4> QED BY <2>4, <3>4, <4>4 DEF RowOf
    <3> QED BY <2>3, <3>1, <3>2, <3>3, <3>4
  <2>7. overflow' <=> AtEnd
    BY <1>2, <2>2, Zenon DEF PaintsText
  <2>8. overflow' \/ add_char'
    BY <1>2, <2>2, <2>3, Zenon DEF PaintsText
  <2>9. AtEnd' <=> AtEnd
    BY <1>1, Zenon DEF AtEnd
  <2>10. RightCells'
    <3>1. CASE AtEnd
      <4>1. Mode' = "tail"
        BY <1>1, <2>9, <3>1, Zenon DEF Mode, ModeNow
      <4> QED BY <4>1 DEF RightCells
    <3>2. CASE ~AtEnd
      <4>1. Mode' = "cell"
        BY <1>1, <2>7, <2>8, <2>9, <3>2, Zenon DEF Mode, ModeNow
      <4>2. line' = ShortRow(typed, Chars[char_idx])
        BY <2>6, <3>2 DEF RowOf, AtEnd
      <4>3. RightBut({Len(typed)})'
        BY <1>1, <4>2 DEF RightBut, Char, ShortRow
      <4> QED BY <4>1, <4>3 DEF RightCells
    <3> QED BY <3>1, <3>2
  <2>11. line' = Expected'
    BY <1>1, <2>6, ExpectedRow, Zenon
  <2> QED BY <1>1, <2>7, <2>8, <2>9, <2>10, <2>11, Zenon DEF RowInv
<1>5. ASSUME keyboard_open, damaged' PROVE RowInv'
    BY <1>1, <1>5, Zenon DEF RowInv
<1>6. ASSUME keyboard_open PROVE ClosedLine'
    BY <1>1, <1>6, Zenon DEF ClosedLine
<1> QED BY <1>3, <1>4, <1>5, <1>6

LEMMA LineStep == ASSUME LineInv, [LineNext]_lineVars PROVE LineInv'
<1> USE DEF LineInv
<1>1. LineTypeOK'
    BY LineTyped
<1> SUFFICES ClosedLine' /\ RowInv'
    BY <1>1
<1>2. CASE UNCHANGED lineVars
    BY <1>2, Zenon DEF lineVars, keyboardVars, ClosedLine, RowInv, PaintsText, RightCells, RightBut,
        Char, Mode, ModeNow, AtEnd, UpToDate, Expected, Cleaned
<1>3. CASE OpenKeyboard
  <2>1. /\ ~keyboard_open /\ keyboard_open' /\ paint_asked'
        /\ UNCHANGED <<typed, add_char, overflow, painting, line, damaged>>
    BY <1>3 DEF OpenKeyboard
  <2>2. typed = <<>> /\ add_char /\ ~overflow
    BY <2>1, Zenon DEF ClosedLine
  <2>3. CASE damaged
    BY <2>1, <2>3, Zenon DEF ClosedLine, RowInv, UpToDate
  <2>4. CASE ~damaged
    <3>1. painting = NotPainting /\ line = Empty
      BY <2>1, <2>4, Zenon DEF ClosedLine
    <3>2. Len(typed) = 0 /\ ~AtEnd
      BY <2>2, KeyboardLineAssumption DEF AtEnd, KeyboardLineAssumption
    <3>3. Mode' = "cell"
      BY <2>1, <2>2, <3>1, <3>2, Zenon DEF Mode, ModeNow, AtEnd
    <3>4. RightBut({Len(typed)})'
      BY <2>1, <3>1, <3>2 DEF RightBut, Char, Empty, Cells
    <3>5. RightCells'
      BY <3>3, <3>4 DEF RightCells
    <3> QED BY <2>1, <3>1, <3>5, Zenon DEF ClosedLine, RowInv, UpToDate
  <2> QED BY <2>3, <2>4
<1>4. CASE Rotate
  <2>1. /\ keyboard_open /\ paint_asked'
        /\ UNCHANGED <<keyboard_open, typed, add_char, overflow, painting, line, damaged>>
    BY <1>4 DEF Rotate
  <2> QED BY <2>1, Zenon DEF ClosedLine, RowInv, PaintsText, RightCells, RightBut, Char, Mode,
          ModeNow, AtEnd, UpToDate
<1>5. CASE ExitKeyboard
    BY <1>5, Zenon DEF ExitKeyboard, ClosedLine, RowInv
<1>6. CASE PaintStart
  <2>1. /\ painting = NotPainting /\ keyboard_open /\ ~paint_asked'
        /\ UNCHANGED <<keyboard_open, typed, add_char, line, damaged>>
        /\ painting' = [position |-> Len(typed), mode |-> ModeNow]
        /\ overflow' = (overflow \/ painting'.mode = "tail")
    BY <1>6, Zenon DEF PaintStart, ModeNow, AtEnd
  <2>2. /\ painting'.position = Len(typed) /\ painting'.mode = ModeNow
    BY <2>1
  <2>3. painting' # NotPainting
    BY <2>2 DEF ModeNow, NotPainting
  <2>4. /\ ModeNow = "tail" <=> AtEnd
        /\ ModeNow = "cell" => add_char
    BY DEF ModeNow
  <2>5. PaintsText'
    BY <2>1, <2>2, <2>4, Zenon DEF PaintsText, AtEnd
  <2>6. Mode' = Mode
    BY <2>1, <2>2, <2>3, Zenon DEF Mode
  <2>7. ~damaged => RightCells'
    BY <2>1, <2>6, Zenon DEF RowInv, RightCells, RightBut, Char
  <2> QED BY <2>1, <2>3, <2>5, <2>7, Zenon DEF ClosedLine, RowInv, UpToDate
<1>7. CASE OtherScreen
    BY <1>7, Zenon DEF OtherScreen, ClosedLine, RowInv, UpToDate
<1> QED BY <1>1, <1>2, <1>3, <1>4, <1>5, <1>6, <1>7, EditStep, PaintEndStep DEF LineNext

LEMMA LineFirst == LineInit => LineInv
<1> SUFFICES ASSUME LineInit PROVE LineInv
    OBVIOUS
<1>1. LineTypeOK
    BY KeyboardLineAssumption DEF LineInit, LineTypeOK, KeyboardLineAssumption, Empty
<1>2. ClosedLine /\ RowInv
    BY Zenon DEF LineInit, ClosedLine, RowInv
<1> QED BY <1>1, <1>2 DEF LineInv

(* What is painted of the text, cell by cell, stays in step with the text,   *)
(* for every font, width of the row and length of the text.                  *)
THEOREM LineCorrect == LineSpec => []LineInv
<1> QED BY LineFirst, LineStep, PTL DEF LineSpec

(* Painting only what has changed leaves the whole row right, although the   *)
(* callbacks come while a paint is under way                                 *)
(* (app-display-keyboard.cpp:192-250).                                       *)
THEOREM RowShowsText == LineSpec => []LineShowsText
<1>1. LineInv => LineShowsText
    BY Zenon DEF LineInv, RowInv, LineShowsText
<1> QED BY <1>1, LineCorrect, PTL

-----------------------------------------------------------------------------
(* The push button.  A clean click goes through stages: its edge, the event  *)
(* that the interrupt posts, the event that the thread reports; the press    *)
(* and then the release.  held is how long ago the press was taken.          *)

Debounced(since) == since > DebounceTime

ClickRecords == [status : {"PRESS", "RELEASE"}, age : 0 .. MaxHandling]

ButtonTypeOK ==
    /\ quiet \in 0 .. QuietCap
    /\ edges \subseteq {"FALL", "RISE"}
    /\ since_press \in 0 .. DebounceTime + 1 /\ since_release \in 0 .. DebounceTime + 1
    /\ click_queue = NoClick \/ click_queue \in ClickRecords
    /\ click_event = NoClick \/ click_event \in ClickRecords
    /\ event_last \in [status : ClickStatus, age : 0 .. LastCap]

\* Neither edge was taken more recently than the last edge came.
RestedInv ==
    /\ Least(quiet, DebounceTime + 1) <= since_press
    /\ Least(quiet, DebounceTime + 1) <= since_release

\* The one event of the click, age old, is in the queue or fetched.
Posted(click, age) ==
    LET e == [status |-> click, age |-> age]
    IN  \/ click_queue = e /\ click_event = NoClick
        \/ click_queue = NoClick /\ click_event = e

QueueFree == click_queue = NoClick /\ click_event = NoClick

HeldFor(held) == IF held >= LongClickTime THEN "LONG_PRESS" ELSE "RELEASE"

PressRaised ==
    /\ button_down /\ edges = {"FALL"} /\ QueueFree
    /\ Debounced(since_press) /\ Debounced(since_release)
    /\ click_due = <<"PRESS">> /\ told = <<>>

PressPosted ==
    /\ button_down /\ edges = {} /\ Debounced(since_release)
    /\ \E held \in 0 .. MaxHandling : Posted("PRESS", held) /\ quiet = Least(held, QuietCap)
    /\ click_due = <<"PRESS">> /\ told = <<>>

PressTold ==
    /\ button_down /\ ClickIdle /\ Debounced(since_release)
    /\ event_last.status = "PRESS"
    /\ \E held \in Nat : event_last.age = Least(held, LastCap) /\ quiet = Least(held, QuietCap)
    /\ click_due = <<"PRESS">> /\ told = <<"PRESS">>

ReleaseRaised ==
    /\ ~button_down /\ edges = {"RISE"} /\ QueueFree /\ Debounced(since_release)
    /\ event_last.status = "PRESS"
    /\ \E held \in Nat : /\ event_last.age = Least(held, LastCap)
                         /\ click_due = <<"PRESS", HeldFor(held)>>
    /\ told = <<"PRESS">>

ReleasePosted ==
    /\ ~button_down /\ edges = {}
    /\ event_last.status = "PRESS"
    /\ \E held \in Nat, age \in 0 .. MaxHandling :
           /\ Posted("RELEASE", age)
           /\ event_last.age = Least(held + age, LastCap)
           /\ click_due = <<"PRESS", HeldFor(held)>>
    /\ told = <<"PRESS">>

ReleaseTold ==
    /\ ~button_down /\ ClickIdle
    /\ told = click_due /\ Len(click_due) = 2

CleanInv ==
    clean =>
        /\ button_callback
        /\ \/ PressRaised \/ PressPosted \/ PressTold
           \/ ReleaseRaised \/ ReleasePosted \/ ReleaseTold

ButtonInv == ButtonTypeOK /\ RestedInv /\ CleanInv

LEMMA TwoReports == \A x, y : Append(<<>>, x) = <<x>> /\ Append(<<x>>, y) = <<x, y>>
<1> SUFFICES ASSUME NEW x, NEW y PROVE Append(<<>>, x) = <<x>> /\ Append(<<x>>, y) = <<x, y>>
    OBVIOUS
<1>1. Append(<<>>, x) = <<x>>
    OBVIOUS
<1>2. /\ <<x>> \in Seq({x, y}) /\ <<x, y>> \in Seq({x, y}) /\ Append(<<x>>, y) \in Seq({x, y})
      /\ Len(<<x, y>>) = 2 /\ <<x, y>>[1] = x /\ <<x, y>>[2] = y
    OBVIOUS
<1>3. /\ Len(Append(<<x>>, y)) = 2
      /\ Append(<<x>>, y)[1] = x /\ Append(<<x>>, y)[2] = y
  <2>1. <<x>> \in Seq({x, y}) /\ Len(<<x>>) = 1 /\ <<x>>[1] = x
    OBVIOUS
  <2> QED BY <2>1
<1>4. Append(<<x>>, y) = <<x, y>>
  <2>1. \A i \in 1 .. Len(Append(<<x>>, y)) : Append(<<x>>, y)[i] = <<x, y>>[i]
    BY <1>2, <1>3
  <2> QED BY <1>2, <1>3, <2>1, SeqEqual
<1> QED BY <1>1, <1>4

LEMMA ButtonTimes ==
    /\ DebounceTime \in Nat /\ LongClickTime \in Nat /\ MaxHandling \in Nat
    /\ QuietCap \in Nat /\ QuietCap >= LongClickTime /\ QuietCap >= DebounceTime + 1
    /\ LastCap \in Nat /\ LastCap = LongClickTime + MaxHandling
<1>1. DebounceTime \in Nat /\ LongClickTime \in Nat /\ MaxHandling \in Nat
    BY PicoButtonAssumption DEF PicoButtonAssumption
<1> QED BY <1>1 DEF QuietCap, LastCap

LEMMA ButtonTyped == ASSUME ButtonTypeOK, [ButtonNext]_buttonVars PROVE ButtonTypeOK'
<1> USE ButtonTimes
<1>1. CASE PressButton \/ ReleaseButton
  <2>1. /\ quiet' = 0 /\ edges' \in {edges \cup {"FALL"}, edges \cup {"RISE"}}
        /\ UNCHANGED <<since_press, since_release, click_queue, click_event, event_last>>
    BY <1>1 DEF PressButton, ReleaseButton, Contact, isrVars, clickThreadVars
  <2> QED BY <2>1 DEF ButtonTypeOK
<1>2. CASE ButtonTick
  <2>1. ASSUME NEW e, e = NoClick \/ e \in ClickRecords, e.age < MaxHandling
        PROVE  Older(e) = NoClick \/ Older(e) \in ClickRecords
    BY <2>1 DEF Older, ClickRecords
  <2>2. /\ click_queue' = Older(click_queue) /\ click_event' = Older(click_event)
        /\ click_queue.age < MaxHandling /\ click_event.age < MaxHandling
        /\ UNCHANGED edges
    BY <1>2 DEF ButtonTick
  <2>3. /\ click_queue' = NoClick \/ click_queue' \in ClickRecords
        /\ click_event' = NoClick \/ click_event' \in ClickRecords
    BY <2>1, <2>2 DEF ButtonTypeOK
  <2>4. /\ quiet' \in 0 .. QuietCap
        /\ since_press' \in 0 .. DebounceTime + 1 /\ since_release' \in 0 .. DebounceTime + 1
    <3>1. /\ quiet' = Least(quiet + 1, QuietCap)
          /\ since_press' = Least(since_press + 1, DebounceTime + 1)
          /\ since_release' = Least(since_release + 1, DebounceTime + 1)
      BY <1>2, Zenon DEF ButtonTick
    <3> QED BY <3>1 DEF ButtonTypeOK, Least
  <2>5. event_last' \in [status : ClickStatus, age : 0 .. LastCap]
    <3>1. event_last' = [event_last EXCEPT !.age = Least(event_last.age + 1, LastCap)]
      BY <1>2 DEF ButtonTick
    <3> QED BY <3>1 DEF ButtonTypeOK, Least
  <2> QED BY <2>2, <2>3, <2>4, <2>5 DEF ButtonTypeOK
<1>3. CASE OnClick
  <2>1. /\ quiet' = 0 /\ edges' = {} /\ UNCHANGED <<click_event, event_last>>
        /\ since_press' \in {0, since_press} /\ since_release' \in {0, since_release}
    BY <1>3 DEF OnClick, Edge, isrVars
  <2>2. \/ click_queue' = click_queue
        \/ \E s \in {"PRESS", "RELEASE"} : click_queue' = [status |-> s, age |-> 0]
    BY <1>3 DEF OnClick, PostClick
  <2>3. click_queue' = NoClick \/ click_queue' \in ClickRecords
    BY <2>2 DEF ButtonTypeOK, ClickRecords
  <2> QED BY <2>1, <2>3 DEF ButtonTypeOK
<1>4. CASE FetchClick
    BY <1>4 DEF FetchClick, ButtonTypeOK, pinVars, isrVars
<1>5. CASE HandleClick
  <2>1. /\ click_event # NoClick /\ click_event' = NoClick
        /\ event_last' \in {event_last, click_event}
        /\ UNCHANGED <<quiet, edges, since_press, since_release, click_queue>>
    BY <1>5 DEF HandleClick, pinVars, isrVars
  <2>2. event_last' \in [status : ClickStatus, age : 0 .. LastCap]
    BY <2>1 DEF ButtonTypeOK, ClickRecords, ClickStatus
  <2> QED BY <2>1, <2>2 DEF ButtonTypeOK
<1>6. CASE SetOnButtonClick \/ UNCHANGED buttonVars
  <2>1. UNCHANGED <<quiet, edges, since_press, since_release, click_queue, click_event, event_last>>
    BY <1>6, Zenon DEF SetOnButtonClick, buttonVars, pinVars, isrVars, clickThreadVars
  <2> QED BY <2>1 DEF ButtonTypeOK
<1> QED BY <1>1, <1>2, <1>3, <1>4, <1>5, <1>6 DEF ButtonNext

\* An edge that is taken is the last edge that came.
LEMMA RestedStep == ASSUME ButtonTypeOK, RestedInv, [ButtonNext]_buttonVars PROVE RestedInv'
<1> USE ButtonTimes
<1>1. CASE PressButton \/ ReleaseButton \/ OnClick
  <2>1. /\ quiet' = 0
        /\ since_press' \in {0, since_press} /\ since_release' \in {0, since_release}
    BY <1>1 DEF PressButton, ReleaseButton, Contact, OnClick, Edge, isrVars
  <2> QED BY <2>1 DEF RestedInv, Least, ButtonTypeOK
<1>2. CASE ButtonTick
  <2>1. /\ quiet' = Least(quiet + 1, QuietCap)
        /\ since_press' = Least(since_press + 1, DebounceTime + 1)
        /\ since_release' = Least(since_release + 1, DebounceTime + 1)
    BY <1>2 DEF ButtonTick
  <2> QED BY <2>1 DEF RestedInv, Least, ButtonTypeOK
<1>3. CASE FetchClick \/ HandleClick \/ SetOnButtonClick \/ UNCHANGED buttonVars
  <2>1. UNCHANGED <<quiet, since_press, since_release>>
    BY <1>3, Zenon DEF FetchClick, HandleClick, SetOnButtonClick, buttonVars, pinVars, isrVars
  <2> QED BY <2>1 DEF RestedInv
<1> QED BY <1>1, <1>2, <1>3 DEF ButtonNext

LEMMA PostedIsNotIdle ==
    ASSUME NEW s \in {"PRESS", "RELEASE"}, NEW age, Posted(s, age)
    PROVE  ~ClickIdle
BY DEF Posted, ClickIdle, NoClick

LEMMA CleanStep ==
    ASSUME ButtonTypeOK, RestedInv, CleanInv, [ButtonNext]_buttonVars, clean'
    PROVE  CleanInv'
<1> USE ButtonTimes
<1>1. CASE PressButton
  <2>1. quiet > DebounceTime /\ ClickIdle /\ button_callback
    BY <1>1, Zenon DEF PressButton
  <2>2. /\ button_down' /\ edges' = edges \cup {"FALL"}
        /\ click_due' = <<"PRESS">> /\ told' = <<>>
        /\ UNCHANGED <<since_press, since_release, click_queue, click_event, button_callback>>
    BY <1>1 DEF PressButton, Contact, isrVars, clickThreadVars
  <2>3. Debounced(since_press) /\ Debounced(since_release)
    BY <2>1 DEF RestedInv, Least, Debounced, ButtonTypeOK
  <2>4. edges' = {"FALL"} /\ QueueFree'
    BY <2>1, <2>2 DEF ClickIdle, QueueFree
  <2>5. PressRaised'
    BY <2>2, <2>3, <2>4 DEF PressRaised, Debounced
  <2> QED BY <2>1, <2>2, <2>5 DEF CleanInv
<1>2. CASE ReleaseButton
  <2>1. button_down /\ clean /\ ClickIdle /\ Len(click_due) = 1
    BY <1>2, Zenon DEF ReleaseButton
  <2>2. PressTold /\ button_callback
    <3>1. ~PressRaised /\ ~ReleaseRaised
      BY <2>1 DEF PressRaised, ReleaseRaised, ClickIdle
    <3>2. ~PressPosted
      BY <2>1, PostedIsNotIdle DEF PressPosted
    <3>3. ~ReleasePosted /\ ~ReleaseTold
      BY <2>1, Zenon DEF ReleasePosted, ReleaseTold
    <3> QED BY <2>1, <3>1, <3>2, <3>3, Zenon DEF CleanInv
  <2>3. /\ ~button_down' /\ edges' = edges \cup {"RISE"}
        /\ click_due' = Append(click_due, IF quiet >= LongClickTime THEN "LONG_PRESS" ELSE "RELEASE")
        /\ told' = told
        /\ UNCHANGED <<since_release, click_queue, click_event, event_last, button_callback>>
    BY <1>2 DEF ReleaseButton, Contact, isrVars, clickThreadVars
  <2>4. PICK held \in Nat : event_last.age = Least(held, LastCap) /\ quiet = Least(held, QuietCap)
    BY <2>2 DEF PressTold
  <2>5. quiet >= LongClickTime <=> held >= LongClickTime
    BY <2>4 DEF Least
  <2>6. click_due' = <<"PRESS", HeldFor(held)>>
    <3>1. click_due' = Append(<<"PRESS">>, HeldFor(held))
      BY <2>2, <2>3, <2>5 DEF PressTold, HeldFor
    <3> QED BY <3>1, TwoReports
  <2>7. edges' = {"RISE"} /\ QueueFree'
    BY <2>1, <2>3 DEF ClickIdle, QueueFree
  <2>8. /\ Debounced(since_release)' /\ (event_last.status = "PRESS")' /\ told' = <<"PRESS">>
        /\ event_last'.age = Least(held, LastCap)
    BY <2>2, <2>3, <2>4 DEF PressTold, Debounced
  <2>9. ReleaseRaised'
    BY <2>3, <2>6, <2>7, <2>8 DEF ReleaseRaised
  <2> QED BY <2>2, <2>3, <2>9 DEF CleanInv
<1>3. CASE ButtonTick
  <2>1. clean /\ edges = {}
    BY <1>3, Zenon DEF ButtonTick
  <2>2. /\ UNCHANGED <<click_due, told, button_down, edges, button_callback>>
        /\ click_queue' = Older(click_queue) /\ click_event' = Older(click_event)
        /\ click_queue.age < MaxHandling /\ click_event.age < MaxHandling
        /\ quiet' = Least(quiet + 1, QuietCap)
        /\ since_release' = Least(since_release + 1, DebounceTime + 1)
        /\ event_last' = [event_last EXCEPT !.age = Least(@ + 1, LastCap)]
    BY <1>3 DEF ButtonTick
  <2>3. Debounced(since_release) => Debounced(since_release)'
    BY <2>2 DEF Debounced, Least, ButtonTypeOK
  <2>4. /\ event_last'.status = event_last.status
        /\ event_last'.age = Least(event_last.age + 1, LastCap)
    BY <2>2 DEF ButtonTypeOK
  <2>5. ClickIdle => ClickIdle'
    BY <2>2 DEF ClickIdle, Older
  <2>6. ASSUME NEW s \in {"PRESS", "RELEASE"}, NEW age \in 0 .. MaxHandling, Posted(s, age)
        PROVE  age + 1 \in 0 .. MaxHandling /\ Posted(s, age + 1)'
    <3> DEFINE e == [status |-> s, age |-> age]
    <3>1. e # NoClick /\ e.age = age /\ Older(e) = [status |-> s, age |-> age + 1]
      BY DEF NoClick, Older
    <3>2. Older(NoClick) = NoClick
      BY DEF Older
    <3>3. click_queue = e \/ click_event = e
      BY <2>6 DEF Posted
    <3>4. age < MaxHandling
      BY <2>2, <3>1, <3>3
    <3>5. Posted(s, age + 1)'
      BY <2>2, <2>6, <3>1, <3>2 DEF Posted
    <3> QED BY <3>4, <3>5
  <2>7. CASE PressPosted
    <3>1. PICK held \in 0 .. MaxHandling : Posted("PRESS", held) /\ quiet = Least(held, QuietCap)
      BY <2>7 DEF PressPosted
    <3>2. held + 1 \in 0 .. MaxHandling /\ Posted("PRESS", held + 1)'
      BY <2>6, <3>1
    <3>3. quiet' = Least(held + 1, QuietCap)
      BY <2>2, <3>1 DEF Least
    <3>4. PressPosted'
      BY <2>2, <2>3, <2>7, <3>2, <3>3 DEF PressPosted
    <3> QED BY <2>1, <2>2, <3>4 DEF CleanInv
  <2>8. CASE PressTold
    <3>1. PICK held \in Nat : event_last.age = Least(held, LastCap) /\ quiet = Least(held, QuietCap)
      BY <2>8 DEF PressTold
    <3>2. event_last'.age = Least(held + 1, LastCap) /\ quiet' = Least(held + 1, QuietCap)
      BY <2>2, <2>4, <3>1 DEF Least
    <3>3. PressTold'
      BY <2>2, <2>3, <2>4, <2>5, <2>8, <3>2 DEF PressTold
    <3> QED BY <2>1, <2>2, <3>3 DEF CleanInv
  <2>9. CASE ReleasePosted
    <3>1. PICK held \in Nat, age \in 0 .. MaxHandling :
              /\ Posted("RELEASE", age)
              /\ event_last.age = Least(held + age, LastCap)
              /\ click_due = <<"PRESS", HeldFor(held)>>
      BY <2>9 DEF ReleasePosted
    <3>2. age + 1 \in 0 .. MaxHandling /\ Posted("RELEASE", age + 1)'
      BY <2>6, <3>1
    <3>3. event_last'.age = Least(held + (age + 1), LastCap)
      BY <2>4, <3>1 DEF Least
    <3>4. ReleasePosted'
      BY <2>2, <2>4, <2>9, <3>1, <3>2, <3>3 DEF ReleasePosted
    <3> QED BY <2>1, <2>2, <3>4 DEF CleanInv
  <2>10. CASE ReleaseTold
    <3>1. ReleaseTold'
      BY <2>2, <2>5, <2>10 DEF ReleaseTold
    <3> QED BY <2>1, <2>2, <3>1 DEF CleanInv
  <2> QED BY <2>1, <2>2, <2>7, <2>8, <2>9, <2>10 DEF CleanInv, PressRaised, ReleaseRaised
<1>4. CASE OnClick
  <2>1. edges # {} /\ edges' = {} /\ quiet' = 0
        /\ UNCHANGED <<button_down, clean, click_due, told, click_event, event_last, button_callback>>
    BY <1>4 DEF OnClick, Edge, clickVars
  <2>2. PressRaised \/ ReleaseRaised
    BY <2>1 DEF CleanInv, PressPosted, PressTold, ReleasePosted, ReleaseTold, ClickIdle
  <2>3. CASE PressRaised
    <3>1. /\ click_queue' = [status |-> "PRESS", age |-> 0] /\ click_event' = NoClick
          /\ UNCHANGED since_release
      BY <1>4, <2>1, <2>3 DEF OnClick, PressRaised, Debounced, PostClick, QueueFree
    <3>2. Posted("PRESS", 0)' /\ quiet' = Least(0, QuietCap)
      BY <2>1, <3>1 DEF Posted, Least
    <3>3. PressPosted'
      BY <2>1, <2>3, <3>1, <3>2 DEF PressRaised, PressPosted, Debounced
    <3> QED BY <2>1, <3>3 DEF CleanInv
  <2>4. CASE ReleaseRaised
    <3>1. click_queue' = [status |-> "RELEASE", age |-> 0] /\ click_event' = NoClick
      BY <1>4, <2>1, <2>4 DEF OnClick, ReleaseRaised, Debounced, PostClick, QueueFree
    <3>2. Posted("RELEASE", 0)'
      BY <3>1 DEF Posted
    <3>3. PICK held \in Nat : /\ event_last.age = Least(held, LastCap)
                              /\ click_due = <<"PRESS", HeldFor(held)>>
      BY <2>4 DEF ReleaseRaised
    <3>4. event_last'.age = Least(held + 0, LastCap)
      BY <2>1, <3>3
    <3>5. ReleasePosted'
      BY <2>1, <2>4, <3>2, <3>3, <3>4 DEF ReleaseRaised, ReleasePosted
    <3> QED BY <2>1, <3>5 DEF CleanInv
  <2> QED BY <2>2, <2>3, <2>4
<1>5. CASE FetchClick
  <2>1. /\ click_event = NoClick /\ click_queue # NoClick
        /\ click_event' = click_queue /\ click_queue' = NoClick
        /\ UNCHANGED <<button_down, quiet, edges, since_release, event_last, button_callback, clean,
                       click_due, told>>
    BY <1>5 DEF FetchClick, pinVars, isrVars, clickVars
  <2>2. PressPosted \/ ReleasePosted
    BY <2>1 DEF CleanInv, PressRaised, PressTold, ReleaseRaised, ReleaseTold, ClickIdle, QueueFree
  <2>3. ASSUME NEW s, NEW age, Posted(s, age) PROVE Posted(s, age)'
    BY <2>1, <2>3 DEF Posted
  <2>4. CASE PressPosted
    <3>1. PressPosted'
      BY <2>1, <2>3, <2>4 DEF PressPosted, Debounced
    <3> QED BY <2>1, <3>1 DEF CleanInv
  <2>5. CASE ReleasePosted
    <3>1. ReleasePosted'
      BY <2>1, <2>3, <2>5 DEF ReleasePosted
    <3> QED BY <2>1, <3>1 DEF CleanInv
  <2> QED BY <2>2, <2>4, <2>5
<1>6. CASE HandleClick
  <2>1. /\ click_event # NoClick /\ click_event' = NoClick
        /\ UNCHANGED <<button_down, quiet, edges, since_release, click_queue, button_callback, clean,
                       click_due>>
    BY <1>6 DEF HandleClick, pinVars, isrVars
  <2>2. PressPosted \/ ReleasePosted
    BY <2>1 DEF CleanInv, PressRaised, PressTold, ReleaseRaised, ReleaseTold, ClickIdle, QueueFree
  <2>3. button_callback /\ clean
    BY <2>1, Zenon DEF CleanInv
  <2>4. /\ event_last' = click_event
        /\ told' = Append(told, IF IsLong THEN "LONG_PRESS" ELSE click_event.status)
    BY <1>6, <2>3 DEF HandleClick
  <2>5. ASSUME NEW s, NEW age, Posted(s, age)
        PROVE  click_event = [status |-> s, age |-> age] /\ click_queue = NoClick
    BY <2>1, <2>5 DEF Posted
  <2>6. CASE PressPosted
    <3>1. PICK held \in 0 .. MaxHandling : Posted("PRESS", held) /\ quiet = Least(held, QuietCap)
      BY <2>6 DEF PressPosted
    <3>2. click_event = [status |-> "PRESS", age |-> held] /\ click_queue = NoClick
      BY <2>5, <3>1
    <3>3. told' = <<"PRESS">>
      <4>1. ~IsLong
        BY <3>2 DEF IsLong
      <4> QED BY <2>4, <2>6, <3>2, <4>1, TwoReports DEF PressPosted
    <3>4. event_last'.age = Least(held, LastCap) /\ event_last'.status = "PRESS"
      BY <2>4, <3>2 DEF Least
    <3>5. ClickIdle'
      BY <2>1, <2>6, <3>2 DEF ClickIdle, PressPosted
    <3>6. held \in Nat /\ quiet' = Least(held, QuietCap)
      BY <2>1, <3>1
    <3>7. PressTold'
      BY <2>1, <2>6, <3>3, <3>4, <3>5, <3>6 DEF PressPosted, PressTold, Debounced
    <3> QED BY <2>1, <2>3, <3>7 DEF CleanInv
  <2>7. CASE ReleasePosted
    <3>1. PICK held \in Nat, age \in 0 .. MaxHandling :
              /\ Posted("RELEASE", age)
              /\ event_last.age = Least(held + age, LastCap)
              /\ click_due = <<"PRESS", HeldFor(held)>>
      BY <2>7 DEF ReleasePosted
    <3>2. click_event = [status |-> "RELEASE", age |-> age] /\ click_queue = NoClick
      BY <2>5, <3>1
    <3>3. IsLong <=> held >= LongClickTime
      <4>1. Least(held + age, LastCap) - age >= LongClickTime <=> held >= LongClickTime
        BY DEF Least
      <4>2. event_last.status = "PRESS" /\ click_event.status = "RELEASE" /\ click_event.age = age
        BY <2>7, <3>2 DEF ReleasePosted
      <4> QED BY <3>1, <4>1, <4>2 DEF IsLong
    <3>4. told' = click_due
      <4>1. told' = Append(<<"PRESS">>, HeldFor(held))
        BY <2>4, <2>7, <3>2, <3>3 DEF ReleasePosted, HeldFor
      <4> QED BY <3>1, <4>1, TwoReports
    <3>5. Len(click_due) = 2
      BY <3>1
    <3>6. ClickIdle'
      BY <2>1, <2>7, <3>2 DEF ClickIdle, ReleasePosted
    <3>7. ReleaseTold'
      BY <2>1, <2>7, <3>4, <3>5, <3>6 DEF ReleasePosted, ReleaseTold
    <3> QED BY <2>1, <2>3, <3>7 DEF CleanInv
  <2> QED BY <2>2, <2>6, <2>7
<1>7. CASE SetOnButtonClick
    BY <1>7, Zenon DEF SetOnButtonClick, CleanInv, clickVars
<1>8. CASE UNCHANGED buttonVars
    BY <1>8, Zenon DEF buttonVars, pinVars, isrVars, clickThreadVars, clickVars, CleanInv,
        PressRaised, PressPosted, PressTold, ReleaseRaised, ReleasePosted, ReleaseTold, Posted,
        QueueFree, ClickIdle, Debounced
<1> QED BY <1>1, <1>2, <1>3, <1>4, <1>5, <1>6, <1>7, <1>8 DEF ButtonNext

LEMMA ButtonFirst == ButtonInit => ButtonInv
<1> SUFFICES ASSUME ButtonInit PROVE ButtonInv
    OBVIOUS
<1>1. ButtonTypeOK
    BY ButtonTimes DEF ButtonInit, ButtonTypeOK
<1>2. RestedInv
    BY ButtonTimes DEF ButtonInit, RestedInv, Least
<1>3. CleanInv
    BY Zenon DEF ButtonInit, CleanInv
<1> QED BY <1>1, <1>2, <1>3 DEF ButtonInv

(* Whatever came before, a click that begins clean goes through its stages,  *)
(* for every debounce time, time of a long click and delay of the thread.    *)
THEOREM ButtonCorrect == ButtonSpec => []ButtonInv
<1>1. ButtonInv /\ [ButtonNext]_buttonVars => ButtonInv'
  <2> SUFFICES ASSUME ButtonInv, [ButtonNext]_buttonVars PROVE ButtonInv'
    OBVIOUS
  <2>1. ButtonTypeOK' /\ RestedInv'
    BY ButtonTyped, RestedStep DEF ButtonInv
  <2>2. CleanInv'
    <3>1. CASE clean'
      BY <3>1, CleanStep DEF ButtonInv
    <3> QED BY <3>1 DEF CleanInv
  <2> QED BY <2>1, <2>2 DEF ButtonInv
<1> QED BY <1>1, ButtonFirst, PTL DEF ButtonSpec

(* A clean click is told as a press and then a release, the long one exactly *)
(* when it was held for that long (pico-button.cpp:61-117).                  *)
THEOREM ClicksReported == ButtonSpec => []CleanClicksReported
<1>1. ButtonInv => CleanClicksReported
  <2> SUFFICES ASSUME ButtonInv, clean
               PROVE  IsPrefix(told, click_due) /\ (ClickIdle => told = click_due)
    BY DEF CleanClicksReported
  <2>1. ASSUME NEW s, Len(s) \in Nat PROVE IsPrefix(s, s)
    BY <2>1 DEF IsPrefix
  <2>2. CASE PressRaised
    BY <2>2 DEF PressRaised, ClickIdle, IsPrefix
  <2>3. CASE PressPosted
    BY <2>3, PostedIsNotIdle DEF PressPosted, IsPrefix
  <2>4. CASE PressTold \/ ReleaseTold
    <3>1. told = click_due /\ Len(told) \in {1, 2}
      BY <2>4 DEF PressTold, ReleaseTold
    <3> QED BY <2>1, <3>1
  <2>5. ASSUME NEW x, told = <<"PRESS">>, click_due = <<"PRESS", x>> PROVE IsPrefix(told, click_due)
    BY <2>5 DEF IsPrefix
  <2>6. CASE ReleaseRaised
    BY <2>5, <2>6 DEF ReleaseRaised, ClickIdle
  <2>7. CASE ReleasePosted
    BY <2>5, <2>7, PostedIsNotIdle DEF ReleasePosted
  <2> QED BY <2>2, <2>3, <2>4, <2>6, <2>7 DEF ButtonInv, CleanInv
<1> QED BY <1>1, ButtonCorrect, PTL

-----------------------------------------------------------------------------
(* The rotary encoder.  A turn has four moves, from rest to rest.  While it  *)
(* is undisturbed the sample before is of this position, of the one before,  *)
(* or, while a sample of that one is on its way, of the one before that; and *)
(* what has been reported is told by the sample that was reported last.      *)

Direction == {"cw", "ccw"}

\* Where the knob is m moves after its rest, and which of its contacts are high there.
PositionAfter(d, m) ==
    IF m = 2 THEN 1 ELSE IF m \in {0, 4} THEN Rest
    ELSE IF m = (IF d = "cw" THEN 1 ELSE 3) THEN 4 ELSE 2
HighA(d, m) == m \in {0, 4} \/ m = (IF d = "cw" THEN 1 ELSE 3)
HighB(d, m) == m \in {0, 4} \/ m = (IF d = "cw" THEN 3 ELSE 1)

Reads(s, d, m) == (s.a <=> HighA(d, m)) /\ (s.b <=> HighB(d, m))

\* The third move is the one that is reported.
ToldAfter(d, m) == IF m >= 3 THEN <<d>> ELSE <<>>

Sampling == {"turn", "click"}

EncoderTypeOK ==
    /\ knob \in 1 .. 4 /\ button_up \in BOOLEAN
    /\ sampled \in [a : BOOLEAN, b : BOOLEAN, btn : BOOLEAN]
    /\ last_sample \in [a : BOOLEAN, b : BOOLEAN, btn : BOOLEAN]
    /\ encoder_at \in {"a", "b", "turn", "click"}
    /\ unread \in 0 .. 2

\* m moves were made; l of them are in the sample before, s in the present one.
TurnAt(m, l, s) ==
    /\ knob = PositionAfter(turned, m)
    /\ Reads(last_sample, turned, l)
    /\ encoder_at = "a" =>
           (unread = 0 /\ l = m) \/ (unread = 2 /\ l \in {m - 1, m})
    /\ encoder_at = "b" =>
           \/ unread = 0 /\ l = m /\ (sampled.a <=> HighA(turned, m))
           \/ unread = 1 /\ l \in {m - 1, m} /\ (sampled.a <=> HighA(turned, m))
           \/ unread = 2 /\ l = m - 1 /\ (sampled.a <=> HighA(turned, l))
    /\ encoder_at \in Sampling =>
           /\ Reads(sampled, turned, s) /\ s \in {l, l + 1}
           /\ (unread = 0 /\ s = m) \/ (unread = 2 /\ s \in {m - 1, m})
    /\ reports = ToldAfter(turned, IF encoder_at = "click" THEN s ELSE l)

Turning ==
    /\ encoder_callback /\ turned \in Direction
    /\ \E m \in 1 .. 4 : \E l, s \in 0 .. 4 : TurnAt(m, l, s)

\* A press has not been reported, or nothing is to be reported.
PressAt ==
    \/ /\ presses = 1 /\ clicks = 0
       /\ ~button_up /\ last_sample.btn
       /\ encoder_at \in Sampling => ~sampled.btn /\ ~Ccw(sampled) /\ ~Cw(sampled)
    \/ /\ clicks = presses
       /\ ~button_up => ~last_sample.btn
       /\ encoder_at \in Sampling => /\ ~sampled.btn => ~last_sample.btn
                                     /\ ~button_up => ~sampled.btn

EncoderInv == EncoderTypeOK /\ (undisturbed => Turning /\ PressAt)

LEMMA ContactPairs ==
    ASSUME NEW k \in 1 .. 4
    PROVE  /\ Contacts[k][1] \in BOOLEAN /\ Contacts[k][2] \in BOOLEAN
           /\ Contacts[k][1] <=> k \in {3, 4}
           /\ Contacts[k][2] <=> k \in {2, 3}
<1>1. CASE k = 1
    BY <1>1 DEF Contacts
<1>2. CASE k = 2
    BY <1>2 DEF Contacts
<1>3. CASE k = 3
    BY <1>3 DEF Contacts
<1>4. CASE k = 4
    BY <1>4 DEF Contacts
<1> QED BY <1>1, <1>2, <1>3, <1>4

\* What the contacts read where the knob is, and where it is after one more move.
LEMMA KnobReads ==
    ASSUME NEW d \in Direction, NEW m \in 0 .. 4
    PROVE  /\ PositionAfter(d, m) \in 1 .. 4
           /\ Contacts[PositionAfter(d, m)][1] <=> HighA(d, m)
           /\ Contacts[PositionAfter(d, m)][2] <=> HighB(d, m)
<1>1. m \in {0, 1, 2, 3, 4}
    OBVIOUS
<1>2. /\ PositionAfter(d, m) \in 1 .. 4
      /\ PositionAfter(d, m) \in {3, 4} <=> HighA(d, m)
      /\ PositionAfter(d, m) \in {2, 3} <=> HighB(d, m)
    BY <1>1 DEF PositionAfter, HighA, HighB, Direction, Rest
<1>3. /\ Contacts[PositionAfter(d, m)][1] <=> PositionAfter(d, m) \in {3, 4}
      /\ Contacts[PositionAfter(d, m)][2] <=> PositionAfter(d, m) \in {2, 3}
    BY <1>2, ContactPairs, Zenon
<1> QED BY <1>2, <1>3, Zenon

LEMMA KnobMoves ==
    ASSUME NEW d \in Direction, NEW m \in 0 .. 3
    PROVE  PositionAfter(d, m + 1) =
               (IF d = "cw" THEN PositionAfter(d, m) % 4 ELSE (PositionAfter(d, m) + 2) % 4) + 1
<1>1. m \in {0, 1, 2, 3}
    OBVIOUS
<1> QED BY <1>1 DEF PositionAfter, Direction, Rest

\* From one position to the next only one of the contacts changes.
LEMMA OneContactMoves ==
    ASSUME NEW d \in Direction, NEW m \in 0 .. 3
    PROVE  (HighA(d, m + 1) <=> HighA(d, m)) \/ (HighB(d, m + 1) <=> HighB(d, m))
<1>1. m \in {0, 1, 2, 3}
    OBVIOUS
<1> QED BY <1>1 DEF HighA, HighB, Direction

\* Of two samples, the later of the same position or of the next, the third move is told.
LEMMA ThirdMoveTold ==
    ASSUME NEW d \in Direction, NEW l \in 0 .. 4, NEW s \in 0 .. 4, s \in {l, l + 1},
           EncoderTypeOK, Reads(last_sample, d, l), Reads(sampled, d, s)
    PROVE  /\ Ccw(sampled) <=> s = 3 /\ l = 2 /\ d = "ccw"
           /\ Cw(sampled) <=> s = 3 /\ l = 2 /\ d = "cw"
<1>1. /\ last_sample.a \in BOOLEAN /\ last_sample.b \in BOOLEAN
      /\ sampled.a \in BOOLEAN /\ sampled.b \in BOOLEAN
    BY DEF EncoderTypeOK
<1>2. l \in {0, 1, 2, 3, 4}
    OBVIOUS
<1> QED BY <1>1, <1>2 DEF Ccw, Cw, Reads, HighA, HighB, Direction

LEMMA EncoderTyped == ASSUME EncoderTypeOK, [EncoderNext]_encoderVars PROVE EncoderTypeOK'
<1>1. \A k \in 1 .. 4 : Contacts[k][1] \in BOOLEAN /\ Contacts[k][2] \in BOOLEAN
    BY ContactPairs
<1>2. ASSUME NEW d \in Direction, Turn(d) PROVE EncoderTypeOK'
  <2>1. /\ knob' = (IF d = "cw" THEN knob % 4 ELSE (knob + 2) % 4) + 1 /\ unread' = 2
        /\ UNCHANGED <<button_up, sampled, last_sample, encoder_at>>
    BY <1>2, Zenon DEF Turn, samplerVars
  <2>2. knob' \in 1 .. 4
    BY <2>1 DEF EncoderTypeOK
  <2> QED BY <2>1, <2>2 DEF EncoderTypeOK
<1>3. CASE PressKnob \/ ReleaseKnob
  <2>1. button_up' \in BOOLEAN /\ UNCHANGED <<knob, sampled, last_sample, encoder_at, unread>>
    BY <1>3, Zenon DEF PressKnob, ReleaseKnob, samplerVars
  <2> QED BY <2>1 DEF EncoderTypeOK
<1>4. CASE ReadA
  <2>1. /\ encoder_at' = "b" /\ sampled' = [sampled EXCEPT !.a = Contacts[knob][1]]
        /\ unread' = (IF unread = 2 THEN 1 ELSE 0) /\ UNCHANGED <<knob, button_up, last_sample>>
    BY <1>4, Zenon DEF ReadA, knobVars
  <2> QED BY <1>1, <2>1 DEF EncoderTypeOK
<1>5. CASE ReadB
  <2>1. /\ encoder_at' = "turn"
        /\ sampled' = [sampled EXCEPT !.b = Contacts[knob][2], !.btn = button_up]
        /\ unread' = (IF unread = 1 THEN 0 ELSE unread) /\ UNCHANGED <<knob, button_up, last_sample>>
    BY <1>5, Zenon DEF ReadB, knobVars
  <2>2. Contacts[knob][2] \in BOOLEAN /\ button_up \in BOOLEAN
    BY <1>1 DEF EncoderTypeOK
  <2>3. sampled' \in [a : BOOLEAN, b : BOOLEAN, btn : BOOLEAN]
    BY <2>1, <2>2 DEF EncoderTypeOK
  <2> QED BY <2>1, <2>3 DEF EncoderTypeOK
<1>6. CASE ReportTurn \/ ReportClick
  <2>1. /\ encoder_at' \in {"a", "click"} /\ last_sample' \in {last_sample, sampled}
        /\ UNCHANGED <<knob, button_up, sampled, unread>>
    BY <1>6 DEF ReportTurn, ReportClick, knobVars
  <2> QED BY <2>1 DEF EncoderTypeOK
<1>7. CASE SetOnRotaryEncoderEvent \/ UNCHANGED encoderVars
  <2>1. UNCHANGED <<knob, button_up, sampled, last_sample, encoder_at, unread>>
    BY <1>7, Zenon DEF SetOnRotaryEncoderEvent, encoderVars, knobVars, samplerVars, turnVars
  <2> QED BY <2>1 DEF EncoderTypeOK
<1> QED BY <1>2, <1>3, <1>4, <1>5, <1>6, <1>7 DEF EncoderNext, Direction

\* A move of an undisturbed turn comes after its position has been sampled.
LEMMA MoveTurning ==
    ASSUME EncoderTypeOK, undisturbed => Turning /\ PressAt,
           NEW d \in Direction, Turn(d), undisturbed'
    PROVE  Turning' /\ PressAt'
<1>1. /\ knob' = (IF d = "cw" THEN knob % 4 ELSE (knob + 2) % 4) + 1 /\ unread' = 2
      /\ UNCHANGED <<button_up, sampled, last_sample, encoder_at, encoder_callback>>
    BY Zenon DEF Turn, samplerVars
<1>2. CASE knob = Rest
  <2>1. /\ turned' = d /\ reports' = <<>> /\ presses' = 0 /\ clicks' = 0
        /\ KnobSettled /\ encoder_callback
    BY <1>2, Zenon DEF Turn
  <2>2. /\ encoder_at = "a" /\ last_sample.btn = button_up
        /\ last_sample.a = Contacts[knob][1] /\ last_sample.b = Contacts[knob][2]
    BY <2>1 DEF KnobSettled
  <2>3. PositionAfter(d, 0) = knob /\ knob' = PositionAfter(d, 1)
    <3>1. PositionAfter(d, 0) = knob
      BY <1>2 DEF PositionAfter
    <3> QED BY <1>1, <3>1, KnobMoves
  <2>4. Reads(last_sample, d, 0)
    <3>1. /\ Contacts[PositionAfter(d, 0)][1] <=> HighA(d, 0)
          /\ Contacts[PositionAfter(d, 0)][2] <=> HighB(d, 0)
      BY KnobReads
    <3> QED BY <2>2, <2>3, <3>1, Zenon DEF Reads
  <2>5. TurnAt(1, 0, 0)'
    BY <1>1, <2>1, <2>2, <2>3, <2>4 DEF TurnAt, Reads, ToldAfter, Sampling
  <2>6. Turning'
    BY <1>1, <2>1, <2>5 DEF Turning
  <2>7. PressAt'
    BY <1>1, <2>1, <2>2 DEF PressAt, Sampling, EncoderTypeOK
  <2> QED BY <2>6, <2>7
<1>3. CASE knob # Rest
  <2>1. /\ undisturbed /\ unread = 0 /\ turned' = d /\ reports' = reports
        /\ turned' = (IF turned = d THEN d ELSE "back")
        /\ UNCHANGED <<presses, clicks>>
    BY <1>3, Zenon DEF Turn
  <2>2. turned = d /\ turned' = turned
    BY <2>1 DEF Direction
  <2>3. PICK m \in 1 .. 4, l \in 0 .. 4, s \in 0 .. 4 : TurnAt(m, l, s)
    BY <2>1 DEF Turning
  <2>4. m \in 1 .. 3
    BY <1>3, <2>2, <2>3 DEF TurnAt, PositionAfter
  <2>5. knob' = PositionAfter(turned, m + 1)
    BY <1>1, <2>2, <2>3, <2>4, KnobMoves DEF TurnAt
  <2>6. TurnAt(m + 1, l, s)'
    BY <1>1, <2>1, <2>2, <2>3, <2>4, <2>5 DEF TurnAt, Reads, Sampling, EncoderTypeOK
  <2>7. Turning'
    BY <1>1, <2>1, <2>2, <2>4, <2>6 DEF Turning
  <2>8. PressAt'
    BY <1>1, <2>1, Zenon DEF PressAt, Ccw, Cw
  <2> QED BY <2>7, <2>8
<1> QED BY <1>2, <1>3

\* The thread's steps, while the turn is undisturbed.
LEMMA SampleTurning ==
    ASSUME EncoderTypeOK, Turning, PressAt, undisturbed, undisturbed',
           ReadA \/ ReadB \/ ReportTurn \/ ReportClick
    PROVE  Turning' /\ PressAt'
<1>1. PICK m \in 1 .. 4, l \in 0 .. 4, s \in 0 .. 4 : TurnAt(m, l, s)
    BY DEF Turning
<1>2. /\ turned \in Direction /\ encoder_callback
      /\ UNCHANGED <<knob, button_up, turned, presses, encoder_callback>>
    BY Zenon DEF Turning, ReadA, ReadB, ReportTurn, ReportClick, knobVars
<1>3. ASSUME NEW k \in 0 .. 4, NEW r \in 0 .. 4, TurnAt(m, k, r)' PROVE Turning'
    BY <1>2, <1>3 DEF Turning
<1>4. /\ Contacts[knob][1] <=> HighA(turned, m)
      /\ Contacts[knob][2] <=> HighB(turned, m)
    BY <1>1, <1>2, KnobReads DEF TurnAt
<1>5. CASE ReadA
  <2>1. /\ encoder_at = "a" /\ encoder_at' = "b"
        /\ sampled' = [sampled EXCEPT !.a = Contacts[knob][1]]
        /\ unread' = (IF unread = 2 THEN 1 ELSE 0)
        /\ UNCHANGED <<last_sample, reports, clicks>>
    BY <1>5, Zenon DEF ReadA
  <2>2. sampled'.a <=> HighA(turned, m)
    <3>1. sampled'.a = Contacts[knob][1]
      BY <2>1 DEF EncoderTypeOK
    <3> QED BY <1>4, <3>1, Zenon
  <2>3. TurnAt(m, l, s)'
    BY <1>1, <1>2, <2>1, <2>2 DEF TurnAt, Reads, Sampling
  <2>4. PressAt'
    BY <1>2, <2>1 DEF PressAt, Sampling
  <2> QED BY <1>3, <2>3, <2>4
<1>6. CASE ReadB
  <2>1. /\ encoder_at = "b" /\ encoder_at' = "turn"
        /\ sampled' = [sampled EXCEPT !.b = Contacts[knob][2], !.btn = button_up]
        /\ unread' = (IF unread = 1 THEN 0 ELSE unread)
        /\ ~(Click(sampled') /\ (Ccw(sampled') \/ Cw(sampled')))
        /\ UNCHANGED <<last_sample, reports, clicks>>
    BY <1>6, Zenon DEF ReadB
  <2>2. /\ sampled'.a = sampled.a /\ sampled'.btn = button_up
        /\ sampled'.b <=> HighB(turned, m)
    <3>1. sampled'.a = sampled.a /\ sampled'.b = Contacts[knob][2] /\ sampled'.btn = button_up
      BY <2>1 DEF EncoderTypeOK
    <3> QED BY <1>4, <3>1, Zenon
  <2>3. ASSUME unread \in {0, 1} PROVE Turning'
    <3>1. l \in {m - 1, m} /\ (sampled.a <=> HighA(turned, m))
      BY <1>1, <2>1, <2>3 DEF TurnAt
    <3>2. Reads(sampled', turned, m)
      BY <2>2, <3>1, Zenon DEF Reads
    <3>3. /\ knob = PositionAfter(turned, m) /\ Reads(last_sample, turned, l)
          /\ reports = ToldAfter(turned, l)
      BY <1>1, <2>1 DEF TurnAt
    <3>4. unread' = 0 /\ m \in {l, l + 1}
      BY <2>1, <2>3, <3>1
    <3>5. TurnAt(m, l, m)'
      <4>1. encoder_at' = "turn" /\ UNCHANGED <<knob, turned, last_sample, reports>>
        BY <1>2, <2>1
      <4>2. encoder_at' \in Sampling /\ encoder_at' \notin {"a", "b", "click"}
        BY <4>1 DEF Sampling
      <4>3. Reads(last_sample', turned', l) /\ Reads(sampled', turned', m)
        BY <3>2, <3>3, <3>4, <4>1, Zenon
      <4>4. reports' = ToldAfter(turned', IF encoder_at' = "click" THEN m ELSE l)
        BY <3>3, <4>1
      <4> QED BY <3>2, <3>3, <3>4, <4>1, <4>2, <4>3, <4>4, Zenon DEF TurnAt
    <3> QED BY <1>3, <3>5
  <2>4. ASSUME unread = 2 PROVE Turning'
    <3>1. l = m - 1 /\ (sampled.a <=> HighA(turned, l))
      BY <1>1, <2>1, <2>4 DEF TurnAt
    <3>2. l \in 0 .. 3 /\ m = l + 1
      BY <3>1
    <3>3. PICK r \in {l, m} : (HighA(turned, l) <=> HighA(turned, r))
                              /\ (HighB(turned, m) <=> HighB(turned, r))
      BY <1>2, <3>2, OneContactMoves
    <3>4. Reads(sampled', turned, r)
      BY <2>2, <3>1, <3>3, Zenon DEF Reads
    <3>5. /\ knob = PositionAfter(turned, m) /\ Reads(last_sample, turned, l)
          /\ reports = ToldAfter(turned, l)
      BY <1>1, <2>1 DEF TurnAt
    <3>6. unread' = 2 /\ r \in {l, l + 1} /\ r \in {m - 1, m}
      BY <2>1, <2>4, <3>2
    <3>7. TurnAt(m, l, r)'
      <4>1. encoder_at' = "turn" /\ UNCHANGED <<knob, turned, last_sample, reports>>
        BY <1>2, <2>1
      <4>2. encoder_at' \in Sampling /\ encoder_at' \notin {"a", "b", "click"}
        BY <4>1 DEF Sampling
      <4>3. Reads(last_sample', turned', l) /\ Reads(sampled', turned', r)
        BY <3>4, <3>5, <3>6, <4>1, Zenon
      <4>4. reports' = ToldAfter(turned', IF encoder_at' = "click" THEN r ELSE l)
        BY <3>5, <4>1
      <4> QED BY <3>4, <3>5, <3>6, <4>1, <4>2, <4>3, <4>4, Zenon DEF TurnAt
    <3> QED BY <1>3, <3>2, <3>7
  <2>5. Turning'
    BY <2>3, <2>4 DEF EncoderTypeOK
  <2>6. PressAt'
    <3>1. CASE presses = 1 /\ clicks = 0 /\ ~button_up /\ last_sample.btn
      <4>1. ~sampled'.btn /\ Click(sampled')
        BY <2>2, <3>1 DEF Click, EncoderTypeOK
      <4>2. ~Ccw(sampled') /\ ~Cw(sampled')
        BY <2>1, <4>1
      <4> QED BY <1>2, <2>1, <3>1, <4>1, <4>2, Zenon DEF PressAt, Ccw, Cw
    <3>2. CASE clicks = presses /\ (~button_up => ~last_sample.btn)
      BY <1>2, <2>1, <2>2, <3>2, Zenon DEF PressAt
    <3> QED BY <3>1, <3>2 DEF PressAt
  <2> QED BY <2>5, <2>6
<1>7. ASSUME encoder_at \in Sampling
      PROVE  /\ Reads(last_sample, turned, l) /\ Reads(sampled, turned, s)
             /\ Ccw(sampled) <=> s = 3 /\ l = 2 /\ turned = "ccw"
             /\ Cw(sampled) <=> s = 3 /\ l = 2 /\ turned = "cw"
             /\ s \in {l, l + 1}
  <2>1. Reads(last_sample, turned, l) /\ Reads(sampled, turned, s) /\ s \in {l, l + 1}
    BY <1>1, <1>7 DEF TurnAt
  <2> QED BY <1>2, <2>1, ThirdMoveTold
<1>8. CASE ReportTurn
  <2>1. /\ encoder_at = "turn" /\ encoder_at' = "click"
        /\ IF Ccw(sampled) \/ Cw(sampled) THEN Tell(sampled) ELSE UNCHANGED <<reports, clicks>>
        /\ UNCHANGED <<sampled, last_sample, unread>>
    BY <1>8, Zenon DEF ReportTurn
  <2>2. reports = ToldAfter(turned, l)
    BY <1>1, <2>1 DEF TurnAt
  <2>3. encoder_at \in Sampling
    BY <2>1 DEF Sampling
  <2>4. Ccw(sampled) \/ Cw(sampled) => ~Click(sampled)
    <3>1. Ccw(sampled) \/ Cw(sampled) => (~sampled.btn => ~last_sample.btn)
      BY <2>3, Zenon DEF PressAt
    <3> QED BY <3>1 DEF Click, EncoderTypeOK
  <2>5. clicks' = clicks
    BY <2>1, <2>4 DEF Tell
  <2>6. reports' = ToldAfter(turned, s)
    <3>1. CASE s = 3 /\ l = 2
      <4>1. /\ reports' = reports \o (IF Ccw(sampled) THEN <<"ccw">> ELSE <<>>)
                                  \o (IF Cw(sampled) THEN <<"cw">> ELSE <<>>)
        BY <1>2, <1>7, <2>1, <2>3, <3>1 DEF Tell, Direction
      <4>2. reports = <<>>
        BY <2>2, <3>1 DEF ToldAfter
      <4>3. CASE turned = "ccw"
        <5>1. reports' = <<>> \o <<"ccw">> \o <<>>
          BY <1>7, <2>3, <3>1, <4>1, <4>2, <4>3
        <5> QED BY <3>1, <4>3, <5>1 DEF ToldAfter
      <4>4. CASE turned = "cw"
        <5>1. reports' = <<>> \o <<>> \o <<"cw">>
          BY <1>7, <2>3, <3>1, <4>1, <4>2, <4>4
        <5> QED BY <3>1, <4>4, <5>1 DEF ToldAfter
      <4> QED BY <1>2, <4>3, <4>4 DEF Direction
    <3>2. CASE ~(s = 3 /\ l = 2)
      <4>1. reports' = reports
        BY <1>7, <2>1, <2>3, <3>2
      <4>2. s >= 3 <=> l >= 3
        BY <1>7, <2>3, <3>2
      <4> QED BY <2>2, <4>1, <4>2 DEF ToldAfter
    <3> QED BY <3>1, <3>2
  <2>7. TurnAt(m, l, s)'
    BY <1>1, <1>2, <2>1, <2>3, <2>6 DEF TurnAt, Reads, Sampling
  <2>8. PressAt'
    <3>1. encoder_at' \in Sampling
      BY <2>1 DEF Sampling
    <3> QED BY <1>2, <2>1, <2>3, <2>5, <3>1, Zenon DEF PressAt, Ccw, Cw
  <2> QED BY <1>3, <2>7, <2>8
<1>9. CASE ReportClick
  <2>1. /\ encoder_at = "click" /\ encoder_at' = "a" /\ last_sample' = sampled
        /\ IF Click(sampled) THEN Tell(sampled) ELSE UNCHANGED <<reports, clicks>>
        /\ UNCHANGED <<sampled, unread>>
    BY <1>9, Zenon DEF ReportClick
  <2>2. reports = ToldAfter(turned, s)
    BY <1>1, <2>1 DEF TurnAt
  <2>3. encoder_at \in Sampling
    BY <2>1 DEF Sampling
  <2>4. CASE Click(sampled)
    <3>1. /\ presses = 1 /\ clicks = 0 /\ ~Ccw(sampled) /\ ~Cw(sampled)
          /\ ~button_up /\ ~sampled.btn
      <4>1. last_sample.btn /\ ~sampled.btn
        BY <2>4 DEF Click, EncoderTypeOK
      <4> QED BY <2>3, <4>1, Zenon DEF PressAt
    <3>2. reports' = reports \o <<>> \o <<>> /\ clicks' = clicks + 1
      BY <1>2, <2>1, <2>4, <3>1 DEF Tell
    <3>3. reports' = reports
      BY <2>2, <3>2 DEF ToldAfter
    <3>4. TurnAt(m, s, s)'
      BY <1>1, <1>2, <2>1, <2>3, <3>3 DEF TurnAt, Reads, Sampling
    <3>5. clicks' = presses'
      BY <1>2, <3>1, <3>2
    <3>6. PressAt'
      BY <1>2, <2>1, <3>1, <3>5 DEF PressAt, Sampling
    <3> QED BY <1>3, <3>4, <3>6
  <2>5. CASE ~Click(sampled)
    <3>1. UNCHANGED <<reports, clicks>>
      BY <2>1, <2>5
    <3>2. TurnAt(m, s, s)'
      BY <1>1, <1>2, <2>1, <2>3, <3>1 DEF TurnAt, Reads, Sampling
    <3>3. clicks = presses /\ (~button_up => ~sampled.btn)
      <4>1. ~last_sample.btn \/ sampled.btn
        BY <2>5 DEF Click, EncoderTypeOK
      <4> QED BY <2>3, <4>1, Zenon DEF PressAt
    <3>4. encoder_at' \notin Sampling
      BY <2>1 DEF Sampling
    <3>5. PressAt'
      BY <1>2, <2>1, <3>1, <3>3, <3>4, Zenon DEF PressAt
    <3> QED BY <1>3, <3>2, <3>5
  <2> QED BY <2>4, <2>5
<1> QED BY <1>5, <1>6, <1>8, <1>9

LEMMA EncoderStep == ASSUME EncoderInv, [EncoderNext]_encoderVars PROVE EncoderInv'
<1>1. EncoderTypeOK'
    BY EncoderTyped DEF EncoderInv
<1> SUFFICES ASSUME undisturbed' PROVE Turning' /\ PressAt'
    BY <1>1 DEF EncoderInv
<1>2. undisturbed => Turning /\ PressAt
    BY DEF EncoderInv
<1>3. CASE \E d \in {"cw", "ccw"} : Turn(d)
    BY <1>2, <1>3, MoveTurning DEF EncoderInv, Direction
<1>4. ASSUME UNCHANGED <<knob, sampled, last_sample, encoder_at, encoder_callback, unread, turned,
                         reports>>, Turning
      PROVE  Turning'
  <2>1. PICK m \in 1 .. 4, l \in 0 .. 4, s \in 0 .. 4 : TurnAt(m, l, s)
    BY <1>4 DEF Turning
  <2>2. TurnAt(m, l, s)'
    BY <1>4, <2>1, Zenon DEF TurnAt, Reads
  <2> QED BY <1>4, <2>2 DEF Turning
<1>5. CASE PressKnob
  <2>1. /\ undisturbed /\ last_sample.btn /\ encoder_at = "a"
        /\ ~button_up' /\ clicks' = 0 /\ presses' = 1
        /\ UNCHANGED <<knob, sampled, last_sample, encoder_at, encoder_callback, unread, turned,
                       reports>>
    BY <1>5 DEF PressKnob, samplerVars
  <2>2. PressAt'
    BY <2>1 DEF PressAt, Sampling
  <2> QED BY <1>2, <1>4, <2>1, <2>2
<1>6. CASE ReleaseKnob
  <2>1. /\ undisturbed /\ ~last_sample.btn /\ button_up' /\ UNCHANGED <<presses, clicks>>
        /\ UNCHANGED <<knob, sampled, last_sample, encoder_at, encoder_callback, unread, turned,
                       reports>>
    BY <1>6 DEF ReleaseKnob, samplerVars
  <2>2. PressAt'
    BY <1>2, <2>1, Zenon DEF PressAt
  <2> QED BY <1>2, <1>4, <2>1, <2>2
<1>7. CASE ReadA \/ ReadB \/ ReportTurn \/ ReportClick
  <2>1. undisturbed
    BY <1>7, Zenon DEF ReadA, ReadB, ReportTurn, ReportClick
  <2> QED BY <1>2, <1>7, <2>1, SampleTurning DEF EncoderInv
<1>8. CASE SetOnRotaryEncoderEvent
    BY <1>2, <1>8, Zenon DEF SetOnRotaryEncoderEvent, turnVars, Turning
<1>9. CASE UNCHANGED encoderVars
  <2>1. /\ undisturbed
        /\ UNCHANGED <<knob, sampled, last_sample, encoder_at, encoder_callback, unread, turned,
                       reports>>
        /\ UNCHANGED <<button_up, presses, clicks>>
    BY <1>9, Zenon DEF encoderVars, knobVars, samplerVars, turnVars
  <2>2. PressAt'
    BY <1>2, <2>1, Zenon DEF PressAt, Ccw, Cw
  <2> QED BY <1>2, <1>4, <2>1, <2>2
<1> QED BY <1>3, <1>5, <1>6, <1>7, <1>8, <1>9 DEF EncoderNext

(* An undisturbed turn is sampled in order, however the knob moves between   *)
(* the readings of a sample.                                                 *)
THEOREM EncoderCorrect == EncoderSpec => []EncoderInv
<1>1. EncoderInit => EncoderInv
    BY DEF EncoderInit, EncoderInv, EncoderTypeOK
<1> QED BY <1>1, EncoderStep, PTL DEF EncoderSpec

(* From rest to rest a turn is told once, in its direction, and a press on   *)
(* the way once (pico-rotary-encoder.cpp:63-122).                            *)
THEOREM TurnsTold == EncoderSpec => []TurnsCounted
<1>1. EncoderInv => TurnsCounted
  <2> SUFFICES ASSUME EncoderInv, undisturbed, KnobSettled
               PROVE  (knob = Rest => reports = <<turned>>) /\ clicks = presses
    BY DEF TurnsCounted
  <2>1. encoder_at = "a" /\ unread = 0 /\ last_sample.btn = button_up
    BY DEF KnobSettled
  <2>2. PICK m \in 1 .. 4, l \in 0 .. 4, s \in 0 .. 4 : TurnAt(m, l, s)
    BY DEF EncoderInv, Turning
  <2>3. knob = PositionAfter(turned, m) /\ l = m /\ reports = ToldAfter(turned, l)
    BY <2>1, <2>2 DEF TurnAt
  <2>4. knob = Rest => m = 4
    BY <2>3 DEF PositionAfter, Rest
  <2>5. knob = Rest => reports = <<turned>>
    BY <2>3, <2>4 DEF ToldAfter
  <2>6. clicks = presses
    BY <2>1, Zenon DEF EncoderInv, PressAt
  <2> QED BY <2>5, <2>6
<1> QED BY <1>1, EncoderCorrect, PTL

-----------------------------------------------------------------------------
(* The columns of text. *)

\* What the program paints: an LCD with room for the time beside the symbol, and
\* texts whose width is a byte.
TextsFit == LcdWidth >= 105 /\ \A t \in Texts : Wide(t) <= 255

LEMMA Division ==
    ASSUME NEW j \in Int
    PROVE  /\ \E q \in Int : \E r \in 0 .. 4 : j = 5 * q + r
           /\ \E q \in Int : \E r \in 0 .. 7 : j = 8 * q + r
<1>1. j \div 5 \in Int /\ j \div 8 \in Int
  OBVIOUS
<1>2. j % 5 \in 0 .. 4
  OBVIOUS
<1>3. j % 8 \in 0 .. 7
  OBVIOUS
<1>4. j = 5 * (j \div 5) + (j % 5)
  OBVIOUS
<1>5. j = 8 * (j \div 8) + (j % 8)
  OBVIOUS
<1> QED BY <1>1, <1>2, <1>3, <1>4, <1>5

\* What fits an integer is kept, and what is left of column 0 comes back far to the right.
LEMMA KeptByU16 ==
    /\ \A n \in 0 .. 999 : U16(n) = n
    /\ \A n \in -300 .. -1 : U16(n) = n + 65536
    /\ \A n \in 65236 .. 65535 : U16(n) = n
    /\ \A n \in 65536 .. 66535 : U16(n) = n - 65536
<1>1. \A n \in 0 .. 999 : U16(n) = n
  BY DEF U16
<1>2. \A n \in -300 .. -1 : U16(n) = n + 65536
  BY DEF U16
<1>3. \A n \in 65236 .. 65535 : U16(n) = n
  BY DEF U16
<1>4. \A n \in 65536 .. 66535 : U16(n) = n - 65536
  BY DEF U16
<1> QED BY <1>1, <1>2, <1>3, <1>4

\* Where texts begin, and widths and offsets.
Lefts == -300 .. 300
Bytes == 0 .. 255

LEMMA WrapsInU16 ==
    ASSUME NEW n \in Lefts, NEW k \in 0 .. 600
    PROVE  /\ U16(n) \in Nat
           /\ n + k >= 0 => U16(U16(n) + k) = n + k
           /\ n + k < 0 => U16(U16(n) + k) > 300
<1>1. CASE n >= 0
  <2>1. U16(n) = n /\ n + k \in 0 .. 999
    BY <1>1, KeptByU16 DEF Lefts
  <2> QED BY <1>1, <2>1, KeptByU16 DEF Lefts
<1>2. CASE n < 0 /\ n + k < 0
  <2>1. PICK u \in 65236 .. 65535 : u = n + 65536 + k
    BY <1>2 DEF Lefts
  <2>2. U16(n) = n + 65536 /\ U16(u) = u
    BY <1>2, KeptByU16 DEF Lefts
  <2> QED BY <1>2, <2>1, <2>2 DEF Lefts
<1>3. CASE n < 0 /\ n + k >= 0
  <2>1. PICK u \in 65536 .. 66535 : u = n + 65536 + k
    BY <1>3 DEF Lefts
  <2>2. U16(n) = n + 65536 /\ U16(u) = u - 65536
    BY <1>3, KeptByU16 DEF Lefts
  <2> QED BY <1>3, <2>1, <2>2 DEF Lefts
<1> QED BY <1>1, <1>2, <1>3 DEF Lefts

LEMMA LeftsKept == \A n \in Lefts : U16(n) \in Nat
BY DEF Lefts, U16

LEMMA KeptByU8 == \A n \in Bytes : U8(n) = n
BY DEF U8, Bytes

\* The columns of a row of n glyphs, one after the other.
Span(font, n) == font.width * n
Row(x, m) == {x + j : j \in 0 .. m - 1}

LEMMA GlyphColumns ==
    ASSUME NEW f \in {5, 8}, NEW n \in Nat, NEW m \in Int, m = f * n, NEW j \in Int
    PROVE  j \in 0 .. m - 1 <=> \E i \in 0 .. n - 1 : \E w \in 0 .. f - 1 : j = f * i + w
<1>1. CASE f = 5
  <2>1. m = 5 * n
    BY <1>1
  <2>2. PICK q \in Int, r \in 0 .. 4 : j = 5 * q + r
    BY Division, Zenon
  <2>3. ASSUME j \in 0 .. m - 1 PROVE q \in 0 .. n - 1
    BY <2>1, <2>2, <2>3
  <2>4. ASSUME NEW i \in 0 .. n - 1, NEW w \in 0 .. 4, j = 5 * i + w PROVE j \in 0 .. m - 1
    BY <2>1, <2>4
  <2> QED BY <1>1, <2>2, <2>3, <2>4
<1>2. CASE f = 8
  <2>1. m = 8 * n
    BY <1>2
  <2>2. PICK q \in Int, r \in 0 .. 7 : j = 8 * q + r
    BY Division, Zenon
  <2>3. ASSUME j \in 0 .. m - 1 PROVE q \in 0 .. n - 1
    BY <2>1, <2>2, <2>3
  <2>4. ASSUME NEW i \in 0 .. n - 1, NEW w \in 0 .. 7, j = 8 * i + w PROVE j \in 0 .. m - 1
    BY <2>1, <2>4
  <2> QED BY <1>2, <2>2, <2>3, <2>4
<1> QED BY <1>1, <1>2

\* As one set of columns.
LEMMA StrIsRow ==
    ASSUME NEW font \in {Font5x8, Font8x8}, NEW n \in Nat, NEW x \in Nat,
           NEW m \in Nat, m = Span(font, n)
    PROVE  StrColumns(x, n, font) = OnLcd(Row(x, m))
<1>1. PICK f \in {5, 8} : f = font.width
  BY DEF Font5x8, Font8x8
<1>2. m = f * n
  BY <1>1 DEF Span
<1>3. ASSUME NEW i \in 0 .. n - 1, NEW w \in 0 .. f - 1
      PROVE  \E j \in 0 .. m - 1 : x + f * i + w = x + j
  <2>1. PICK j \in Int : j = f * i + w
    BY <1>1
  <2>2. j \in 0 .. m - 1
    BY <1>2, <2>1, GlyphColumns
  <2> QED BY <1>1, <2>1, <2>2
<1>4. ASSUME NEW j \in 0 .. m - 1
      PROVE  \E i \in 0 .. n - 1 : \E w \in 0 .. f - 1 : x + f * i + w = x + j
  <2>1. j \in Int /\ m \in Int
    OBVIOUS
  <2>2. PICK i \in 0 .. n - 1, w \in 0 .. f - 1 : j = f * i + w
    BY <1>2, <2>1, GlyphColumns
  <2> QED BY <1>1, <2>2
<1>5. ASSUME NEW y
      PROVE  y \in StrColumns(x, n, font)
                <=> /\ y \in 0 .. LcdWidth - 1
                    /\ \E i \in 0 .. n - 1 : \E w \in 0 .. f - 1 : y = U16(x + f * i + w)
  <2>1. y \in StrColumns(x, n, font) <=> \E i \in 0 .. n - 1 : y \in CharColumns(x + f * i, font)
    BY <1>1 DEF StrColumns
  <2>2. ASSUME NEW z
        PROVE  y \in CharColumns(z, font)
                  <=> y \in 0 .. LcdWidth - 1 /\ \E w \in 0 .. f - 1 : y = U16(z + w)
    BY <1>1 DEF CharColumns, OnLcd
  <2> QED BY <2>1, <2>2
<1>6. ASSUME NEW y
      PROVE  y \in OnLcd(Row(x, m))
                <=> y \in 0 .. LcdWidth - 1 /\ \E j \in 0 .. m - 1 : y = U16(x + j)
  BY DEF OnLcd, Row
<1>7. ASSUME NEW y
      PROVE  (\E i \in 0 .. n - 1 : \E w \in 0 .. f - 1 : y = U16(x + f * i + w))
                <=> \E j \in 0 .. m - 1 : y = U16(x + j)
  <2>1. ASSUME NEW i \in 0 .. n - 1, NEW w \in 0 .. f - 1, y = U16(x + f * i + w)
        PROVE  \E j \in 0 .. m - 1 : y = U16(x + j)
    BY <1>3, <2>1
  <2>2. ASSUME NEW j \in 0 .. m - 1, y = U16(x + j)
        PROVE  \E i \in 0 .. n - 1 : \E w \in 0 .. f - 1 : y = U16(x + f * i + w)
    BY <1>4, <2>2
  <2> QED BY <2>1, <2>2
<1>8. ASSUME NEW y PROVE y \in StrColumns(x, n, font) <=> y \in OnLcd(Row(x, m))
  BY <1>5, <1>6, <1>7, Zenon
<1> QED BY <1>8, Zenon DEF StrColumns, OnLcd

\* A text that begins left of the LCD begins at a column that has wrapped, and is
\* where it should be from the LCD's first column on.
LEMMA ColumnsReached ==
    ASSUME NEW font \in {Font5x8, Font8x8}, NEW n \in Nat,
           NEW m \in Bytes, m = Span(font, n),
           NEW left \in Lefts, NEW offset \in Bytes,
           NEW x \in Nat, x = U16(left) + offset,
           NEW first \in Int, first = left + offset
    PROVE  StrColumns(x, n, font) = first .. (first + m - 1) \cap 0 .. LcdWidth - 1
<1>1. StrColumns(x, n, font) = OnLcd(Row(x, m))
  <2>1. m \in Nat
    BY DEF Bytes
  <2> QED BY <2>1, StrIsRow
<1>2. LcdWidth \in 1 .. 255 /\ m \in 0 .. 255 /\ offset \in 0 .. 255 /\ left \in -300 .. 300
  BY AppDisplayPaintAssumption DEF AppDisplayPaintAssumption, Bytes, Lefts
<1>3. ASSUME NEW y \in 0 .. LcdWidth - 1, NEW j \in 0 .. m - 1
      PROVE  y = U16(x + j) <=> y = first + j
  <2>1. PICK k \in 0 .. 600 : k = offset + j
    BY <1>2
  <2>2. /\ U16(left) \in Nat
        /\ left + k >= 0 => U16(U16(left) + k) = left + k
        /\ left + k < 0 => U16(U16(left) + k) > 300
    BY WrapsInU16
  <2>3. x + j = U16(left) + k /\ first + j = left + k
    BY <1>2, <2>1, <2>2
  <2> QED BY <1>2, <2>2, <2>3
<1>4. ASSUME NEW y \in 0 .. LcdWidth - 1
      PROVE  y \in OnLcd(Row(x, m)) <=> \E j \in 0 .. m - 1 : y = first + j
  <2>1. y \in OnLcd(Row(x, m)) <=> \E j \in 0 .. m - 1 : y = U16(x + j)
    BY DEF OnLcd, Row
  <2> QED BY <1>3, <2>1
<1>5. ASSUME NEW y \in 0 .. LcdWidth - 1
      PROVE  y \in first .. (first + m - 1) <=> \E j \in 0 .. m - 1 : y = first + j
  <2>1. y \in first .. (first + m - 1) => y - first \in 0 .. m - 1 /\ y = first + (y - first)
    BY <1>2
  <2>2. ASSUME NEW j \in 0 .. m - 1, y = first + j PROVE y \in first .. (first + m - 1)
    BY <1>2, <2>2
  <2> QED BY <2>1, <2>2
<1>6. OnLcd(Row(x, m)) \subseteq 0 .. LcdWidth - 1
  BY DEF OnLcd
<1> QED BY <1>1, <1>4, <1>5, <1>6

\* The bounds of an interval.
LEMMA IntervalBounds ==
    ASSUME NEW a \in Int, NEW b \in Int, a <= b, NEW S, S = a .. b
    PROVE  Min(S) = a /\ Max(S) = b
<1>1. a \in S /\ \A y \in S : a <= y
  OBVIOUS
<1>2. b \in S /\ \A y \in S : b >= y
  OBVIOUS
<1>3. Min(S) \in S /\ \A y \in S : Min(S) <= y
  BY <1>1 DEF Min
<1>4. Max(S) \in S /\ \A y \in S : Max(S) >= y
  BY <1>2 DEF Max
<1> QED BY <1>1, <1>2, <1>3, <1>4

\* The first and the last character of the keyboard have their glyphs.
LEMMA GlyphsExist ==
    ASSUME NEW c \in KeyboardLimits, NEW font \in {Font5x8, Font8x8}
    PROVE  {Min(CharBytes(c, font)), Max(CharBytes(c, font))} \subseteq 2 .. font.size - 1
<1>1. c \in {32, 255}
  <2>1. FontRange("F5X8") = 32 .. 255
    BY DEF FontRange, FontOf, Font5x8, FirstChar
  <2> DEFINE Ends(a, b) == a = 32 /\ b = 255
  <2>2. PICK a \in Int, b \in Int : Ends(a, b) /\ a <= b
    OBVIOUS
  <2>3. FontRange("F5X8") = a .. b
    BY <2>1, <2>2
  <2>4. Min(FontRange("F5X8")) = a /\ Max(FontRange("F5X8")) = b
    <3> HIDE DEF Ends
    <3> QED BY <2>2, <2>3, IntervalBounds
  <2> QED BY <2>2, <2>4 DEF KeyboardLimits
<1>2. CASE font = Font5x8
  <2>1. font.width = 5 /\ font.size = 1122 /\ U8(font.width * Rows(font)) = 5
        /\ font.width * Rows(font) = 5
    BY <1>2, KeptByU8 DEF Font5x8, Rows, Bytes
  <2>2. PICK z \in Int, b \in Int : z = (c - 32) * 5 + 2 /\ b = z + 4
    BY <1>1
  <2>3. CharBytes(c, font) = {(c - 32) * 5 + 2 + idx : idx \in 0 .. 4}
    BY <2>1 DEF CharBytes, FirstChar
  <2>4. CharBytes(c, font) = z .. b /\ z <= b
    BY <1>1, <2>2, <2>3
  <2>5. Min(CharBytes(c, font)) = z /\ Max(CharBytes(c, font)) = b
    BY <2>4, IntervalBounds
  <2> QED BY <1>1, <2>1, <2>2, <2>5
<1>3. CASE font = Font8x8
  <2>1. font.width = 8 /\ font.size = 1794 /\ U8(font.width * Rows(font)) = 8
        /\ font.width * Rows(font) = 8
    BY <1>3, KeptByU8 DEF Font8x8, Rows, Bytes
  <2>2. PICK z \in Int, b \in Int : z = (c - 32) * 8 + 2 /\ b = z + 7
    BY <1>1
  <2>3. CharBytes(c, font) = {(c - 32) * 8 + 2 + idx : idx \in 0 .. 7}
    BY <2>1 DEF CharBytes, FirstChar
  <2>4. CharBytes(c, font) = z .. b /\ z <= b
    BY <1>1, <2>2, <2>3
  <2>5. Min(CharBytes(c, font)) = z /\ Max(CharBytes(c, font)) = b
    BY <2>4, IntervalBounds
  <2> QED BY <1>1, <2>1, <2>2, <2>5
<1> QED BY <1>2, <1>3

\* Where a text of a width begins, without wrapping.
Begins(valign, width) ==
    CASE valign = "LEFT" -> 0
      [] valign = "CENTER" -> Halved(LcdWidth - width)
      [] valign = "RIGHT" -> LcdWidth - width - 2

LEMMA TextBegins ==
    ASSUME NEW valign \in Alignments, NEW width \in Bytes
    PROVE  /\ Begins(valign, width) \in Lefts
           /\ TextLeft(valign, width) = U16(Begins(valign, width))
<1>1. LcdWidth \in 1 .. 255 /\ width \in 0 .. 255
  BY AppDisplayPaintAssumption DEF AppDisplayPaintAssumption, Bytes
<1>2. Halved(LcdWidth - width) \in Lefts
  BY <1>1 DEF Halved, Lefts
<1>3. LcdWidth - width - 2 \in Lefts
  BY <1>1 DEF Lefts
<1>4. CASE valign = "LEFT"
  <2>1. Begins(valign, width) = 0 /\ TextLeft(valign, width) = 0
    BY <1>4 DEF Begins, TextLeft
  <2>2. 0 \in Lefts /\ U16(0) = 0
    BY DEF Lefts, U16
  <2> QED BY <2>1, <2>2
<1>5. CASE valign = "CENTER"
  BY <1>2, <1>5 DEF Begins, TextLeft
<1>6. CASE valign = "RIGHT"
  BY <1>3, <1>6 DEF Begins, TextLeft
<1> QED BY <1>4, <1>5, <1>6 DEF Alignments

LEMMA HeaderAligned == TextsFit /\ PaintHeader => TextIsAligned'
<1> SUFFICES ASSUME TextsFit, PaintHeader PROVE TextIsAligned'
  OBVIOUS
<1>1. PICK known \in BOOLEAN :
        text_painted' =
            [what |-> "header",
             columns |-> IF known THEN StrColumns(LcdWidth - Date * 5 - 5, Date, Font5x8) ELSE {},
             symbol |-> OnLcd({3 + w : w \in 0 .. 11})]
  BY DEF PaintHeader
<1>2. LcdWidth \in 105 .. 255 /\ LcdWidth - Date * 5 - 5 = LcdWidth - 90
      /\ U16(LcdWidth - 90) = LcdWidth - 90
  <2>1. LcdWidth \in 105 .. 255
    BY AppDisplayPaintAssumption DEF AppDisplayPaintAssumption, TextsFit
  <2>2. LcdWidth - 90 \in 0 .. 999
    BY <2>1
  <2> QED BY <2>1, <2>2, KeptByU16 DEF Date
<1>3. StrColumns(LcdWidth - Date * 5 - 5, Date, Font5x8)
         = (LcdWidth - 90) .. (LcdWidth - 90 + 85 - 1) \cap 0 .. LcdWidth - 1
  <2> DEFINE Is(m, left) == m = 85 /\ left = LcdWidth - 90
  <2>1. PICK m \in Bytes, left \in Lefts :
              /\ Is(m, left) /\ m = Span(Font5x8, Date) /\ left \in Nat /\ left \in Int
              /\ left = U16(left) + 0 /\ left = left + 0
    BY <1>2 DEF Span, Font5x8, Date, Bytes, Lefts
  <2>2. 0 \in Bytes /\ Date \in Nat
    BY DEF Bytes, Date
  <2>3. StrColumns(left, Date, Font5x8) = left .. (left + m - 1) \cap 0 .. LcdWidth - 1
    <3> HIDE DEF Is
    <3> QED BY <2>1, <2>2, ColumnsReached
  <2> QED BY <1>2, <2>1, <2>3
<1>4. OnLcd({3 + w : w \in 0 .. 11}) \subseteq 3 .. 14
  <2>1. \A w \in 0 .. 11 : U16(3 + w) = 3 + w
    BY KeptByU16
  <2> QED BY <2>1 DEF OnLcd
<1>5. \A y \in StrColumns(LcdWidth - Date * 5 - 5, Date, Font5x8) : y >= 15
  BY <1>2, <1>3
<1>6. text_painted'.columns \cap text_painted'.symbol = {} /\ text_painted'.what = "header"
  BY <1>1, <1>4, <1>5
<1> QED BY <1>6 DEF TextIsAligned

LEMMA TextAligned == TextsFit /\ PaintStr => TextIsAligned'
<1> SUFFICES ASSUME TextsFit, PaintStr PROVE TextIsAligned'
  OBVIOUS
<1>1. PICK t \in Texts, c \in KeyboardLimits :
        text_painted' =
              [what |-> "text", text |-> t,
               columns |-> StrColumns(TextLeft(t.valign, TextWidth(t.length, FontOf(t.font)))
                                         + t.offset,
                                      t.length, FontOf(t.font)),
               bytes |-> {Min(CharBytes(c, FontOf(t.font))), Max(CharBytes(c, FontOf(t.font)))}]
  BY DEF PaintStr
<1> DEFINE font == FontOf(t.font)
           left == Begins(t.valign, Wide(t))
<1>2. /\ t.length \in 1 .. 255 /\ t.offset \in Bytes /\ t.valign \in Alignments
      /\ LcdWidth \in 1 .. 255 /\ font \in {Font5x8, Font8x8} /\ Wide(t) \in Bytes
      /\ Wide(t) = Span(font, t.length)
  <2>1. t \in [font : {"F5X8", "F8X8"}, length : 1 .. 255, valign : Alignments,
               offset : 0 .. 255]
    BY AppDisplayPaintAssumption DEF AppDisplayPaintAssumption
  <2>2. font \in {Font5x8, Font8x8} /\ font.width \in {5, 8}
    BY DEF FontOf, Font5x8, Font8x8
  <2>3. Wide(t) = Span(font, t.length) /\ Wide(t) <= 255
    BY DEF Wide, TextsFit, Span
  <2>4. Wide(t) \in Nat
    BY <2>1, <2>2 DEF Wide
  <2>5. Wide(t) \in Bytes
    BY <2>3, <2>4 DEF Bytes
  <2>6. t.length \in 1 .. 255 /\ t.offset \in Bytes /\ t.valign \in Alignments
    BY <2>1 DEF Bytes
  <2> QED BY <2>2, <2>3, <2>5, <2>6, AppDisplayPaintAssumption DEF AppDisplayPaintAssumption
<1>3. TextWidth(t.length, font) = Wide(t)
  <2>1. PICK w \in Bytes : w = Wide(t)
    BY <1>2
  <2>2. TextWidth(t.length, font) = U8(w)
    BY <1>2, <2>1, Zenon DEF TextWidth, Span
  <2> QED BY <2>1, <2>2, KeptByU8
<1>4. left \in Lefts /\ TextLeft(t.valign, Wide(t)) = U16(left)
  <2>1. PICK w \in Bytes, v \in Alignments : w = Wide(t) /\ v = t.valign
    BY <1>2
  <2>2. Begins(v, w) \in Lefts /\ TextLeft(v, w) = U16(Begins(v, w))
    BY TextBegins
  <2> QED BY <2>1, <2>2
<1>5. PICK l \in Lefts : l = left
  BY <1>4
<1>6. Wanted(t) = (l + t.offset) .. (l + t.offset + Wide(t) - 1)
  <2>1. PICK w \in Bytes : w = Wide(t)
    BY <1>2
  <2>2. l = Begins(t.valign, w)
    BY <1>5, <2>1
  <2>3. CASE t.valign = "LEFT"
    <3>1. l = 0
      BY <2>2, <2>3 DEF Begins
    <3>2. Wanted(t) = t.offset .. (t.offset + w - 1)
      BY <2>1, <2>3 DEF Wanted
    <3>3. PICK o \in Int : o = t.offset /\ 0 + o = o
      BY <1>2 DEF Bytes
    <3>4. l + t.offset = o
      BY <3>1, <3>3
    <3> QED BY <2>1, <3>2, <3>3, <3>4, Zenon
  <2>4. CASE t.valign = "CENTER"
    <3>1. l = Halved(LcdWidth - w)
      BY <2>2, <2>4 DEF Begins
    <3> QED BY <2>1, <2>4, <3>1 DEF Wanted
  <2>5. CASE t.valign = "RIGHT"
    <3>1. l = LcdWidth - w - 2
      BY <2>2, <2>5 DEF Begins
    <3> QED BY <2>1, <2>5, <3>1 DEF Wanted
  <2> QED BY <1>2, <2>3, <2>4, <2>5 DEF Alignments
<1> HIDE DEF font, left
<1>7. StrColumns(U16(left) + t.offset, t.length, font) = Wanted(t) \cap 0 .. LcdWidth - 1
  <2>1. PICK n \in Nat, offset \in Bytes, m \in Bytes :
              n = t.length /\ offset = t.offset /\ m = Wide(t)
    BY <1>2
  <2>2. U16(l) \in Nat /\ l \in Int /\ offset \in Nat
    BY LeftsKept DEF Lefts, Bytes
  <2>3. PICK x \in Nat, first \in Int : x = U16(l) + offset /\ first = l + offset
    BY <2>2
  <2>4. m = Span(font, n)
    BY <1>2, <2>1
  <2>5. StrColumns(x, n, font) = first .. (first + m - 1) \cap 0 .. LcdWidth - 1
    BY <1>2, <2>3, <2>4, ColumnsReached
  <2>6. Wanted(t) = first .. (first + m - 1)
    BY <1>6, <2>1, <2>3
  <2> QED BY <1>5, <2>1, <2>3, <2>5, <2>6
<1>8. {Min(CharBytes(c, font)), Max(CharBytes(c, font))} \subseteq 2 .. font.size - 1
  BY <1>2, GlyphsExist
<1>9. /\ text_painted'.what = "text" /\ text_painted'.text = t
      /\ text_painted'.columns = Wanted(t) \cap 0 .. LcdWidth - 1
      /\ text_painted'.bytes \subseteq 2 .. FontOf(t.font).size - 1
  BY <1>1, <1>3, <1>4, <1>5, <1>7, <1>8 DEF font
<1> QED BY <1>9 DEF TextIsAligned

(* Every text whose width fits the byte it is kept in reaches the columns of *)
(* the LCD its alignment calls for and no others, also one that is wider     *)
(* than the LCD; each character has its glyph; and the time leaves the       *)
(* symbol of the network free (app-display-handler.cpp:129-238).             *)
THEOREM TextWhereAsked == TextsFit => (PaintSpec => []TextIsAligned)
<1> SUFFICES ASSUME TextsFit PROVE PaintSpec => []TextIsAligned
  OBVIOUS
<1>1. PaintInit => TextIsAligned
  BY DEF PaintInit, TextIsAligned, NothingPainted
<1>2. TextIsAligned /\ [PaintNext]_paintVars => TextIsAligned'
  <2>1. TextIsAligned /\ UNCHANGED paintVars => TextIsAligned'
    BY DEF paintVars, TextIsAligned
  <2> QED BY <2>1, HeaderAligned, TextAligned DEF PaintNext
<1> QED BY <1>1, <1>2, PTL DEF PaintSpec

-----------------------------------------------------------------------------
(* The clock: the calendar. *)

MonthIndex == 0 .. 23
AnyMonth == 0 .. 24
DayHours == 0 .. 23

\* The days before a month, in a formula.
StartOf(k) ==
    LET m == (k % 12) + 1
    IN 365 * (k \div 12) + (IF k >= 12 THEN 1 ELSE 0) + ((367 * m - 362) \div 12)
       - (IF m <= 2 THEN 0 ELSE IF k < 12 THEN 1 ELSE 2)

LEMMA StartOfNext == \A k \in 1 .. 24 : StartOf(k) = StartOf(k - 1) + MonthDays(k - 1)
BY DEF StartOf, MonthDays, MonthLength, FirstYear

LEMMA MonthStartNext ==
    /\ MonthStart[0] = 0
    /\ \A k \in 1 .. 24 : MonthStart[k] = MonthStart[k - 1] + MonthDays(k - 1)
<1> DEFINE P(f) == f = [k \in 0 .. 24 |-> IF k = 0 THEN 0 ELSE f[k - 1] + MonthDays(k - 1)]
           g == [k \in 0 .. 24 |-> StartOf(k)]
<1>1. P(g)
  <2>1. StartOf(0) = 0
    BY DEF StartOf
  <2> QED BY <2>1, StartOfNext
<1>2. MonthStart = CHOOSE f : P(f)
  BY DEF MonthStart
<1> HIDE DEF P
<1>3. P(MonthStart)
  BY <1>1, <1>2, Zenon
<1> QED BY <1>3 DEF P

\* The recursion computes what the formula does, month by month.
LEMMA MonthStartIs == \A k \in AnyMonth : MonthStart[k] = StartOf(k)
<1> DEFINE D(k) == MonthStart[k] = StartOf(k)
<1>1. D(0)
  BY MonthStartNext DEF StartOf
<1>2. \A k \in 1 .. 24 : D(k - 1) => D(k)
  BY MonthStartNext, StartOfNext
<1> HIDE DEF D
<1>3. /\ D(1) /\ D(2) /\ D(3) /\ D(4) /\ D(5) /\ D(6)
      /\ D(7) /\ D(8) /\ D(9) /\ D(10) /\ D(11) /\ D(12)
  BY <1>1, <1>2
<1>4. /\ D(13) /\ D(14) /\ D(15) /\ D(16) /\ D(17) /\ D(18)
      /\ D(19) /\ D(20) /\ D(21) /\ D(22) /\ D(23) /\ D(24)
  BY <1>2, <1>3
<1>5. \A k \in 0 .. 24 : D(k)
  BY <1>1, <1>3, <1>4
<1> QED BY <1>5 DEF D, AnyMonth

LEMMA MonthsFit == \A k \in MonthIndex : k \in AnyMonth /\ k + 1 \in AnyMonth /\ k \in Int
BY DEF MonthIndex, AnyMonth

LEMMA StartsTyped == \A k \in AnyMonth : StartOf(k) \in Nat
BY DEF StartOf, AnyMonth

LEMMA MonthTyped == \A k \in MonthIndex : MonthDays(k) \in 28 .. 31
BY DEF MonthIndex, MonthDays, MonthLength, FirstYear

LEMMA NextStart == \A k \in MonthIndex : StartOf(k + 1) = StartOf(k) + MonthDays(k)
<1> SUFFICES ASSUME NEW k \in 0 .. 23 PROVE StartOf(k + 1) = StartOf(k) + MonthDays(k)
  BY DEF MonthIndex
<1>1. k + 1 \in 1 .. 24 /\ (k + 1) - 1 = k
  OBVIOUS
<1> QED BY <1>1, StartOfNext

LEMMA StartsIncrease == \A i, j \in AnyMonth : i <= j => StartOf(i) <= StartOf(j)
BY DEF StartOf, AnyMonth

\* The days of two years.
TwoYears == 0 .. 730

LEMMA DayInMonth ==
    \A d \in TwoYears : \E k \in MonthIndex : StartOf(k) <= d /\ d < StartOf(k + 1)
BY DEF StartOf, MonthIndex, TwoYears

LEMMA DayInOneMonth ==
    ASSUME NEW i \in MonthIndex, NEW j \in MonthIndex, NEW d \in Int,
           StartOf(i) <= d, d < StartOf(i + 1), StartOf(j) <= d, d < StartOf(j + 1)
    PROVE  i = j
<1>1. /\ i \in Int /\ j \in Int
      /\ i \in AnyMonth /\ i + 1 \in AnyMonth /\ j \in AnyMonth /\ j + 1 \in AnyMonth
  BY MonthsFit
<1>2. StartOf(i) \in Nat /\ StartOf(j) \in Nat /\ StartOf(i + 1) \in Nat /\ StartOf(j + 1) \in Nat
  BY <1>1, StartsTyped
<1>3. (i + 1 <= j => StartOf(i + 1) <= StartOf(j)) /\ (j + 1 <= i => StartOf(j + 1) <= StartOf(i))
  BY <1>1, StartsIncrease
<1>4. ~(i + 1 <= j) /\ ~(j + 1 <= i)
  BY <1>2, <1>3
<1> QED BY <1>1, <1>4

\* The hour of a date, and back.
HourOf(k, d, h) == 24 * (StartOf(k) + d - 1) + h

LEMMA DayOfHour ==
    ASSUME NEW e \in Int, NEW h \in DayHours, NEW t, t = 24 * e + h
    PROVE  t \in Int /\ t \div 24 = e /\ t % 24 = h
BY DEF DayHours

LEMMA GmtimeOfHour ==
    ASSUME NEW k \in MonthIndex, NEW d \in 1 .. MonthDays(k), NEW h \in DayHours,
           NEW t, t = HourOf(k, d, h)
    PROVE  /\ t \in Int /\ MonthOf(t) = k
           /\ Gmtime(t) =
                 [year |-> FirstYear + (k \div 12), mon |-> k % 12, mday |-> d, hour |-> h,
                  wday |-> (StartOf(k) + d) % 7]
<1>1. /\ k \in AnyMonth /\ StartOf(k) \in Nat /\ MonthDays(k) \in 28 .. 31
      /\ StartOf(k + 1) = StartOf(k) + MonthDays(k) /\ MonthStart[k] = StartOf(k)
  BY MonthsFit, StartsTyped, MonthTyped, NextStart, MonthStartIs
<1>2. PICK e \in Int : e = StartOf(k) + d - 1
  BY <1>1
<1>3. t = 24 * e + h
  BY <1>2 DEF HourOf
<1>4. t \in Int /\ t \div 24 = e /\ t % 24 = h
  BY <1>2, <1>3, DayOfHour
<1>5. StartOf(k) <= e /\ e < StartOf(k + 1)
  BY <1>1, <1>2
<1>6. MonthOf(t) = k
  <2>1. ASSUME NEW j \in MonthIndex PROVE MonthStart[j] = StartOf(j) /\ MonthStart[j + 1] = StartOf(j + 1)
    BY MonthsFit, MonthStartIs
  <2>2. MonthOf(t) = CHOOSE j \in MonthIndex : MonthStart[j] <= e /\ e < MonthStart[j + 1]
    BY <1>4 DEF MonthOf, MonthIndex
  <2>3. MonthStart[k] <= e /\ e < MonthStart[k + 1]
    BY <1>5, <2>1
  <2>4. ASSUME NEW j \in MonthIndex, MonthStart[j] <= e, e < MonthStart[j + 1] PROVE j = k
    BY <1>2, <1>5, <2>1, <2>4, DayInOneMonth
  <2> QED BY <2>2, <2>3, <2>4
<1>7. e - StartOf(k) + 1 = d /\ e + 1 = StartOf(k) + d
  BY <1>1, <1>2
<1> QED BY <1>1, <1>4, <1>6, <1>7 DEF Gmtime

HoursOfTwoYears == 0 .. 17543

LEMMA HourHasDate ==
    ASSUME NEW t \in HoursOfTwoYears
    PROVE  \E k \in MonthIndex : \E d \in 1 .. MonthDays(k) : \E h \in DayHours :
              t = HourOf(k, d, h)
<1>1. PICK e \in TwoYears, h \in DayHours : t = 24 * e + h
  <2>1. t \div 24 \in TwoYears
    BY DEF HoursOfTwoYears, TwoYears
  <2>2. t % 24 \in DayHours
    BY DEF HoursOfTwoYears, DayHours
  <2>3. t = 24 * (t \div 24) + (t % 24)
    BY DEF HoursOfTwoYears
  <2> QED BY <2>1, <2>2, <2>3
<1>2. PICK k \in MonthIndex : StartOf(k) <= e /\ e < StartOf(k + 1)
  BY DayInMonth
<1>3. /\ k \in AnyMonth /\ StartOf(k) \in Nat /\ MonthDays(k) \in 28 .. 31
      /\ StartOf(k + 1) = StartOf(k) + MonthDays(k)
  BY MonthsFit, StartsTyped, MonthTyped, NextStart
<1>4. e \in Int
  BY DEF TwoYears
<1>5. PICK d \in 1 .. MonthDays(k) : d = e - StartOf(k) + 1
  BY <1>2, <1>3, <1>4
<1>6. StartOf(k) + d - 1 = e
  BY <1>3, <1>4, <1>5
<1> QED BY <1>1, <1>5, <1>6 DEF HourOf

LEMMA MktimeIsHour ==
    ASSUME NEW k \in AnyMonth, NEW y, NEW m, k = 12 * (y - FirstYear) + m, NEW d, NEW h
    PROVE  Mktime(y, m, d, h) = HourOf(k, d, h)
<1>1. MonthStart[k] = StartOf(k)
  BY MonthStartIs
<1> QED BY <1>1 DEF Mktime, HourOf

-----------------------------------------------------------------------------
(* The clock: how far the RTC is from the true time. *)

RtcDates == [year : {FirstYear, FirstYear + 1}, month : 1 .. 12, day : 1 .. 31, hour : DayHours]

\* The month a date of the RTC is read back as.
ReadMonth(date) == 12 * (date.year - FirstYear) + date.month

\* The day that ends the month the clock was set in.
FirstEnd(h) ==
    IF Gmtime(h).mday > MonthDays(MonthOf(h) - 1) THEN Gmtime(h).mday
    ELSE MonthDays(MonthOf(h) - 1)

(* A date of the RTC at the time t, when it was set at h: in the month it was *)
(* set in it is exact; in every later one it is off by the days between the   *)
(* length of the month before that one and the day that ended the first.     *)
ReadsExact(date, h, t) ==
    /\ date.day \in Gmtime(h).mday .. FirstEnd(h)
    /\ HourOf(ReadMonth(date), date.day, date.hour) = t

ReadsOff(date, h, t) ==
    /\ ReadMonth(date) > MonthOf(h)
    /\ date.day <= MonthDays(ReadMonth(date) - 1)
    /\ HourOf(ReadMonth(date), date.day, date.hour)
          = t + 24 * (MonthDays(ReadMonth(date) - 1) - FirstEnd(h))

Follows(date, h, t) ==
    /\ date \in RtcDates
    /\ MonthOf(h) \in 1 .. 11
    /\ ReadMonth(date) <= 23
    /\ \/ ReadMonth(date) = MonthOf(h) /\ ReadsExact(date, h, t)
       \/ ReadsOff(date, h, t)

LEMMA RtcDateParts ==
    ASSUME NEW date \in RtcDates
    PROVE  /\ date.day \in 1 .. 31 /\ date.hour \in DayHours /\ date.month \in 1 .. 12
           /\ date.year \in {FirstYear, FirstYear + 1}
           /\ ReadMonth(date) \in 1 .. 24 /\ ReadMonth(date) - 1 \in MonthIndex
           /\ MonthLength(date.year, date.month - 1) = MonthDays(ReadMonth(date) - 1)
<1>1. /\ date.day \in 1 .. 31 /\ date.hour \in DayHours /\ date.month \in 1 .. 12
      /\ date.year \in {FirstYear, FirstYear + 1}
  BY DEF RtcDates
<1>2. ReadMonth(date) \in 1 .. 24
  BY <1>1 DEF ReadMonth, FirstYear
<1>3. ReadMonth(date) - 1 \in MonthIndex
  BY <1>2 DEF MonthIndex
<1>4. FirstYear + ((ReadMonth(date) - 1) \div 12) = date.year
  BY <1>1 DEF ReadMonth, FirstYear
<1>5. (ReadMonth(date) - 1) % 12 = date.month - 1
  BY <1>1 DEF ReadMonth, FirstYear
<1> QED BY <1>1, <1>2, <1>3, <1>4, <1>5 DEF MonthDays

LEMMA SameMonth ==
    ASSUME NEW date \in RtcDates
    PROVE  /\ date.hour < 23 =>
                 LET next == [date EXCEPT !.hour = @ + 1]
                 IN RtcNext(date) = next /\ next \in RtcDates /\ ReadMonth(next) = ReadMonth(date)
                    /\ next.day = date.day /\ next.hour = date.hour + 1
           /\ date.hour = 23 /\ date.day < MonthDays(ReadMonth(date) - 1) =>
                 LET next == [date EXCEPT !.hour = 0, !.day = @ + 1]
                 IN RtcNext(date) = next /\ next \in RtcDates /\ ReadMonth(next) = ReadMonth(date)
                    /\ next.day = date.day + 1 /\ next.hour = 0
<1>1. CASE date.hour < 23
  <2> DEFINE next == [date EXCEPT !.hour = @ + 1]
  <2>1. next.day = date.day /\ next.hour = date.hour + 1 /\ next.month = date.month
        /\ next.year = date.year
    BY DEF RtcDates
  <2>2. date.hour + 1 \in DayHours
    BY <1>1, RtcDateParts DEF DayHours
  <2>3. next \in RtcDates
    BY <2>2 DEF RtcDates
  <2>4. RtcNext(date) = next
    BY <1>1 DEF RtcNext
  <2>5. ReadMonth(next) = ReadMonth(date)
    BY <2>1 DEF ReadMonth
  <2>6. ~(date.hour = 23)
    BY <1>1
  <2> QED BY <2>1, <2>3, <2>4, <2>5, <2>6
<1>2. CASE date.hour = 23 /\ date.day < MonthDays(ReadMonth(date) - 1)
  <2> DEFINE next == [date EXCEPT !.hour = 0, !.day = @ + 1]
  <2>1. next.day = date.day + 1 /\ next.hour = 0 /\ next.month = date.month
        /\ next.year = date.year
    BY DEF RtcDates
  <2>2. MonthDays(ReadMonth(date) - 1) \in 28 .. 31
    BY RtcDateParts, MonthTyped
  <2>3. 0 \in DayHours /\ date.day + 1 \in 1 .. 31
    BY <1>2, <2>2, RtcDateParts DEF DayHours
  <2>4. next \in RtcDates
    BY <2>3 DEF RtcDates
  <2>5. RtcNext(date) = next
    BY <1>2, RtcDateParts DEF RtcNext
  <2>6. ReadMonth(next) = ReadMonth(date)
    BY <2>1 DEF ReadMonth
  <2>7. ~(date.hour < 23)
    BY <1>2
  <2> QED BY <2>1, <2>4, <2>5, <2>6, <2>7
<1> QED BY <1>1, <1>2

LEMMA NextMonth ==
    ASSUME NEW date \in RtcDates, date.hour = 23, ReadMonth(date) <= 22,
           ~(date.day < MonthDays(ReadMonth(date) - 1))
    PROVE  /\ RtcNext(date) \in RtcDates
           /\ ReadMonth(RtcNext(date)) = ReadMonth(date) + 1
           /\ RtcNext(date).day = 1 /\ RtcNext(date).hour = 0
<1> DEFINE next == [year |-> IF date.month = 12 THEN date.year + 1 ELSE date.year,
                    month |-> (date.month % 12) + 1, day |-> 1, hour |-> 0]
<1>1. RtcNext(date) = next
  BY RtcDateParts DEF RtcNext
<1>2. date.month \in 1 .. 12 /\ date.year \in {FirstYear, FirstYear + 1}
  BY RtcDateParts
<1>3. ReadMonth(next) = ReadMonth(date) + 1
  <2>1. CASE date.month = 12
    BY <1>2, <2>1 DEF ReadMonth, FirstYear
  <2>2. CASE date.month < 12
    BY <1>2, <2>2 DEF ReadMonth, FirstYear
  <2> QED BY <1>2, <2>1, <2>2
<1>4. date.month = 12 => date.year = FirstYear
  BY <1>2 DEF ReadMonth, FirstYear
<1>5. next.year \in {FirstYear, FirstYear + 1} /\ next.month \in 1 .. 12
  BY <1>2, <1>4
<1>6. next \in RtcDates
  BY <1>5 DEF RtcDates, DayHours
<1> QED BY <1>1, <1>3, <1>6

\* In one month, and into the next.
LEMMA HourInMonth ==
    ASSUME NEW k \in AnyMonth, NEW d \in 1 .. 31, NEW h \in DayHours
    PROVE  /\ HourOf(k, d, h) \in Int
           /\ HourOf(k, d, h + 1) = HourOf(k, d, h) + 1
           /\ h = 23 => HourOf(k, d + 1, 0) = HourOf(k, d, h) + 1
           /\ k \in MonthIndex /\ h = 23 =>
                 HourOf(k + 1, 1, 0) = HourOf(k, d, h) + 1 + 24 * (MonthDays(k) - d)
<1>1. PICK s \in Int : s = StartOf(k)
  BY StartsTyped
<1>2. h \in Int /\ d \in Int
  BY DEF DayHours
<1>3. HourOf(k, d, h) = 24 * (s + d - 1) + h
  BY <1>1 DEF HourOf
<1>4. HourOf(k, d, h + 1) = 24 * (s + d - 1) + (h + 1) /\ HourOf(k, d + 1, 0) = 24 * (s + d) + 0
  BY <1>1, <1>2 DEF HourOf
<1>5. ASSUME k \in MonthIndex, h = 23
      PROVE  HourOf(k + 1, 1, 0) = HourOf(k, d, h) + 1 + 24 * (MonthDays(k) - d)
  <2>1. PICK l \in Int : l = MonthDays(k)
    BY <1>5, MonthTyped
  <2>2. HourOf(k + 1, 1, 0) = 24 * (s + l)
    BY <1>1, <1>5, <2>1, NextStart DEF HourOf
  <2> QED BY <1>2, <1>3, <1>5, <2>1, <2>2
<1> QED BY <1>2, <1>3, <1>4, <1>5

LEMMA FirstEndFacts ==
    ASSUME NEW h \in Hours, MonthOf(h) \in 1 .. 11
    PROVE  /\ FirstEnd(h) \in 28 .. 31 /\ Gmtime(h).mday \in 1 .. FirstEnd(h)
           /\ MonthDays(MonthOf(h) - 1) <= FirstEnd(h)
           /\ \E x \in DayHours : h = HourOf(MonthOf(h), Gmtime(h).mday, x)
<1>1. h \in HoursOfTwoYears
  BY DEF Hours, HoursOfTwoYears
<1>6. PICK k \in MonthIndex : \E d \in 1 .. MonthDays(k) : \E x \in DayHours : h = HourOf(k, d, x)
  BY <1>1, HourHasDate
<1>2. PICK d \in 1 .. MonthDays(k), x \in DayHours : h = HourOf(k, d, x)
  BY <1>6
<1>3. MonthOf(h) = k /\ Gmtime(h).mday = d
  BY <1>2, GmtimeOfHour
<1>4. MonthDays(k) \in 28 .. 31
  BY MonthTyped
<1>5. k - 1 \in MonthIndex /\ MonthDays(k - 1) \in 28 .. 31
  BY <1>3, MonthTyped DEF MonthIndex
<1> QED BY <1>2, <1>3, <1>4, <1>5 DEF FirstEnd

\* Bound: a month of the year comes once.
LastRead == 24 * 365 + 24 * 330

LEMMA LateMonths ==
    ASSUME NEW date \in RtcDates, NEW t \in Int, t <= LastRead, NEW e \in Int, e <= 3,
           HourOf(ReadMonth(date), date.day, date.hour) = t + 24 * e
    PROVE  ReadMonth(date) <= 22
<1>1. PICK k \in AnyMonth, d \in 1 .. 31, x \in DayHours :
            k = ReadMonth(date) /\ d = date.day /\ x = date.hour
  BY RtcDateParts DEF AnyMonth
<1>2. PICK s \in Nat : s = StartOf(k)
  BY StartsTyped
<1>3. 24 * (s + d - 1) + x = t + 24 * e
  BY <1>1, <1>2 DEF HourOf
<1>4. s < 700
  BY <1>3 DEF LastRead, DayHours
<1>5. StartOf(23) = 700 /\ StartOf(24) = 731 /\ k \in 0 .. 24
  BY DEF StartOf, AnyMonth
<1>6. k # 23 /\ k # 24
  BY <1>2, <1>4, <1>5
<1> QED BY <1>1, <1>5, <1>6

LEMMA FollowsNext ==
    ASSUME NEW h \in Hours, NEW t \in Int, t + 1 <= LastRead, NEW date, Follows(date, h, t)
    PROVE  Follows(RtcNext(date), h, t + 1)
<1>1. date \in RtcDates /\ MonthOf(h) \in 1 .. 11 /\ ReadMonth(date) <= 23
  BY DEF Follows
<1>2. PICK k \in MonthIndex, d \in 1 .. 31, x \in DayHours :
            /\ k = ReadMonth(date) /\ d = date.day /\ x = date.hour
            /\ k - 1 \in MonthIndex /\ k \in AnyMonth
  BY <1>1, RtcDateParts, MonthsFit DEF MonthIndex
<1>3. PICK fe \in 28 .. 31, md \in Int, m \in 1 .. 11, length \in 28 .. 31 :
            /\ fe = FirstEnd(h) /\ md = Gmtime(h).mday /\ m = MonthOf(h)
            /\ md \in 1 .. fe /\ (k = m => length <= fe) /\ length = MonthDays(k - 1)
            /\ (k = m => fe = IF md > length THEN md ELSE length)
  <2>1. FirstEnd(h) \in 28 .. 31 /\ Gmtime(h).mday \in 1 .. FirstEnd(h)
        /\ MonthDays(MonthOf(h) - 1) <= FirstEnd(h)
    BY <1>1, FirstEndFacts
  <2>2. MonthDays(k - 1) \in 28 .. 31
    BY <1>2, MonthTyped
  <2> QED BY <1>1, <2>1, <2>2 DEF FirstEnd
<1>4. PICK v \in Int : v = HourOf(k, d, x)
  BY <1>2, HourInMonth
<1>5. \/ k = m /\ d \in md .. fe /\ v = t
      \/ k > m /\ d <= length /\ v = t + 24 * (length - fe)
  BY <1>2, <1>3, <1>4 DEF Follows, ReadsExact, ReadsOff
<1>7. ASSUME NEW next \in RtcDates, RtcNext(date) = next, NEW nd \in Int, NEW nx \in Int,
             ReadMonth(next) = k, next.day = nd, next.hour = nx, HourOf(k, nd, nx) = v + 1,
             nd = d \/ (nd = d + 1 /\ d < length)
      PROVE  Follows(RtcNext(date), h, t + 1)
  <2>1. CASE k = m
    <3>1. nd \in md .. fe /\ v = t
      BY <1>3, <1>5, <1>7, <2>1
    <3>2. ReadsExact(next, h, t + 1)
      BY <1>3, <1>7, <3>1 DEF ReadsExact
    <3> QED BY <1>1, <1>2, <1>3, <1>7, <2>1, <3>2 DEF Follows
  <2>2. CASE k > m
    <3>1. nd <= length /\ v + 1 = t + 1 + 24 * (length - fe)
      BY <1>3, <1>5, <1>7, <2>2
    <3>2. ReadsOff(next, h, t + 1)
      BY <1>3, <1>7, <2>2, <3>1 DEF ReadsOff
    <3> QED BY <1>1, <1>2, <1>3, <1>7, <3>2 DEF Follows
  <2> QED BY <1>5, <2>1, <2>2
<1>8. CASE x < 23
  <2> DEFINE next == [date EXCEPT !.hour = @ + 1]
  <2>1. /\ RtcNext(date) = next /\ next \in RtcDates /\ ReadMonth(next) = k
        /\ next.day = d /\ next.hour = x + 1
    BY <1>1, <1>2, <1>8, SameMonth
  <2>2. x + 1 \in Int /\ d \in Int
    BY DEF DayHours
  <2>3. HourOf(k, d, x + 1) = v + 1
    BY <1>2, <1>4, HourInMonth
  <2> HIDE DEF next
  <2> QED BY <1>7, <2>1, <2>2, <2>3
<1>9. CASE x = 23 /\ d < length
  <2> DEFINE next == [date EXCEPT !.hour = 0, !.day = @ + 1]
  <2>1. /\ RtcNext(date) = next /\ next \in RtcDates /\ ReadMonth(next) = k
        /\ next.day = d + 1 /\ next.hour = 0
    BY <1>1, <1>2, <1>3, <1>9, SameMonth
  <2>2. HourOf(k, d + 1, 0) = v + 1
    BY <1>2, <1>4, <1>9, HourInMonth
  <2>3. d + 1 \in Int /\ 0 \in Int
    OBVIOUS
  <2> HIDE DEF next
  <2> QED BY <1>7, <1>9, <2>1, <2>2, <2>3
<1>10. CASE x = 23 /\ ~(d < length)
  <2>1. d = IF k = m THEN fe ELSE length
    BY <1>3, <1>5, <1>10
  <2>2. v = t + 24 * (d - fe)
    BY <1>5, <2>1
  <2>3. d - fe \in Int /\ d - fe <= 3
    BY <1>3
  <2>4. HourOf(ReadMonth(date), date.day, date.hour) = t + 24 * (d - fe) /\ t <= LastRead
    BY <1>2, <1>4, <2>2 DEF LastRead
  <2>5. ReadMonth(date) <= 22
    BY <1>1, <2>3, <2>4, LateMonths
  <2>6. PICK next \in RtcDates :
              RtcNext(date) = next /\ ReadMonth(next) = k + 1 /\ next.day = 1 /\ next.hour = 0
    BY <1>1, <1>2, <1>3, <1>10, <2>5, NextMonth
  <2>7. PICK l \in 28 .. 31 : l = MonthDays(k)
    BY MonthTyped
  <2>8. HourOf(k + 1, 1, 0) = v + 1 + 24 * (l - d)
    BY <1>2, <1>4, <1>10, <2>7, HourInMonth
  <2>9. HourOf(k + 1, 1, 0) = t + 1 + 24 * (l - fe)
    BY <1>3, <1>4, <2>2, <2>7, <2>8
  <2>10. k \in Int /\ k >= m /\ (k + 1) - 1 = k /\ k + 1 <= 23
    BY <1>2, <1>3, <1>5, <2>5 DEF MonthIndex
  <2>11. ReadsOff(next, h, t + 1)
    BY <1>3, <2>6, <2>7, <2>9, <2>10 DEF ReadsOff
  <2> QED BY <1>1, <2>6, <2>10, <2>11 DEF Follows
<1>11. x <= 23
  BY DEF DayHours
<1> QED BY <1>8, <1>9, <1>10, <1>11 DEF DayHours

-----------------------------------------------------------------------------
(* The clock: summer time. *)

\* The Sundays of a month of 31 days.
Sundays(s) == {d \in 1 .. 31 : (s + d) % 7 = 0}

LEMMA LastOfSundays ==
    ASSUME NEW s \in Int, NEW v \in 1 .. 31, (s + v) % 7 = 0,
           \A d \in 1 .. 31 : d > v => (s + d) % 7 # 0
    PROVE  Max(Sundays(s)) = v
<1>1. v \in Sundays(s) /\ \A y \in Sundays(s) : v >= y
  BY DEF Sundays
<1>2. Max(Sundays(s)) \in Sundays(s) /\ \A y \in Sundays(s) : Max(Sundays(s)) >= y
  BY <1>1 DEF Max
<1>3. Max(Sundays(s)) \in Int
  BY <1>2 DEF Sundays
<1> QED BY <1>1, <1>2, <1>3

LEMMA LastSundayOfMonth ==
    ASSUME NEW k \in {2, 9, 14, 21}, NEW y \in {FirstYear, FirstYear + 1}, NEW mon \in {2, 9},
           k = 12 * (y - FirstYear) + mon
    PROVE  LastSunday(y, mon) = Max(Sundays(StartOf(k)))
<1>1. k \in MonthIndex /\ MonthDays(k) = 31
  BY DEF MonthIndex, MonthDays, MonthLength
<1>2. ASSUME NEW d \in 1 .. 31
      PROVE  Gmtime(Mktime(y, mon, d, 0)).wday = (StartOf(k) + d) % 7
  <2>1. k \in AnyMonth /\ 0 \in DayHours /\ d \in 1 .. MonthDays(k)
    BY <1>1 DEF DayHours, AnyMonth
  <2>2. Mktime(y, mon, d, 0) = HourOf(k, d, 0)
    BY <2>1, MktimeIsHour
  <2> QED BY <1>1, <2>1, <2>2, GmtimeOfHour
<1> QED BY <1>2 DEF LastSunday, Sundays

LEMMA LastSundays ==
    /\ LastSunday(FirstYear, 2) = 31 /\ LastSunday(FirstYear, 9) = 27
    /\ LastSunday(FirstYear + 1, 2) = 30 /\ LastSunday(FirstYear + 1, 9) = 26
<1>1. /\ LastSunday(FirstYear, 2) = Max(Sundays(StartOf(2)))
      /\ LastSunday(FirstYear, 9) = Max(Sundays(StartOf(9)))
      /\ LastSunday(FirstYear + 1, 2) = Max(Sundays(StartOf(14)))
      /\ LastSunday(FirstYear + 1, 9) = Max(Sundays(StartOf(21)))
  <2> DEFINE Is(k, y, mon) ==
                /\ k \in {2, 9, 14, 21} /\ y \in {FirstYear, FirstYear + 1} /\ mon \in {2, 9}
                /\ k = 12 * (y - FirstYear) + mon
  <2>1. /\ Is(2, FirstYear, 2) /\ Is(9, FirstYear, 9)
        /\ Is(14, FirstYear + 1, 2) /\ Is(21, FirstYear + 1, 9)
    BY DEF FirstYear
  <2>2. \A k, y, mon : Is(k, y, mon) => LastSunday(y, mon) = Max(Sundays(StartOf(k)))
    BY LastSundayOfMonth
  <2> HIDE DEF Is
  <2> QED BY <2>1, <2>2, Zenon
<1>2. StartOf(2) = 60 /\ StartOf(9) = 274 /\ StartOf(14) = 425 /\ StartOf(21) = 639
  BY DEF StartOf
<1>3. Max(Sundays(60)) = 31
  <2>1. (60 + 31) % 7 = 0 /\ \A d \in 1 .. 31 : d > 31 => (60 + d) % 7 # 0
    OBVIOUS
  <2> QED BY <2>1, LastOfSundays
<1>4. Max(Sundays(274)) = 27
  <2>1. (274 + 27) % 7 = 0 /\ \A d \in 1 .. 31 : d > 27 => (274 + d) % 7 # 0
    OBVIOUS
  <2> QED BY <2>1, LastOfSundays
<1>5. Max(Sundays(425)) = 30
  <2>1. (425 + 30) % 7 = 0 /\ \A d \in 1 .. 31 : d > 30 => (425 + d) % 7 # 0
    OBVIOUS
  <2> QED BY <2>1, LastOfSundays
<1>6. Max(Sundays(639)) = 26
  <2>1. (639 + 26) % 7 = 0 /\ \A d \in 1 .. 31 : d > 26 => (639 + d) % 7 # 0
    OBVIOUS
  <2> QED BY <2>1, LastOfSundays
<1> QED BY <1>1, <1>2, <1>3, <1>4, <1>5, <1>6

\* When summer time begins and ends.
LEMMA SummerHours ==
    /\ Mktime(FirstYear, 2, LastSunday(FirstYear, 2), 2) = 2162
    /\ Mktime(FirstYear, 9, LastSunday(FirstYear, 9), 3) = 7203
    /\ Mktime(FirstYear + 1, 2, LastSunday(FirstYear + 1, 2), 2) = 10898
    /\ Mktime(FirstYear + 1, 9, LastSunday(FirstYear + 1, 9), 3) = 15939
<1>1. StartOf(2) = 60 /\ StartOf(9) = 274 /\ StartOf(14) = 425 /\ StartOf(21) = 639
  BY DEF StartOf
<1>2. /\ HourOf(2, 31, 2) = 2162 /\ HourOf(9, 27, 3) = 7203
      /\ HourOf(14, 30, 2) = 10898 /\ HourOf(21, 26, 3) = 15939
  BY <1>1 DEF HourOf
<1>3. /\ Mktime(FirstYear, 2, 31, 2) = HourOf(2, 31, 2)
      /\ Mktime(FirstYear, 9, 27, 3) = HourOf(9, 27, 3)
      /\ Mktime(FirstYear + 1, 2, 30, 2) = HourOf(14, 30, 2)
      /\ Mktime(FirstYear + 1, 9, 26, 3) = HourOf(21, 26, 3)
  <2> DEFINE Is(k, y, m) == k \in AnyMonth /\ k = 12 * (y - FirstYear) + m
  <2>1. /\ Is(2, FirstYear, 2) /\ Is(9, FirstYear, 9)
        /\ Is(14, FirstYear + 1, 2) /\ Is(21, FirstYear + 1, 9)
    BY DEF FirstYear, AnyMonth
  <2> DEFINE Same(k, y, m) == \A d, h : Mktime(y, m, d, h) = HourOf(k, d, h)
  <2>2. \A k, y, m : Is(k, y, m) => Same(k, y, m)
    BY MktimeIsHour
  <2> HIDE DEF Is
  <2>3. /\ Same(2, FirstYear, 2) /\ Same(9, FirstYear, 9)
        /\ Same(14, FirstYear + 1, 2) /\ Same(21, FirstYear + 1, 9)
    <3> HIDE DEF Same
    <3> QED BY <2>1, <2>2, Zenon
  <2> QED BY <2>3
<1> QED BY <1>2, <1>3, LastSundays

\* In the first year, and in the second.
LEMMA SummerOfYear ==
    ASSUME NEW k \in MonthIndex, NEW d \in 1 .. MonthDays(k), NEW h \in DayHours,
           NEW t, t = HourOf(k, d, h)
    PROVE  IsDst(t) <=> IF k < 12 THEN 2162 <= t /\ t < 7203 ELSE 10898 <= t /\ t < 15939
<1>1. Gmtime(t).year = FirstYear + (k \div 12)
  BY GmtimeOfHour
<1>2. CASE k < 12
  <2>1. k \div 12 = 0 /\ FirstYear + 0 = FirstYear
    BY <1>2 DEF MonthIndex, FirstYear
  <2> QED BY <1>1, <1>2, <2>1, SummerHours DEF IsDst
<1>3. CASE ~(k < 12)
  <2>1. k \div 12 = 1
    BY <1>3 DEF MonthIndex
  <2> QED BY <1>1, <1>3, <2>1, SummerHours DEF IsDst
<1> QED BY <1>2, <1>3

\* A month k that begins on day s, in a year whose March and October begin on two
\* days, and have their last Sundays on begins and on ends.
YearOf(k, s, march, october, begins, ends) ==
    /\ march \in Int /\ october \in Int
    /\ begins \in 25 .. 31 /\ (march + begins) % 7 = 0
    /\ ends \in 25 .. 31 /\ (october + ends) % 7 = 0
    /\ k = 2 => s = march
    /\ k = 9 => s = october
    /\ k > 2 => s >= march + 31
    /\ k > 9 => s >= october + 31

DateOf(t, k, s, d, h, wday) ==
    /\ k \in 0 .. 11 /\ s \in Int /\ d \in Int /\ d >= 1 /\ h \in 0 .. 23
    /\ t = 24 * (s + d - 1) + h /\ wday = (s + d) % 7

DayOf(k, s, d, march, october) ==
    /\ k \in {2, 9} => d <= 31
    /\ k < 2 => s + d - 1 < march
    /\ k < 9 => s + d - 1 < october

BetweenSundays(t, march, october, begins, ends) ==
    24 * (march + begins - 1) + 2 <= t /\ t < 24 * (october + ends - 1) + 3

SummerDate(k, d, h, wday) ==
    \/ k \in 3 .. 8
    \/ k = 2 /\ d - wday >= 25 /\ (wday = 0 => h >= 2)
    \/ k = 9 /\ (d - wday < 25 \/ (wday = 0 /\ h < 3))

LEMMA SummerByWeekday ==
    ASSUME NEW k, NEW s, NEW d, NEW h, NEW wday, NEW t,
           NEW begins, NEW ends, NEW march, NEW october,
           DateOf(t, k, s, d, h, wday),
           YearOf(k, s, march, october, begins, ends), DayOf(k, s, d, march, october)
    PROVE  BetweenSundays(t, march, october, begins, ends) <=> SummerDate(k, d, h, wday)
<1> USE DEF DateOf, YearOf, DayOf, BetweenSundays, SummerDate
<1>1. CASE k < 2
  BY <1>1
<1>2. CASE k \in 3 .. 8
  BY <1>2
<1>3. CASE k > 9
  BY <1>3
<1>4. CASE k = 2
  <2>1. d <= 31 /\ s = march
    BY <1>4
  <2>2. wday \in 0 .. 6
    OBVIOUS
  <2>3. d < begins => d - wday < 25
    BY <2>1
  <2>4. d = begins => wday = 0
    BY <2>1
  <2>5. d > begins => wday = d - begins
    BY <2>1
  <2> QED BY <1>4, <2>1, <2>2, <2>3, <2>4, <2>5
<1>5. CASE k = 9
  <2>1. d <= 31 /\ s = october
    BY <1>5
  <2>2. wday \in 0 .. 6
    OBVIOUS
  <2>3. d < ends => d - wday < 25
    BY <2>1
  <2>4. d = ends => wday = 0
    BY <2>1
  <2>5. d > ends => wday = d - ends
    BY <2>1
  <2> QED BY <1>5, <2>1, <2>2, <2>3, <2>4, <2>5
<1> QED BY <1>1, <1>2, <1>3, <1>4, <1>5

LEMMA StartsOfSummer ==
    ASSUME NEW k \in 0 .. 11, NEW d \in 1 .. MonthDays(k), NEW e \in 1 .. MonthDays(k + 12)
    PROVE  /\ k = 2 => StartOf(k) = 60 /\ StartOf(k + 12) = 425
           /\ k = 9 => StartOf(k) = 274 /\ StartOf(k + 12) = 639
           /\ k \in {2, 9} => d <= 31 /\ e <= 31
           /\ k < 2 => StartOf(k) + d - 1 < 60 /\ StartOf(k + 12) + e - 1 < 425
           /\ k > 2 => StartOf(k) >= 91 /\ StartOf(k + 12) >= 456
           /\ k < 9 => StartOf(k) + d - 1 < 274 /\ StartOf(k + 12) + e - 1 < 639
           /\ k > 9 => StartOf(k) >= 305 /\ StartOf(k + 12) >= 670
<1>1. MonthDays(k) \in 28 .. 31 /\ MonthDays(k + 12) \in 28 .. 31
  <2>1. k \in MonthIndex /\ k + 12 \in MonthIndex
    BY DEF MonthIndex
  <2> QED BY <2>1, MonthTyped
<1>2. k = 1 => MonthDays(k) = 29 /\ MonthDays(k + 12) = 28
  BY DEF MonthDays, MonthLength, FirstYear
<1>3. k = 8 => MonthDays(k) = 30 /\ MonthDays(k + 12) = 30
  BY DEF MonthDays, MonthLength, FirstYear
<1>4. /\ k = 0 => StartOf(k) = 0 /\ StartOf(k + 12) = 366
      /\ k = 1 => StartOf(k) = 31 /\ StartOf(k + 12) = 397
      /\ k = 2 => StartOf(k) = 60 /\ StartOf(k + 12) = 425
      /\ k = 8 => StartOf(k) = 244 /\ StartOf(k + 12) = 609
      /\ k = 9 => StartOf(k) = 274 /\ StartOf(k + 12) = 639
      /\ k < 8 => StartOf(k) <= 213 /\ StartOf(k + 12) <= 578
      /\ k > 2 => StartOf(k) >= 91 /\ StartOf(k + 12) >= 456
      /\ k > 9 => StartOf(k) >= 305 /\ StartOf(k + 12) >= 670
      /\ StartOf(k) \in Int /\ StartOf(k + 12) \in Int
  BY DEF StartOf
<1>5. k \in {0, 1} \/ k = 2 \/ k \in 3 .. 7 \/ k = 8 \/ k >= 9
  OBVIOUS
<1> QED BY <1>1, <1>2, <1>3, <1>4, <1>5

LEMMA DstIsSummer ==
    ASSUME NEW t \in HoursOfTwoYears
    PROVE  IsDst(t) <=> SummerTime(Gmtime(t))
<1>1. PICK k \in MonthIndex : \E d \in 1 .. MonthDays(k) : \E h \in DayHours : t = HourOf(k, d, h)
  BY HourHasDate
<1>2. PICK d \in 1 .. MonthDays(k), h \in DayHours : t = HourOf(k, d, h)
  BY <1>1
<1>3. PICK s \in Int, wday \in Int : s = StartOf(k) /\ wday = (s + d) % 7
  <2>1. StartOf(k) \in Int /\ MonthDays(k) \in Int
    BY MonthsFit, StartsTyped, MonthTyped
  <2> QED BY <2>1
<1>4. t = 24 * (s + d - 1) + h /\ h \in 0 .. 23 /\ d \in Int /\ d >= 1
  BY <1>2, <1>3, MonthTyped DEF HourOf, DayHours
<1>5. /\ Gmtime(t).mon = k % 12 /\ Gmtime(t).mday = d /\ Gmtime(t).hour = h
      /\ Gmtime(t).wday = wday
  BY <1>2, <1>3, GmtimeOfHour
<1>6. SummerTime(Gmtime(t))
         <=> SummerDate(k % 12, d, h, wday)
  BY <1>5 DEF SummerTime, SummerDate
<1>7. CASE k < 12
  <2>1. IsDst(t) <=> 2162 <= t /\ t < 7203
    BY <1>2, <1>7, SummerOfYear
  <2>2. k \in 0 .. 11 /\ k % 12 = k
    BY <1>7 DEF MonthIndex
  <2>3. MonthDays(k + 12) >= 1 /\ MonthDays(k + 12) \in Int
    <3>1. k + 12 \in MonthIndex
      BY <2>2 DEF MonthIndex
    <3> QED BY <3>1, MonthTyped
  <2>4. PICK e \in 1 .. MonthDays(k + 12) : TRUE
    BY <2>3
  <2>5. /\ k = 2 => s = 60
        /\ k = 9 => s = 274
        /\ k \in {2, 9} => d <= 31
        /\ k < 2 => s + d - 1 < 60
        /\ k > 2 => s >= 60 + 31
        /\ k < 9 => s + d - 1 < 274
        /\ k > 9 => s >= 274 + 31
    BY <1>3, <2>2, <2>4, StartsOfSummer
  <2> DEFINE Is(march, october, begins, ends) ==
                march = 60 /\ october = 274 /\ begins = 31 /\ ends = 27
  <2>6. PICK march, october, begins, ends : Is(march, october, begins, ends)
    OBVIOUS
  <2>7. YearOf(k, s, march, october, begins, ends) /\ DayOf(k, s, d, march, october)
    BY <2>5, <2>6 DEF YearOf, DayOf
  <2>10. DateOf(t, k, s, d, h, wday)
    BY <1>3, <1>4, <2>2 DEF DateOf
  <2>8. BetweenSundays(t, march, october, begins, ends) <=> SummerDate(k, d, h, wday)
    <3> HIDE DEF Is
    <3> QED BY <2>7, <2>10, SummerByWeekday, Zenon
  <2>9. BetweenSundays(t, march, october, begins, ends) <=> 2162 <= t /\ t < 7203
    BY <2>6 DEF BetweenSundays
  <2> QED BY <1>6, <2>1, <2>2, <2>8, <2>9
<1>8. CASE ~(k < 12)
  <2>1. IsDst(t) <=> 10898 <= t /\ t < 15939
    BY <1>2, <1>8, SummerOfYear
  <2>2. PICK j \in 0 .. 11 : k = j + 12 /\ k % 12 = j
    <3>1. k - 12 \in 0 .. 11 /\ k = (k - 12) + 12 /\ k % 12 = k - 12
      BY <1>8 DEF MonthIndex
    <3> QED BY <3>1
  <2>3. MonthDays(j) >= 1 /\ MonthDays(j) \in Int
    <3>1. j \in MonthIndex
      BY <2>2 DEF MonthIndex
    <3> QED BY <3>1, MonthTyped
  <2>4. PICK e \in 1 .. MonthDays(j) : TRUE
    BY <2>3
  <2>5. /\ j = 2 => s = 425
        /\ j = 9 => s = 639
        /\ j \in {2, 9} => d <= 31
        /\ j < 2 => s + d - 1 < 425
        /\ j > 2 => s >= 425 + 31
        /\ j < 9 => s + d - 1 < 639
        /\ j > 9 => s >= 639 + 31
    BY <1>3, <2>2, <2>4, StartsOfSummer
  <2> DEFINE Is(march, october, begins, ends) ==
                march = 425 /\ october = 639 /\ begins = 30 /\ ends = 26
  <2>6. PICK march, october, begins, ends : Is(march, october, begins, ends)
    OBVIOUS
  <2>7. YearOf(j, s, march, october, begins, ends) /\ DayOf(j, s, d, march, october)
    BY <2>5, <2>6 DEF YearOf, DayOf
  <2>10. DateOf(t, j, s, d, h, wday)
    BY <1>3, <1>4, <2>2 DEF DateOf
  <2>8. BetweenSundays(t, march, october, begins, ends) <=> SummerDate(j, d, h, wday)
    <3> HIDE DEF Is
    <3> QED BY <2>7, <2>10, SummerByWeekday, Zenon
  <2>9. BetweenSundays(t, march, october, begins, ends) <=> 10898 <= t /\ t < 15939
    BY <2>6 DEF BetweenSundays
  <2> QED BY <1>6, <2>1, <2>2, <2>8, <2>9
<1> QED BY <1>7, <1>8

-----------------------------------------------------------------------------
(* The clock: the theorem. *)

\* The clock is set again before the month of the year it was set in comes back.
SetEveryYear == MaxElapsed <= 24 * 330

\* The RTC counts on from its last date that was taken, also when one was refused since.
TimeInv ==
    /\ set_at \in [time : Hours, kept : BOOLEAN]
    /\ rtc_now \in Int /\ set_at.time <= rtc_now /\ rtc_now <= set_at.time + MaxElapsed
    /\ set_at.kept => rtc # NotRunning
    /\ rtc # NotRunning =>
          \E h \in Hours : /\ set_at.kept => h = set_at.time
                           /\ Follows(rtc, h, h + (rtc_now - set_at.time))

LEMMA TimeInvInit == TimeInit => TimeInv
<1>1. 0 \in Hours /\ NeverSet.time = 0 /\ NeverSet.kept = FALSE
      /\ NeverSet \in [time : Hours, kept : BOOLEAN]
  BY DEF Hours, NeverSet
<1>2. 0 <= 0 + MaxElapsed
  BY PicoTimeAssumption DEF PicoTimeAssumption
<1> QED BY <1>1, <1>2 DEF TimeInit, TimeInv

LEMMA DateRuns == NotRunning \notin RtcDates
BY DEF NotRunning, RtcDates

LEMMA TimeTickInv == SetEveryYear /\ TimeInv /\ TimeTick => TimeInv'
<1> SUFFICES ASSUME SetEveryYear, TimeInv, TimeTick PROVE TimeInv'
  OBVIOUS
<1>1. PICK at \in Hours, now \in Int, max \in Nat :
            at = set_at.time /\ now = rtc_now /\ max = MaxElapsed
  BY PicoTimeAssumption DEF PicoTimeAssumption, TimeInv
<1>2. at <= now /\ now < at + max /\ max <= 24 * 330
  BY <1>1 DEF TimeInv, TimeTick, SetEveryYear
<1>3. rtc_now' = now + 1 /\ set_at' = set_at
  BY <1>1 DEF TimeTick
<1>4. at \in Int
  BY DEF Hours
<1>5. CASE rtc = NotRunning
  <2>1. rtc' = NotRunning
    BY <1>5 DEF TimeTick
  <2>2. rtc_now' \in Int /\ at <= rtc_now' /\ rtc_now' <= at + max
    BY <1>2, <1>3, <1>4
  <2> QED BY <1>1, <1>3, <1>5, <2>1, <2>2 DEF TimeInv
<1>6. CASE rtc # NotRunning
  <2>1. rtc' = RtcNext(rtc)
    BY <1>6 DEF TimeTick
  <2>2. PICK h \in Hours : (set_at.kept => h = at) /\ Follows(rtc, h, h + (now - at))
    BY <1>1, <1>6 DEF TimeInv
  <2>3. PICK t \in Int : t = h + (now - at) /\ t + 1 = h + ((now + 1) - at) /\ t + 1 <= LastRead
    <3>1. h \in 0 .. 24 * 365
      BY DEF Hours
    <3> QED BY <1>2, <1>4, <3>1 DEF LastRead
  <2>4. Follows(rtc', h, h + ((now + 1) - at))
    BY <2>1, <2>2, <2>3, FollowsNext
  <2>5. rtc' # NotRunning
    BY <2>4, DateRuns DEF Follows
  <2>6. rtc_now' \in Int /\ at <= rtc_now' /\ rtc_now' <= at + max
    BY <1>2, <1>3, <1>4
  <2>7. (set_at'.kept => h = set_at'.time) /\ Follows(rtc', h, h + (rtc_now' - set_at'.time))
    <3>1. set_at'.kept = set_at.kept /\ set_at'.time = at
      BY <1>1, <1>3, Zenon
    <3>2. rtc_now' - set_at'.time = (now + 1) - at
      BY <1>3, <3>1
    <3> QED BY <2>2, <2>4, <3>1, <3>2, Zenon
  <2>8. set_at' \in [time : Hours, kept : BOOLEAN]
    BY <1>3 DEF TimeInv
  <2>9. rtc_now' \in Int /\ set_at'.time <= rtc_now' /\ rtc_now' <= set_at'.time + MaxElapsed
    BY <1>1, <1>3, <2>6
  <2> QED BY <2>5, <2>7, <2>8, <2>9, Zenon DEF TimeInv
<1> QED BY <1>5, <1>6

LEMMA YearOfHour ==
    ASSUME NEW t \in Hours
    PROVE  \E k \in 0 .. 11 : \E d \in 1 .. 31 : \E h \in DayHours :
              /\ t = HourOf(k, d, h) /\ MonthOf(t) = k /\ d <= MonthDays(k)
              /\ Gmtime(t).year = FirstYear /\ Gmtime(t).mon = k
              /\ Gmtime(t).mday = d /\ Gmtime(t).hour = h
<1>1. t \in HoursOfTwoYears /\ t <= 24 * 365
  <2>1. t \in 0 .. 24 * 365
    BY DEF Hours
  <2>2. t \in HoursOfTwoYears
    BY DEF Hours, HoursOfTwoYears
  <2> QED BY <2>1, <2>2
<1>2. PICK k \in MonthIndex : \E d \in 1 .. MonthDays(k) : \E h \in DayHours : t = HourOf(k, d, h)
  BY <1>1, HourHasDate
<1>3. PICK d \in 1 .. MonthDays(k), h \in DayHours : t = HourOf(k, d, h)
  BY <1>2
<1>4. PICK s \in Nat : s = StartOf(k)
  BY MonthsFit, StartsTyped
<1>5. t = 24 * (s + d - 1) + h /\ d \in Int /\ d >= 1 /\ h \in 0 .. 23
  BY <1>3, <1>4, MonthTyped DEF HourOf, DayHours
<1>6. k \in 0 .. 11
  <2>1. s <= 365
    BY <1>1, <1>5
  <2>2. k >= 12 => StartOf(k) >= 366
    BY DEF StartOf, MonthIndex
  <2> QED BY <1>4, <2>1, <2>2 DEF MonthIndex
<1>7. k \div 12 = 0 /\ k % 12 = k /\ FirstYear + 0 = FirstYear
  BY <1>6 DEF FirstYear
<1>8. d \in 1 .. 31 /\ d <= MonthDays(k)
  BY MonthTyped
<1>9. /\ MonthOf(t) = k /\ Gmtime(t).year = FirstYear + (k \div 12) /\ Gmtime(t).mon = k % 12
      /\ Gmtime(t).mday = d /\ Gmtime(t).hour = h
  BY <1>3, GmtimeOfHour
<1> QED BY <1>3, <1>6, <1>7, <1>8, <1>9

\* What the RTC takes is read back.
LEMMA TakenFollows ==
    ASSUME NEW t \in Hours, RtcTakes(RtcDate(t))
    PROVE  Follows(RtcDate(t), t, t + 0)
<1>1. PICK k \in 0 .. 11, d \in 1 .. 31, h \in DayHours :
              /\ t = HourOf(k, d, h) /\ MonthOf(t) = k /\ d <= MonthDays(k)
              /\ Gmtime(t).year = FirstYear /\ Gmtime(t).mon = k
              /\ Gmtime(t).mday = d /\ Gmtime(t).hour = h
  BY YearOfHour
<1>2. RtcDate(t) = [year |-> FirstYear, month |-> k, day |-> d, hour |-> h]
  BY <1>1 DEF RtcDate
<1>3. k \in 1 .. 11
  BY <1>1, <1>2 DEF RtcTakes
<1>4. RtcDate(t) \in RtcDates
  BY <1>2, <1>3 DEF RtcDates
<1>5. ReadMonth(RtcDate(t)) = k
  BY <1>2, <1>3 DEF ReadMonth, FirstYear
<1>6. FirstEnd(t) \in 28 .. 31 /\ Gmtime(t).mday \in 1 .. FirstEnd(t)
  BY <1>1, <1>3, FirstEndFacts
<1>7. t + 0 = t
  BY DEF Hours
<1>8. ReadsExact(RtcDate(t), t, t)
  BY <1>1, <1>2, <1>5, <1>6 DEF ReadsExact
<1> QED BY <1>1, <1>3, <1>4, <1>5, <1>7, <1>8 DEF Follows

LEMMA SetClockInv == TimeInv /\ SetClock => TimeInv'
<1> SUFFICES ASSUME TimeInv, SetClock PROVE TimeInv'
  OBVIOUS
<1>1. PICK t \in SetTimes : SetTimestamp(t)
  BY DEF SetClock
<1>2. t \in Hours /\ t \in Int /\ MaxElapsed \in Nat
  BY PicoTimeAssumption DEF PicoTimeAssumption, Hours
<1>3. /\ rtc_now' = t /\ set_at' = [time |-> t, kept |-> RtcTakes(RtcDate(t))]
      /\ set_at'.time = t /\ (set_at'.kept <=> RtcTakes(RtcDate(t)))
  BY <1>1 DEF SetTimestamp
<1>4. set_at' \in [time : Hours, kept : BOOLEAN]
  <2>1. RtcTakes(RtcDate(t)) \in BOOLEAN
    BY DEF RtcTakes
  <2> QED BY <1>2, <1>3, <2>1
<1>5. rtc_now' \in Int /\ set_at'.time <= rtc_now' /\ rtc_now' <= set_at'.time + MaxElapsed
  BY <1>2, <1>3
<1>6. rtc_now' - set_at'.time = 0
  BY <1>2, <1>3
<1>7. CASE RtcTakes(RtcDate(t))
  <2>1. rtc' = RtcDate(t)
    BY <1>1, <1>7 DEF SetTimestamp
  <2>2. Follows(rtc', t, t + (rtc_now' - set_at'.time))
    BY <1>2, <1>6, <1>7, <2>1, TakenFollows
  <2>3. rtc' # NotRunning
    BY <2>2, DateRuns DEF Follows
  <2> QED BY <1>2, <1>3, <1>4, <1>5, <2>2, <2>3 DEF TimeInv
<1>8. CASE ~RtcTakes(RtcDate(t))
  <2>1. rtc' = rtc
    BY <1>1, <1>8 DEF SetTimestamp
  <2>2. rtc_now - set_at.time = 0
    <3>1. set_at.time \in Int /\ rtc_now = set_at.time
      BY DEF TimeInv, SetClock, Hours
    <3> QED BY <3>1
  <2>3. ASSUME rtc # NotRunning
        PROVE  \E h \in Hours : Follows(rtc', h, h + (rtc_now' - set_at'.time))
    <3>1. PICK h \in Hours : Follows(rtc, h, h + (rtc_now - set_at.time))
      BY <2>3 DEF TimeInv
    <3> QED BY <1>6, <2>1, <2>2, <3>1
  <2>4. ~set_at'.kept
    BY <1>3, <1>8
  <2> QED BY <1>4, <1>5, <2>1, <2>3, <2>4 DEF TimeInv
<1> QED BY <1>7, <1>8

\* As long as it is in the month it was set in.
LEMMA OffIsLate ==
    ASSUME NEW h \in Hours, NEW t \in Int, NEW date, Follows(date, h, t), ReadsOff(date, h, t)
    PROVE  t >= 24 * (StartOf(MonthOf(h)) + FirstEnd(h))
<1>1. date \in RtcDates /\ MonthOf(h) \in 1 .. 11 /\ FirstEnd(h) \in 28 .. 31
  BY FirstEndFacts DEF Follows
<1>2. PICK k \in 1 .. 23, d \in 1 .. 31, x \in DayHours :
            /\ k = ReadMonth(date) /\ d = date.day /\ x = date.hour
            /\ k - 1 \in MonthIndex /\ k \in AnyMonth /\ k - 1 \in AnyMonth
            /\ MonthOf(h) \in AnyMonth
  BY <1>1, RtcDateParts DEF Follows, MonthIndex, AnyMonth
<1>3. k > MonthOf(h) /\ HourOf(k, d, x) = t + 24 * (MonthDays(k - 1) - FirstEnd(h))
  BY <1>2 DEF ReadsOff
<1>4. /\ StartOf(k) \in Nat /\ StartOf(k - 1) \in Nat /\ StartOf(MonthOf(h)) \in Nat
      /\ MonthDays(k - 1) \in 28 .. 31
  BY <1>2, StartsTyped, MonthTyped
<1>5. StartOf(k) = StartOf(k - 1) + MonthDays(k - 1)
  <2>1. (k - 1) + 1 = k
    OBVIOUS
  <2> QED BY <1>2, <2>1, NextStart
<1>6. StartOf(MonthOf(h)) <= StartOf(k - 1)
  <2>1. MonthOf(h) <= k - 1
    BY <1>1, <1>3
  <2> QED BY <1>2, <2>1, StartsIncrease
<1>7. PICK s \in Nat, p \in Nat, m \in Nat, l \in 28 .. 31, fe \in 28 .. 31 :
            /\ s = StartOf(k) /\ p = StartOf(k - 1) /\ m = StartOf(MonthOf(h))
            /\ l = MonthDays(k - 1) /\ fe = FirstEnd(h)
  BY <1>1, <1>4
<1>8. 24 * (s + d - 1) + x = t + 24 * (l - fe) /\ s = p + l /\ m <= p /\ x \in 0 .. 23
  BY <1>3, <1>5, <1>6, <1>7 DEF HourOf, DayHours
<1>9. t >= 24 * (m + fe)
  BY <1>7, <1>8
<1> QED BY <1>7, <1>9

LEMMA ExactInItsMonth ==
    ASSUME NEW h \in Hours, NEW t \in Int, h <= t, t <= h + 24 * 330, NEW date, Follows(date, h, t),
           \/ t = h
           \/ /\ Gmtime(t).mon = Gmtime(h).mon
              /\ Gmtime(t).mday <= MonthLength(Gmtime(h).year, Gmtime(h).mon - 1)
    PROVE  HourOf(ReadMonth(date), date.day, date.hour) = t
<1>1. PICK m \in 0 .. 11, md \in 1 .. 31, x \in DayHours :
              /\ h = HourOf(m, md, x) /\ MonthOf(h) = m /\ md <= MonthDays(m)
              /\ Gmtime(h).year = FirstYear /\ Gmtime(h).mon = m
              /\ Gmtime(h).mday = md /\ Gmtime(h).hour = x
  BY YearOfHour
<1>2. m \in 1 .. 11 /\ m \in AnyMonth /\ m \in MonthIndex
  BY <1>1 DEF Follows, AnyMonth, MonthIndex
<1>3. PICK fe \in 28 .. 31, s \in Nat : fe = FirstEnd(h) /\ s = StartOf(m) /\ md <= fe
  BY <1>1, <1>2, FirstEndFacts, StartsTyped
<1>4. h = 24 * (s + md - 1) + x /\ x \in 0 .. 23
  BY <1>1, <1>3 DEF HourOf, DayHours
<1>5. SUFFICES ASSUME ReadsOff(date, h, t) PROVE FALSE
  BY DEF Follows, ReadsExact
<1>6. t >= 24 * (s + fe)
  BY <1>1, <1>3, <1>5, OffIsLate
<1>7. t # h
  BY <1>3, <1>4, <1>6
<1>8. t \in HoursOfTwoYears
  <2>1. h \in 0 .. 24 * 365
    BY DEF Hours
  <2> QED BY <2>1 DEF HoursOfTwoYears
<1>9. PICK k \in MonthIndex : \E d \in 1 .. MonthDays(k) : \E y \in DayHours : t = HourOf(k, d, y)
  BY <1>8, HourHasDate
<1>10. PICK d \in 1 .. MonthDays(k), y \in DayHours : t = HourOf(k, d, y)
  BY <1>9
<1>11. Gmtime(t).mon = k % 12 /\ Gmtime(t).mday = d
  BY <1>10, GmtimeOfHour
<1>12. k % 12 = m /\ d <= MonthLength(FirstYear, m - 1)
  BY <1>1, <1>7, <1>11
<1>13. PICK r \in Nat : r = StartOf(k)
  BY MonthsFit, StartsTyped
<1>14. t = 24 * (r + d - 1) + y /\ y \in 0 .. 23 /\ d \in Int /\ d >= 1
  BY <1>10, <1>13, MonthTyped DEF HourOf, DayHours
<1>15. k = m
  <2>1. k = m \/ k = m + 12
    BY <1>2, <1>12 DEF MonthIndex
  <2>2. ASSUME k = m + 12 PROVE r >= s + 365
    BY <1>2, <1>3, <1>13, <2>2 DEF StartOf
  <2> QED BY <1>4, <1>14, <2>1, <2>2
<1>16. MonthLength(FirstYear, m - 1) <= fe
  <2>1. (m - 1) \div 12 = 0 /\ (m - 1) % 12 = m - 1 /\ FirstYear + 0 = FirstYear
    BY <1>2 DEF FirstYear
  <2>2. MonthDays(m - 1) = MonthLength(FirstYear, m - 1)
    BY <2>1 DEF MonthDays
  <2> QED BY <1>1, <1>2, <1>3, <2>2, FirstEndFacts
<1>17. r = s
  BY <1>3, <1>13, <1>15
<1>18. MonthLength(FirstYear, m - 1) \in Int
  BY DEF MonthLength
<1> QED BY <1>6, <1>12, <1>14, <1>16, <1>17, <1>18

LEMMA ErrorOfThreeDays ==
    ASSUME NEW h \in Hours, NEW t \in Int, NEW date, Follows(date, h, t)
    PROVE  HourOf(ReadMonth(date), date.day, date.hour) - t \in -72 .. 72
<1>1. CASE ReadsOff(date, h, t)
  <2>1. FirstEnd(h) \in 28 .. 31
    BY FirstEndFacts DEF Follows
  <2>2. MonthDays(ReadMonth(date) - 1) \in 28 .. 31
    BY RtcDateParts, MonthTyped DEF Follows
  <2> QED BY <1>1, <2>1, <2>2 DEF ReadsOff
<1>2. CASE ReadsExact(date, h, t)
  BY <1>2 DEF ReadsExact
<1> QED BY <1>1, <1>2 DEF Follows

LEMMA ReadsOfTwoYears ==
    ASSUME NEW date \in RtcDates, ReadMonth(date) <= 23
    PROVE  HourOf(ReadMonth(date), date.day, date.hour) \in HoursOfTwoYears
<1>1. PICK k \in AnyMonth, d \in 1 .. 31, x \in DayHours :
            k = ReadMonth(date) /\ d = date.day /\ x = date.hour
  BY RtcDateParts DEF AnyMonth
<1>2. PICK s \in Nat : s = StartOf(k)
  BY StartsTyped
<1>3. s <= 700
  BY <1>1, <1>2 DEF StartOf, AnyMonth
<1>4. 24 * (s + d - 1) + x \in HoursOfTwoYears
  <2>1. PICK e \in TwoYears : e = s + d - 1
    BY <1>3 DEF TwoYears
  <2>2. 24 * e + x \in HoursOfTwoYears
    BY DEF TwoYears, HoursOfTwoYears, DayHours
  <2> QED BY <2>1, <2>2
<1> QED BY <1>1, <1>2, <1>4 DEF HourOf

LEMMA ClockInv == SetEveryYear /\ TimeInv => ClockReads
<1> SUFFICES ASSUME SetEveryYear, TimeInv PROVE ClockReads
  OBVIOUS
<1>1. PICK at \in Hours, now \in Int :
            /\ at = set_at.time /\ now = rtc_now /\ at \in Int
            /\ at <= now /\ now <= at + 24 * 330
  <2>1. set_at.time \in Hours /\ MaxElapsed \in Nat
    BY PicoTimeAssumption DEF PicoTimeAssumption, TimeInv
  <2>2. \A h \in Hours : h \in Int
    BY DEF Hours
  <2> QED BY <2>1, <2>2 DEF TimeInv, SetEveryYear
<1>2. ASSUME rtc # NotRunning
      PROVE  \E h \in Hours : /\ set_at.kept => h = at /\ Follows(rtc, h, now)
                              /\ rtc \in RtcDates /\ ReadMonth(rtc) <= 23
  <2>1. PICK h \in Hours : (set_at.kept => h = at) /\ Follows(rtc, h, h + (now - at))
    BY <1>1, <1>2 DEF TimeInv
  <2>2. h = at => h + (now - at) = now
    BY <1>1
  <2> QED BY <2>1, <2>2 DEF Follows
<1>3. ASSUME rtc # NotRunning
      PROVE  Timestamp = HourOf(ReadMonth(rtc), rtc.day, rtc.hour)
  <2>1. ReadMonth(rtc) \in AnyMonth /\ ReadMonth(rtc) = 12 * (rtc.year - FirstYear) + rtc.month
    BY <1>2, <1>3, RtcDateParts DEF AnyMonth, ReadMonth
  <2> QED BY <1>3, <2>1, MktimeIsHour DEF Timestamp
<1>4. ASSUME set_at.kept
      PROVE  /\ rtc_now = set_at.time => Timestamp = rtc_now
             /\ LET set == Gmtime(set_at.time)
                    now_ == Gmtime(rtc_now)
                IN now_.mon = set.mon /\ now_.mday <= MonthLength(set.year, set.mon - 1) =>
                       Timestamp = rtc_now
             /\ Timestamp - rtc_now \in -72 .. 72
  <2>1. rtc # NotRunning
    BY <1>4 DEF TimeInv
  <2>2. Follows(rtc, at, now)
    BY <1>2, <1>4, <2>1
  <2>3. Timestamp - now \in -72 .. 72
    BY <1>3, <2>1, <2>2, ErrorOfThreeDays
  <2>4. ASSUME \/ now = at
               \/ /\ Gmtime(now).mon = Gmtime(at).mon
                  /\ Gmtime(now).mday <= MonthLength(Gmtime(at).year, Gmtime(at).mon - 1)
        PROVE  Timestamp = now
    BY <1>1, <1>3, <2>1, <2>2, <2>4, ExactInItsMonth
  <2> QED BY <1>1, <2>3, <2>4
<1>5. ASSUME rtc # NotRunning
      PROVE  DateTime(Timezone, TRUE) = Timestamp + Timezone
                                        + IF SummerTime(Gmtime(Timestamp)) THEN 1 ELSE 0
  <2>1. Timestamp \in HoursOfTwoYears
    BY <1>2, <1>3, <1>5, ReadsOfTwoYears
  <2>2. IsDst(Timestamp) <=> SummerTime(Gmtime(Timestamp))
    BY <2>1, DstIsSummer
  <2> QED BY <2>2 DEF DateTime
<1> QED BY <1>4, <1>5 DEF ClockReads

(* A time the RTC has taken is read back, is counted on exactly to the day on *)
(* which its month, or the shorter one before it, ends, and is never more    *)
(* than three days off after that, whatever times of the year it is set to,  *)
(* if it is set again before the same month of the next; the hour of summer  *)
(* time is added from the last Sunday of March to that of October, also to a *)
(* date that is off (pico-time.cpp:46-85, 125-186).                          *)
THEOREM ClockKept == SetEveryYear => (TimeSpec => []ClockReads)
<1> SUFFICES ASSUME SetEveryYear PROVE TimeSpec => []ClockReads
  OBVIOUS
<1>1. TimeInv /\ [TimeNext]_timeVars => TimeInv'
  <2>1. TimeInv /\ UNCHANGED timeVars => TimeInv'
    BY DEF timeVars, TimeInv
  <2> QED BY <2>1, TimeTickInv, SetClockInv DEF TimeNext
<1> QED BY <1>1, TimeInvInit, ClockInv, PTL DEF TimeSpec

==============================================================================
