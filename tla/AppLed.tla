------------------------------- MODULE AppLed -------------------------------
(***************************************************************************)
(* The status LED, app_led (hhg-app/src/app-led.cpp).                      *)
(*                                                                         *)
(* A thread of priority LOW looks at `status` every 100 ms, starts an on or *)
(* off phase for it, counts the phase down and, at its end, puts the       *)
(* current status back.  Threads of priority HIGH set `status` to ask for  *)
(* another one: they may come anywhere in the thread's iteration, and are  *)
(* never interrupted by it.  What lies between reading `status` and        *)
(* writing it is the step from Show to Settle.                             *)
(***************************************************************************)
EXTENDS Naturals

CONSTANTS
    LoadingTicks, WarningTicks, ErrorTicks, ReadyTicks   \* 5, 3, 2 and 1000

ASSUME AppLedAssumption ==
    {LoadingTicks, WarningTicks, ErrorTicks, ReadyTicks} \subseteq Nat \ {0}

VARIABLES
    status, curren_status,
    on, timer_on, timer_off,   \* locals of the thread, in ticks of 100 ms
    rgb,                       \* the colour of the LED
    led_at,                    \* the thread: about to read `status`, or to settle it
    led_asked,                 \* history: the status last asked for,
    heard, repeats,            \* whether between two iterations, and how often (at most 2)
    steady                     \* history: iterations since colour and status last changed

askedVars == <<led_asked, heard, repeats>>
ledVars == <<status, curren_status, on, timer_on, timer_off, rgb, led_at, askedVars, steady>>

\* RUNNING_IRRIGATION is never set; running_irrigation() asks for READY.
Status == {"LOADING", "WARNING", "ERROR", "READY"}

Colour(s) == CASE s \in {"LOADING", "READY"} -> "green"
               [] s = "WARNING" -> "yellow"
               [] s = "ERROR" -> "red"

SteadyCap == LoadingTicks + WarningTicks + ErrorTicks + ReadyTicks

PhaseTicks(s) == CASE s = "LOADING" -> LoadingTicks
                   [] s = "WARNING" -> WarningTicks
                   [] s = "ERROR" -> ErrorTicks
                   [] s = "READY" -> ReadyTicks

(* Every variable has its type; the ticks left of a phase do not pass zero,  *)
(* where its end would not be found (app-led.hpp:49-57, app-led.cpp:66-68).  *)
LedTypeOK ==
    /\ status \in Status \cup {"NONE"}
    /\ curren_status \in Status
    /\ on \in BOOLEAN
    /\ timer_on \in Nat /\ timer_off \in Nat
    /\ rgb \in {"off", "green", "yellow", "red"}
    /\ led_at \in {"switch", "settle"}
    /\ led_asked \in Status /\ heard \in BOOLEAN /\ repeats \in 0 .. 2
    /\ steady \in 0 .. SteadyCap

LedInit ==
    /\ status = "LOADING" /\ curren_status = "LOADING"
    /\ on = TRUE /\ timer_on = 0 /\ timer_off = 0
    /\ rgb = "off"
    /\ led_at = "switch"
    /\ led_asked = "LOADING" /\ heard = FALSE /\ repeats = 0
    /\ steady = 0

-----------------------------------------------------------------------------
(* The thread. *)

\* What is counted of an iteration.
Seen ==
    /\ repeats' = IF heard /\ repeats < 2 THEN repeats + 1 ELSE repeats
    /\ heard' = FALSE
    /\ steady' = IF <<rgb, curren_status>>' # <<rgb, curren_status>> THEN 0
                 ELSE IF steady < SteadyCap THEN steady + 1 ELSE steady

\* Mutated: the off phase of READY is as long as its on phase, and dark.
ShowReadyBlinking ==
    /\ led_at = "switch" /\ led_at' = "settle"
    /\ \/ /\ status # "NONE"
          /\ curren_status' = status
          /\ rgb' = IF on THEN Colour(status) ELSE "off"
          /\ timer_on' = IF on THEN PhaseTicks(status) ELSE timer_on
          /\ timer_off' = IF on THEN timer_off ELSE PhaseTicks(status)
       \/ /\ status = "NONE"
          /\ UNCHANGED <<curren_status, rgb, timer_on, timer_off>>
    /\ Seen
    /\ UNCHANGED <<status, on, led_asked>>

\* Mutated: a phase that is running is not interrupted.
ShowNextPhase ==
    /\ led_at = "switch" /\ led_at' = "settle"
    /\ \/ /\ status # "NONE"
          /\ curren_status' = status
          /\ IF timer_on = 0 /\ timer_off = 0
             THEN /\ rgb' = IF on THEN Colour(status) ELSE "off"
                  /\ timer_on' = IF on THEN PhaseTicks(status) ELSE timer_on
                  /\ timer_off' = IF on THEN timer_off ELSE PhaseTicks(status)
             ELSE UNCHANGED <<rgb, timer_on, timer_off>>
       \/ /\ status = "NONE"
          /\ UNCHANGED <<curren_status, rgb, timer_on, timer_off>>
    /\ Seen
    /\ UNCHANGED <<status, on, led_asked>>

(* The switch on `status`.  The off phase of READY lasts no time and leaves  *)
(* the colour alone.                                                         *)
Show ==
    /\ led_at = "switch" /\ led_at' = "settle"
    /\ \/ /\ status # "NONE" /\ on
          /\ curren_status' = status
          /\ rgb' = Colour(status)
          /\ timer_on' = PhaseTicks(status)
          /\ UNCHANGED timer_off
       \/ /\ status # "NONE" /\ ~on
          /\ curren_status' = status
          /\ IF status = "READY" THEN timer_off' = 0 /\ rgb' = rgb
             ELSE timer_off' = PhaseTicks(status) /\ rgb' = "off"
          /\ UNCHANGED timer_on
       \/ /\ status = "NONE"
          /\ UNCHANGED <<curren_status, rgb, timer_on, timer_off>>
    /\ Seen
    /\ UNCHANGED <<status, on, led_asked>>

\* Mutated: both phases are counted down, whichever is running.
SettleBoth ==
    /\ led_at = "settle" /\ led_at' = "switch"
    /\ timer_on' = timer_on - 1 /\ timer_off' = timer_off - 1
    /\ status' = "NONE"
    /\ UNCHANGED <<curren_status, on, rgb, askedVars, steady>>

(* Counting the phase down, or ending it.  Whatever `status` has become      *)
(* since Show is overwritten.  Then the thread sleeps for a tick.            *)
Settle ==
    /\ led_at = "settle" /\ led_at' = "switch"
    /\ \/ /\ timer_on > 0
          /\ timer_on' = timer_on - 1
          /\ status' = "NONE"
          /\ UNCHANGED <<timer_off, on>>
       \/ /\ timer_on = 0 /\ timer_off > 0
          /\ timer_off' = timer_off - 1
          /\ status' = "NONE"
          /\ UNCHANGED <<timer_on, on>>
       \/ /\ timer_on = 0 /\ timer_off = 0
          /\ on' = ~on
          /\ status' = curren_status
          /\ UNCHANGED <<timer_on, timer_off>>
    /\ UNCHANGED <<curren_status, rgb, askedVars, steady>>

LedThread == Show \/ Settle

-----------------------------------------------------------------------------
(* The setters: loading(), warning(), error(), ready(). *)

Asked(s) ==
    /\ led_asked' = s
    /\ heard' = (led_at = "switch")
    /\ repeats' = IF s = led_asked THEN repeats ELSE 0

\* Mutated: compared with `status`, which is NONE most of the time.
AskOnce(s) ==
    /\ Asked(s)
    /\ status' = IF led_asked # s THEN s ELSE status
    /\ UNCHANGED <<curren_status, on, timer_on, timer_off, rgb, led_at, steady>>

Ask(s) ==
    /\ Asked(s)
    /\ status' = IF curren_status # s THEN s ELSE status
    /\ UNCHANGED <<curren_status, on, timer_on, timer_off, rgb, led_at, steady>>

LedNext == LedThread \/ \E s \in Status : Ask(s)

LedSpec == LedInit /\ [][LedNext]_ledVars

-----------------------------------------------------------------------------
(* Properties. *)

(* The LED never shows the colour of a status that is not the current one,   *)
(* however the phases of two statuses cut into each other, except in the one *)
(* tick of READY's off phase, which leaves the LED as it was                 *)
(* (app-led.cpp:73-134).                                                     *)
ColourTells ==
    rgb \in {"off", Colour(curren_status)}
    \/ (curren_status = "READY" /\ (~on \/ timer_on = 0))

(* Dark and lit phases do not overlap: what is counted down is the phase     *)
(* that is seen (app-led.cpp:136-153).                                       *)
PhasesAreSeen ==
    /\ timer_off > 0 => rgb = "off" /\ timer_on = 0 /\ ~on
    /\ timer_on > 0 => rgb # "off" /\ timer_off = 0 /\ on

LedInv == LedTypeOK /\ ColourTells /\ PhasesAreSeen

(* LOADING and READY have one colour: it is the blinking that tells them     *)
(* apart.  LOADING never stops blinking, whatever is asked for meanwhile and *)
(* lost; READY is dark at most for the tick it begins with                   *)
(* (app-led.cpp:77-89, 121-134, 139-153).                                    *)
BlinkingTells ==
    /\ curren_status = "LOADING" => steady <= LoadingTicks + 1
    /\ curren_status = "READY" /\ rgb = "off" => steady <= 1

(* A status asked for in two iterations of the thread, as app_main does once *)
(* a second (app-main.cpp:318-328), is shown, although calls that fall into  *)
(* an iteration are lost and calls for the current status do not cancel one  *)
(* that waits (app-led.cpp:139-153, 164-201).                                *)
LastAskedIsShown == repeats = 2 => curren_status = led_asked
=============================================================================
