----------------------------- MODULE BootPhases -----------------------------
(***************************************************************************)
(* What the main state machine promises to the rest of the application,    *)
(* without its timers, retries, bits and threads: the device is configured,*)
(* finds the network (or is told to do without), learns the date and then  *)
(* serves.  It never serves without a date, it announces itself READY       *)
(* before it leaves that phase for the first time, and once announced it    *)
(* only ever goes back to learn the date again.                            *)
(***************************************************************************)

VARIABLES
    phase,
    clock_known,  \* the date the machine works with is a plausible one
    announced     \* READY has been made visible to the other threads

vars == <<phase, clock_known, announced>>

Init ==
    /\ phase = "configure"
    /\ clock_known = FALSE
    /\ announced = FALSE

\* The phases before READY: forward, and back to the start after failures, with
\* a last look at the date.
Advance ==
    /\ ~announced
    /\ <<phase, phase'>> \in {<<"configure", "network">>, <<"configure", "clock">>,
                              <<"network", "clock">>, <<"network", "configure">>}
    /\ clock_known' \in IF phase' = "configure" THEN BOOLEAN ELSE {clock_known}
    /\ UNCHANGED announced

\* The date is looked at, outside the READY phase.
LookAtClock ==
    /\ phase # "ready"
    /\ clock_known' \in BOOLEAN
    /\ UNCHANGED <<phase, announced>>

Serve ==
    /\ phase = "clock"
    /\ clock_known
    /\ phase' = "ready"
    /\ UNCHANGED <<clock_known, announced>>

Announce ==
    /\ phase = "ready"
    /\ announced' = TRUE
    /\ UNCHANGED <<phase, clock_known>>

Resynchronise ==
    /\ phase = "ready"
    /\ announced
    /\ phase' = "clock"
    /\ UNCHANGED <<clock_known, announced>>

Next == Advance \/ LookAtClock \/ Serve \/ Announce \/ Resynchronise

Spec == Init /\ [][Next]_vars

=============================================================================
