----------------------------- MODULE MCAppMain -----------------------------
(***************************************************************************)
(* Model-checking instance of AppMain.  It counts two things the           *)
(* specification does not keep: how many faults the environment and the    *)
(* operator have caused (MaxFaults bounds them), and for how many ticks    *)
(* the link has been down, up to a cap.                                    *)
(***************************************************************************)
EXTENDS AppMain

CONSTANTS
    MaxFaults,   \* bound: faults in a behaviour
    OfflineCap   \* bound: ticks without a link that are counted

VARIABLES faults, offline

mcVars == <<vars, faults, offline>>

CountOffline ==
    offline' = IF radio' = "up" THEN 0
               ELSE IF Tick /\ offline < OfflineCap THEN offline + 1
               ELSE offline

MCInit == Init /\ faults = 0 /\ offline = 0

MCNext ==
    /\ \/ Progress /\ faults' = faults
       \/ Fault /\ faults < MaxFaults /\ faults' = faults + 1
    /\ CountOffline

MCSpec == MCInit /\ [][MCNext]_mcVars

MCFairSpec == MCSpec /\ Fairness

-----------------------------------------------------------------------------
(* How soon the loss of the link shows. *)

\* The longest iteration of either thread.
Iteration == 1 + MaxLate

(* The driver stops reporting a connection four polls after the link is gone,*)
(* if it was about to report an address, and one later for each connect()    *)
(* that overwrites the reset before the thread has read it: two at most, for *)
(* after a refusal the caller sleeps longer than a reset takes               *)
(* (pico-wifi.cpp:95-102, 131-139, 159-181, 237; app-main.cpp:146-155).      *)
NoticeTicks == 6 * Iteration
LinkLossReported == offline > NoticeTicks => ~Wifi!IsConnected

(* "fix led not change on offline" (TODO.md:20): the LED stops saying ready   *)
(* within one further check of the READY state, unless the thread is caught  *)
(* on the lwIP lock (app-main.cpp:318-328).                                  *)
LedTicks == NoticeTicks + (OneSec + 2) * Iteration
LedFollowsLink == offline > LedTicks /\ ~lwip_held => led # "ready"

=============================================================================
