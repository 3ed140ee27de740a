------------------------------- MODULE MCParts -------------------------------
(***************************************************************************)
(* Model-checking instance of the parts that share no state: the stores in *)
(* the flash, the data, the LED, the clock, what the display shows, and the *)
(* start.  A behaviour is one of the part it has chosen, and the others    *)
(* stay where they begin: the state space is the sum of theirs.            *)
(***************************************************************************)
EXTENDS AppStore, AppLed, AppSchedules, AppZones, AppDisplayPaint, KeyboardLine, PicoButton,
        PicoRotaryEncoder, PicoSh1106, PicoTime, HardwareStart

VARIABLE part

Parts == {"store", "led", "schedules", "zones", "paint", "line", "button", "encoder", "sh1106",
          "time", "start"}

(* What is painted: the menu's and the keyboard's texts, and those of the    *)
(* lock screen and the header.                                               *)
MCTexts ==
    [font : {"F5X8"}, length : 1 .. 50, valign : Alignments, offset : {0}]
    \cup [font : {"F8X8"}, length : 1 .. 31, valign : Alignments, offset : {0, 2, 24}]

MCChars == <<"a", "b">>

\* 7:30 on any day, some days and months, and on the 18th of July; and 65535 for what is not set.
MCTimes ==
    [hour : {7}, days : {65535, 1}, months : {65535, 64}, status : {"UNACTIVE", "ACTIVE"}]
    \cup {[hour |-> 65535, days |-> 65535, months |-> 65535, status |-> "ACTIVE"],
          [hour |-> 7, days |-> 18, months |-> 6, status |-> "RUN"]}

\* Both schedules are asked for any of these; and one that there is not, and 256, for one.
MCRequests ==
    {t @@ [id |-> i, minute |-> 30] : i \in {0, 1}, t \in MCTimes}
    \cup [id : {2, 256}, minute : {30}, hour : {7}, days : {65535}, months : {65535},
          status : {"ACTIVE"}]

\* Half past seven on Mondays, and a Thursday at seven o'clock.
MCMondays == {[id |-> 0, minute |-> 30, hour |-> 7, days |-> 1, months |-> 65535, status |-> "ACTIVE"]}
MCThursday == {[minute |-> 0, hour |-> 7, mday |-> 18, mon |-> 6, wday |-> 4]}

\* The ids of the table, some behind it, and some that eight bits do not hold.
MCZoneIds == 0 .. Zones + 1 \cup {-1, 255, 256, 256 + Zones}

\* Seven o'clock on two Mondays and a Thursday, at the minutes that the two get.
MCMoments ==
    {[minute |-> m, hour |-> 7, mday |-> d[1], mon |-> d[2], wday |-> d[3]] :
        m \in {0, 1}, d \in {<<18, 6, 4>>, <<1, 6, 1>>, <<3, 5, 1>>}}

\* Noon before the ends of months and the changes of summer time, in 2024.
MCSetTimes ==
    {Mktime(FirstYear, d[1], d[2], 12) :
        d \in {<<0, 15>>, <<1, 10>>, <<1, 27>>, <<2, 28>>, <<3, 30>>, <<4, 29>>, <<6, 30>>,
               <<8, 29>>, <<9, 23>>, <<10, 29>>, <<11, 20>>}}

-----------------------------------------------------------------------------
Others(p) ==
    /\ part = p /\ part' = p
    /\ IF p = "store" THEN TRUE ELSE UNCHANGED vars
    /\ IF p = "led" THEN TRUE ELSE UNCHANGED ledVars
    /\ IF p = "schedules" THEN TRUE ELSE UNCHANGED scheduleVars
    /\ IF p = "zones" THEN TRUE ELSE UNCHANGED zoneVars
    /\ IF p = "paint" THEN TRUE ELSE UNCHANGED paintVars
    /\ IF p = "line" THEN TRUE ELSE UNCHANGED lineVars
    /\ IF p = "button" THEN TRUE ELSE UNCHANGED buttonVars
    /\ IF p = "encoder" THEN TRUE ELSE UNCHANGED encoderVars
    /\ IF p = "sh1106" THEN TRUE ELSE UNCHANGED sh1106Vars
    /\ IF p = "time" THEN TRUE ELSE UNCHANGED timeVars
    /\ IF p = "start" THEN TRUE ELSE UNCHANGED hardwareVars

\* A part that is not chosen has one of its initial states.
MCInit ==
    /\ part \in Parts
    /\ Init /\ LedInit /\ SchedulesInit /\ ZonesInit
    /\ PaintInit /\ LineInit /\ TimeInit /\ StartInit
    /\ ButtonInit /\ (part # "button" => event_last.status = "PRESS")
    /\ EncoderInit /\ (part # "encoder" => knob = Rest /\ button_up)
    /\ IF part = "sh1106" THEN Sh1106Init
       ELSE /\ Sh1106Init /\ frame = Blank /\ panel = Blank
            /\ panel_page = 0 /\ panel_col = 0 /\ panel_on

MCNext ==
    \/ Others("store") /\ Next
    \/ Others("led") /\ LedNext
    \/ Others("schedules") /\ SchedulesNext
    \/ Others("zones") /\ ZonesNext
    \/ Others("paint") /\ PaintNext
    \/ Others("line") /\ LineNext
    \/ Others("button") /\ ButtonNext
    \/ Others("encoder") /\ EncoderNext
    \/ Others("sh1106") /\ Sh1106Next
    \/ Others("time") /\ TimeNext
    \/ Others("start") /\ StartNext

mcVars == <<part, vars, ledVars, scheduleVars, zoneVars, paintVars, lineVars,
            buttonVars, encoderVars, sh1106Vars, timeVars, hardwareVars>>

MCSpec == MCInit /\ [][MCNext]_mcVars
=============================================================================
