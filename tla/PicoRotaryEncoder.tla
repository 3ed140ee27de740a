-------------------------- MODULE PicoRotaryEncoder --------------------------
(***************************************************************************)
(* The rotary encoder, pico_rotary_encoder                                 *)
(* (hhg-driver/platform/pico/pico-rotary-encoder.cpp).                     *)
(*                                                                         *)
(* A thread samples the two contacts and the button once a millisecond,    *)
(* compares them with the sample before and calls back; while the callback *)
(* runs nothing is sampled.  The knob turns and is pressed at any moment,  *)
(* also between the readings of one sample.  Clockwise the contacts        *)
(* <<a, b>> go through 00, 01, 11, 10; at rest the knob is at 11.           *)
(***************************************************************************)
EXTENDS Naturals, Sequences

VARIABLES
    knob,           \* where the knob is, an index of Contacts
    button_up,      \* the button's pin is high
    sampled,        \* a, b and btn, as far as this iteration has read them
    last_sample,    \* last_a, last_b and last_btn
    encoder_at,     \* the thread: about to read "a", "b", to report, or to sleep
    encoder_callback

VARIABLES
    unread,         \* history: contacts to be read since the knob moved
    turned,         \* history: the direction of the turn since the last rest
    undisturbed,    \* history: since that rest, nothing was missed or coincided
    reports,        \* history: the directions reported since then
    presses, clicks \* history: how often the button was pressed, and reported

knobVars == <<knob, button_up>>
samplerVars == <<sampled, last_sample, encoder_at, encoder_callback>>
turnVars == <<unread, turned, undisturbed, reports, presses, clicks>>
encoderVars == <<knobVars, samplerVars, turnVars>>

Contacts == << <<FALSE, FALSE>>, <<FALSE, TRUE>>, <<TRUE, TRUE>>, <<TRUE, FALSE>> >>
Rest == 3

EncoderInit ==
    /\ knob \in 1 .. 4 /\ button_up \in BOOLEAN
    /\ last_sample = [a |-> FALSE, b |-> FALSE, btn |-> FALSE]
    /\ sampled = last_sample
    /\ encoder_at = "a"
    /\ encoder_callback = FALSE
    /\ unread = 0 /\ turned = "none" /\ undisturbed = FALSE
    /\ reports = <<>> /\ presses = 0 /\ clicks = 0

-----------------------------------------------------------------------------
(* The knob. *)

\* The thread sleeps, and has seen what is there.
KnobSettled ==
    /\ encoder_at = "a" /\ unread = 0
    /\ last_sample = [a |-> Contacts[knob][1], b |-> Contacts[knob][2], btn |-> button_up]

(* The knob leaves its rest, goes on, or turns back.  A turn is undisturbed  *)
(* if it starts settled, with somebody to report to, and every position is   *)
(* sampled.                                                                  *)
Turn(d) ==
    /\ knob' = (IF d = "cw" THEN knob % 4 ELSE (knob + 2) % 4) + 1
    /\ unread' = 2
    /\ IF knob = Rest
       THEN /\ turned' = d
            /\ undisturbed' = (KnobSettled /\ encoder_callback)
            /\ reports' = <<>> /\ presses' = 0 /\ clicks' = 0
       ELSE /\ turned' = IF turned = d THEN d ELSE "back"
            /\ undisturbed' = (undisturbed /\ unread = 0 /\ turned' = d)
            /\ reports' = IF undisturbed' THEN reports ELSE <<>>
            /\ UNCHANGED <<presses, clicks>>
    /\ UNCHANGED <<button_up, samplerVars>>

\* The button is pressed, or let go after it has been sampled.
PressKnob ==
    /\ button_up /\ button_up' = FALSE
    /\ undisturbed' = (undisturbed /\ last_sample.btn /\ encoder_at = "a" /\ presses = 0)
    /\ presses' = IF undisturbed' THEN 1 ELSE 0
    /\ clicks' = 0
    /\ UNCHANGED <<knob, samplerVars, unread, turned, reports>>

ReleaseKnob ==
    /\ ~button_up /\ button_up' = TRUE
    /\ undisturbed' = (undisturbed /\ ~last_sample.btn)
    /\ UNCHANGED <<knob, samplerVars, unread, turned, reports, presses, clicks>>

-----------------------------------------------------------------------------
(* The thread. *)

ReadA ==
    /\ encoder_at = "a" /\ encoder_at' = "b"
    /\ sampled' = [sampled EXCEPT !.a = Contacts[knob][1]]
    /\ unread' = IF unread = 2 THEN 1 ELSE 0
    /\ UNCHANGED <<knobVars, last_sample, encoder_callback, turned, undisturbed, reports,
                   presses, clicks>>

\* Mutated: an edge of either contact will do.
CcwAnyEdge(s) == s.a /\ ~s.b /\ (last_sample.a # s.a \/ last_sample.b # s.b)

Ccw(s) == s.a /\ ~s.b /\ last_sample.a # s.a
Cw(s) == ~s.a /\ s.b /\ last_sample.b # s.b
Click(s) == ~s.btn /\ last_sample.btn # s.btn

ReadB ==
    /\ encoder_at = "b" /\ encoder_at' = "turn"
    /\ sampled' = [sampled EXCEPT !.b = Contacts[knob][2], !.btn = button_up]
    /\ unread' = IF unread = 1 THEN 0 ELSE unread
    /\ undisturbed' = (undisturbed /\ ~(Click(sampled') /\ (Ccw(sampled') \/ Cw(sampled'))))
    /\ UNCHANGED <<knobVars, last_sample, encoder_callback, turned, reports, presses, clicks>>

\* What a call of the callback tells.
Tell(s) ==
    IF encoder_callback /\ undisturbed
    THEN /\ reports' = reports \o (IF Ccw(s) THEN <<"ccw">> ELSE <<>>)
                               \o (IF Cw(s) THEN <<"cw">> ELSE <<>>)
         /\ clicks' = IF Click(s) THEN clicks + 1 ELSE clicks
    ELSE UNCHANGED <<reports, clicks>>

\* A turn and a click in one sample are told twice, each time both.
ReportTurn ==
    /\ encoder_at = "turn" /\ encoder_at' = "click"
    /\ IF Ccw(sampled) \/ Cw(sampled) THEN Tell(sampled) ELSE UNCHANGED <<reports, clicks>>
    /\ UNCHANGED <<knobVars, sampled, last_sample, encoder_callback, unread, turned,
                   undisturbed, presses>>

ReportClick ==
    /\ encoder_at = "click" /\ encoder_at' = "a"
    /\ IF Click(sampled) THEN Tell(sampled) ELSE UNCHANGED <<reports, clicks>>
    /\ last_sample' = sampled
    /\ UNCHANGED <<knobVars, sampled, encoder_callback, unread, turned, undisturbed, presses>>

SetOnRotaryEncoderEvent ==
    /\ ~encoder_callback /\ encoder_callback' = TRUE
    /\ UNCHANGED <<knobVars, sampled, last_sample, encoder_at, turnVars>>

EncoderNext ==
    \/ \E d \in {"cw", "ccw"} : Turn(d)
    \/ PressKnob \/ ReleaseKnob
    \/ ReadA \/ ReadB \/ ReportTurn \/ ReportClick
    \/ SetOnRotaryEncoderEvent

EncoderSpec == EncoderInit /\ [][EncoderNext]_encoderVars

-----------------------------------------------------------------------------
(* Properties. *)

(* A turn from one rest to the next is reported once, in its direction, and  *)
(* a press on the way once, wherever the movements fall between the readings *)
(* of a sample, unless a position was missed or a turn and a click came in   *)
(* the same sample (pico-rotary-encoder.cpp:63-122).                         *)
TurnsCounted ==
    undisturbed /\ KnobSettled =>
        /\ knob = Rest => reports = <<turned>>
        /\ clicks = presses
=============================================================================
