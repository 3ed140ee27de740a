----------------------------- MODULE PicoButton -----------------------------
(***************************************************************************)
(* The push button, pico_button (hhg-driver/platform/pico/pico-button.cpp). *)
(*                                                                         *)
(* The contact, which bounces, raises edges; the GPIO block keeps the edges *)
(* of a pin until the interrupt on_click takes them, all at once; on_click *)
(* debounces and posts to a queue of one event; the thread handle fetches  *)
(* it, recognises a long press and calls back.  Interrupts may be held off *)
(* (while the flash is written), and the callback may take its time.       *)
(*                                                                         *)
(* Time passes in ticks.  A timestamp is kept as what the code computes    *)
(* from it, the time since then, and saturates where it decides no more.   *)
(***************************************************************************)
EXTENDS Naturals, SequencesExt

CONSTANTS
    DebounceTime,   \* 200 ms
    LongClickTime,  \* 500 ms
    MaxHandling     \* bound: how old an event is when the thread is done with it

ASSUME PicoButtonAssumption == {DebounceTime, LongClickTime, MaxHandling} \subseteq Nat

VARIABLES
    button_down,    \* the contact is closed, the pin is low
    quiet,          \* time since an edge was raised or taken
    edges,          \* the edges the GPIO block has kept
    since_press,    \* time since last_click_press, a static of on_click
    since_release,  \* time since last_click_release
    click_queue,    \* queue
    click_event,    \* what the thread has fetched
    event_last,     \* local of the thread
    button_callback \* obj && callback

VARIABLES
    clean,          \* history: since the last press began, a click without hazards
    click_due,      \* history: what that click has to report
    told            \* history: what has been reported since it began

pinVars == <<button_down, quiet, edges>>
isrVars == <<since_press, since_release>>
clickThreadVars == <<click_queue, click_event, event_last, button_callback>>
clickVars == <<clean, click_due, told>>
buttonVars == <<pinVars, isrVars, clickThreadVars, clickVars>>

ClickStatus == {"PRESS", "RELEASE", "LONG_PRESS"}
NoClick == [status |-> "NONE", age |-> 0]

Least(m, n) == IF m < n THEN m ELSE n
QuietCap == IF DebounceTime + 1 < LongClickTime THEN LongClickTime ELSE DebounceTime + 1
LastCap == LongClickTime + MaxHandling

(* The status of event_last is not initialised; its timestamp is 0, the start *)
(* of the system.                                                            *)
ButtonInit ==
    /\ button_down = FALSE /\ quiet = QuietCap /\ edges = {}
    /\ since_press = DebounceTime + 1 /\ since_release = DebounceTime + 1
    /\ click_queue = NoClick /\ click_event = NoClick
    /\ \E s \in ClickStatus : event_last = [status |-> s, age |-> LastCap]
    /\ button_callback = FALSE
    /\ clean = FALSE /\ click_due = <<>> /\ told = <<>>

-----------------------------------------------------------------------------
(* The contact and the time. *)

ClickIdle == edges = {} /\ click_queue = NoClick /\ click_event = NoClick

Contact == UNCHANGED <<isrVars, clickThreadVars>>

\* A press out of rest, with nothing left of the one before, begins a clean click.
PressButton ==
    /\ ~button_down /\ button_down' = TRUE
    /\ edges' = edges \cup {"FALL"}
    /\ quiet' = 0
    /\ clean' = (quiet > DebounceTime /\ ClickIdle /\ button_callback)
    /\ click_due' = IF clean' THEN <<"PRESS">> ELSE <<>>
    /\ told' = <<>>
    /\ Contact

\* It stays clean if its own press has been reported, and ends with one release.
ReleaseButton ==
    /\ button_down /\ button_down' = FALSE
    /\ edges' = edges \cup {"RISE"}
    /\ quiet' = 0
    /\ clean' = (clean /\ ClickIdle /\ Len(click_due) = 1)
    /\ click_due' = IF clean'
                    THEN Append(click_due, IF quiet >= LongClickTime THEN "LONG_PRESS" ELSE "RELEASE")
                    ELSE <<>>
    /\ told' = IF clean' THEN told ELSE <<>>
    /\ Contact

Older(e) == IF e = NoClick THEN e ELSE [e EXCEPT !.age = @ + 1]

\* An edge that waits a whole tick for its interrupt has no clean timestamp.
ButtonTick ==
    /\ click_queue.age < MaxHandling /\ click_event.age < MaxHandling
    /\ quiet' = Least(quiet + 1, QuietCap)
    /\ since_press' = Least(since_press + 1, DebounceTime + 1)
    /\ since_release' = Least(since_release + 1, DebounceTime + 1)
    /\ click_queue' = Older(click_queue)
    /\ click_event' = Older(click_event)
    /\ event_last' = [event_last EXCEPT !.age = Least(@ + 1, LastCap)]
    /\ clean' = (clean /\ edges = {})
    /\ click_due' = IF clean' THEN click_due ELSE <<>>
    /\ told' = IF clean' THEN told ELSE <<>>
    /\ UNCHANGED <<button_down, edges, button_callback>>

-----------------------------------------------------------------------------
(* The interrupt. *)

\* post_from_isr: a full queue drops the event.
PostClick(s) ==
    click_queue' = IF click_queue = NoClick THEN [status |-> s, age |-> 0] ELSE click_queue

Edge == edges # {} /\ edges' = {} /\ quiet' = 0 /\ UNCHANGED <<button_down, clickVars>>

\* Mutated: one time of the last click serves press and release.
OnClickOneTime ==
    /\ Edge
    /\ IF since_press > DebounceTime
       THEN /\ PostClick(IF "FALL" \in edges THEN "PRESS" ELSE "RELEASE")
            /\ since_press' = 0
            /\ UNCHANGED since_release
       ELSE UNCHANGED <<isrVars, click_queue>>
    /\ UNCHANGED <<click_event, event_last, button_callback>>

\* on_click: presses are debounced against presses and releases against
\* releases; of both edges at once, the press counts.
OnClick ==
    /\ Edge
    /\ IF \/ "FALL" \in edges /\ since_press > DebounceTime
          \/ "RISE" \in edges /\ since_release > DebounceTime
       THEN IF "FALL" \in edges
            THEN PostClick("PRESS") /\ since_press' = 0 /\ UNCHANGED since_release
            ELSE PostClick("RELEASE") /\ since_release' = 0 /\ UNCHANGED since_press
       ELSE UNCHANGED <<isrVars, click_queue>>
    /\ UNCHANGED <<click_event, event_last, button_callback>>

-----------------------------------------------------------------------------
(* The thread, and who listens. *)

FetchClick ==
    /\ click_event = NoClick /\ click_queue # NoClick
    /\ click_event' = click_queue
    /\ click_queue' = NoClick
    /\ UNCHANGED <<pinVars, isrVars, event_last, button_callback, clickVars>>

IsLong == /\ event_last.status = "PRESS"
          /\ click_event.status = "RELEASE"
          /\ event_last.age - click_event.age >= LongClickTime

\* handle, after fetch: without a callback, event_last stays what it was.
HandleClick ==
    /\ click_event # NoClick
    /\ click_event' = NoClick
    /\ IF button_callback
       THEN /\ event_last' = click_event
            /\ told' = IF clean THEN Append(told, IF IsLong THEN "LONG_PRESS" ELSE click_event.status)
                       ELSE told
       ELSE UNCHANGED <<event_last, told>>
    /\ UNCHANGED <<pinVars, isrVars, click_queue, button_callback, clean, click_due>>

SetOnButtonClick ==
    /\ ~button_callback /\ button_callback' = TRUE
    /\ UNCHANGED <<pinVars, isrVars, click_queue, click_event, event_last, clickVars>>

ButtonNext ==
    \/ PressButton \/ ReleaseButton \/ ButtonTick
    \/ OnClick \/ FetchClick \/ HandleClick \/ SetOnButtonClick

ButtonSpec == ButtonInit /\ [][ButtonNext]_buttonVars

-----------------------------------------------------------------------------
(* Properties. *)

(* A click that begins out of rest, does not bounce and finds interrupt,     *)
(* queue and thread free is reported as its press and then its release, as   *)
(* LONG_PRESS exactly if it was held for LONG_CLICK_TIME, whatever bounces,  *)
(* lost events and uninitialised state came before it                        *)
(* (pico-button.cpp:61-117).                                                 *)
CleanClicksReported ==
    clean => /\ IsPrefix(told, click_due)
             /\ ClickIdle => told = click_due
=============================================================================
