------------------------------ MODULE AppMain ------------------------------
(***************************************************************************)
(* The application's main state machine, app_main::handler and             *)
(* handle_error (hhg-app/src/app-main.cpp), composed with the Wi-Fi driver  *)
(* (PicoWifi) and its time client (PicoNtp).                               *)
(*                                                                         *)
(* The application thread and the driver thread have the same priority and *)
(* sleep 100 ms per iteration.  Time passes (Tick) only when both sleep or *)
(* are blocked, so each iteration takes less than a tick, and threads that *)
(* wake in the same tick run in any order.  The network thread's callbacks,*)
(* the radio and the operator's commands may come between any two steps.   *)
(*                                                                         *)
(* On the Pico no time function reports an error; but the `error` that the *)
(* handler looks at after asking for the time is the one the LCD was given *)
(* at the start and sets whenever a transfer fails (main.cpp:42-87,        *)
(* pico-sh1106.cpp:58, 331-385).                                           *)
(***************************************************************************)
EXTENDS Naturals

CONSTANTS
    ConnectionTimeout,  \* the driver's timeout, 100 ticks in the code
    MaxLate,            \* bound: how many ticks a sleep may overrun
    RtcAccepts,         \* whether the RTC takes dates of the current month
    OneSec,             \* ONE_SEC_IN_MILLIS, 10 ticks
    WifiTimeout,        \* pico_wifi::get_timeout(), 300 ticks
    ErrorSleep,         \* the sleep of handle_error, 5 ticks
    SyncPeriod,         \* ONE_HOUR_IN_MILLIS / ONE_SEC_IN_MILLIS, 3600 checks
    MaxError            \* fsm::MAX_ERROR, 5

ASSUME AppMainAssumption ==
    /\ ConnectionTimeout \in Nat \ {0}
    /\ MaxLate \in Nat
    /\ RtcAccepts \in BOOLEAN
    /\ OneSec \in Nat \ {0}
    /\ WifiTimeout \in Nat \ {0} /\ WifiTimeout >= OneSec
    /\ ErrorSleep \in Nat
    /\ SyncPeriod \in Nat \ {0}
    /\ MaxError \in Nat \ {0}

VARIABLES
    state, old_state,    \* fsm.state, fsm.old_state
    errors,              \* fsm.errors
    fsm_events,          \* fsm.events, the bits get_fsm_state() returns
    generic_timer,
    sync_timer,          \* sync_timestamp_timer, in checks of one second
    now_valid,           \* now_in_millis is later than TIMESTAMP_2020
    led,                 \* the last indication asked of app_led
    app_at, app_sleep    \* where the thread is, and how long it sleeps

VARIABLES
    users_ok, wifi_enabled, params_ok,   \* what app_config answers
    error                                \* *error is set

VARIABLES wifi_state, wifi_events, connection_timeout, ip_addr, wifi_at,
          wifi_sleep, radio, lease

VARIABLES ntp_state, server_known, dns_cached, dns_pending, ntp_in_flight,
          lwip_held, rtc_valid

Wifi == INSTANCE PicoWifi WITH DisconnectSleep <- OneSec
Ntp == INSTANCE PicoNtp

appVars == <<state, old_state, errors, fsm_events, generic_timer, sync_timer,
             now_valid, led, app_at, app_sleep>>
outerVars == <<users_ok, wifi_enabled, params_ok, error>>
wifiVars == <<wifi_state, wifi_events, connection_timeout, ip_addr, wifi_at,
              wifi_sleep, radio, lease>>
ntpVars == <<ntp_state, server_known, dns_cached, dns_pending, ntp_in_flight,
             lwip_held, rtc_valid>>
vars == <<appVars, outerVars, wifiVars, ntpVars>>

State == {"CHECK_USERS", "CHECK_WIFI_ENABLED", "TRY_WIFI_CONNECTION",
          "CHECK_WIFI_WAIT_PARAMS", "CHECK_WIFI_WAIT_CONNECTION",
          "CHECK_TIMESTAMP", "SINCH_TIMESTAMP", "READY", "ERROR"}

\* CHECK_USERS is the value 0: it is a state but never a bit.
Bits == (State \ {"CHECK_USERS"}) \cup {"CONNECTED"}

\* Where handle_error returns to when it was called for *error.
Resumptions == {"after_users", "after_params", "after_date", "after_clock"}

AppTypeOK ==
    /\ state \in State /\ old_state \in State
    /\ errors \in 0 .. MaxError
    /\ fsm_events \subseteq Bits
    /\ generic_timer \in 0 .. WifiTimeout
    /\ sync_timer \in 0 .. SyncPeriod
    /\ now_valid \in BOOLEAN
    /\ led \in {"loading", "warning", "error", "ready"}
    /\ app_at \in {"loop", "join", "read_clock"} \cup Resumptions
    /\ app_sleep \in 0 .. (ErrorSleep + 1 + 2 * MaxLate)
    /\ {users_ok, wifi_enabled, params_ok, error} \subseteq BOOLEAN

TypeOK == Wifi!TypeOK /\ Ntp!TypeOK /\ AppTypeOK

Init ==
    /\ Wifi!Init
    /\ Ntp!Init
    /\ state = "CHECK_USERS" /\ old_state = "CHECK_USERS"
    /\ errors = 0
    /\ fsm_events = {}
    /\ generic_timer = 0
    /\ sync_timer = 0
    /\ now_valid = FALSE
    /\ led = "loading"
    /\ app_at = "loop" /\ app_sleep = 0
    /\ users_ok \in BOOLEAN
    /\ wifi_enabled \in BOOLEAN
    /\ params_ok \in BOOLEAN
    /\ error \in BOOLEAN

-----------------------------------------------------------------------------
(* The application thread: one action per case of the switch. *)

\* The thread is awake at the head of its loop, in state s.
At(s) == app_at = "loop" /\ app_sleep = 0 /\ state = s

\* us_sleep(FSM_SLEEP) and back to the head of the loop.
Iterate == app_at' = "loop" /\ app_sleep' \in 1 .. (1 + MaxLate)

GoTo(s) == state' = s /\ old_state' = state

\* handle_error, and the end of the iteration: it sleeps longer, or gives up.
HandleError ==
    /\ led' = "error"
    /\ \/ /\ errors < MaxError
          /\ errors' = errors + 1
          /\ app_at' = "loop"
          /\ app_sleep' \in (ErrorSleep + 1) .. (ErrorSleep + 1 + 2 * MaxLate)
          /\ UNCHANGED <<state, old_state>>
       \/ /\ errors = MaxError
          /\ errors' = 0
          /\ GoTo("ERROR")
          /\ Iterate

\* The thread comes back from handle_error, in the middle of a case.
Resumed(a) == app_at = a /\ app_sleep = 0

(* *error is set after the time was asked for: it is deleted, and            *)
(* handle_error sleeps, or gives up; either way the case goes on.            *)
ErrorFound(a) ==
    /\ error
    /\ led' = "error"
    /\ app_at' = a
    /\ \/ /\ errors < MaxError
          /\ errors' = errors + 1
          /\ app_sleep' \in ErrorSleep .. (ErrorSleep + MaxLate)
          /\ UNCHANGED <<state, old_state>>
       \/ /\ errors = MaxError
          /\ errors' = 0
          /\ GoTo("ERROR")
          /\ UNCHANGED app_sleep
    /\ error' = FALSE
    /\ UNCHANGED <<generic_timer, sync_timer, users_ok, wifi_enabled, params_ok, wifiVars,
                   ntpVars>>

WaitForUsers ==
    /\ generic_timer' = IF generic_timer = 0 THEN OneSec ELSE generic_timer - 1
    /\ led' = IF generic_timer = 0 THEN "warning" ELSE led
    /\ Iterate
    /\ UNCHANGED <<state, old_state, errors, sync_timer, outerVars, wifiVars, ntpVars>>

CheckUsers ==
    /\ At("CHECK_USERS")
    /\ \/ /\ users_ok
          /\ fsm_events' = fsm_events \ {"ERROR"}
          /\ led' = "loading"
          /\ errors' = 0
          /\ GoTo("CHECK_WIFI_ENABLED")
          /\ Iterate
          /\ UNCHANGED <<generic_timer, now_valid, sync_timer, outerVars, wifiVars, ntpVars>>
       \/ /\ ~users_ok /\ ~error
          /\ fsm_events' = fsm_events \ {"ERROR"}
          /\ now_valid' = rtc_valid
          /\ WaitForUsers
       \/ /\ ~users_ok
          /\ fsm_events' = fsm_events \ {"ERROR"}
          /\ now_valid' = rtc_valid
          /\ ErrorFound("after_users")

ResumeUsers ==
    /\ Resumed("after_users")
    /\ WaitForUsers
    /\ UNCHANGED <<fsm_events, now_valid>>

CheckWifiEnabled ==
    /\ At("CHECK_WIFI_ENABLED")
    /\ \/ /\ ~wifi_enabled
          /\ led' = "loading"
          /\ errors' = 0
          /\ fsm_events' = fsm_events \cup {"CHECK_WIFI_ENABLED"}
          /\ GoTo("CHECK_TIMESTAMP")
       \/ /\ wifi_enabled
          /\ GoTo("TRY_WIFI_CONNECTION")
          /\ UNCHANGED <<led, errors, fsm_events>>
    /\ Iterate
    /\ UNCHANGED <<generic_timer, sync_timer, now_valid, outerVars, wifiVars,
                   ntpVars>>

\* TRY_WIFI_CONNECTION up to the call of cyw43_arch_wifi_connect_async.
TryWifiConnection ==
    /\ At("TRY_WIFI_CONNECTION")
    /\ \/ /\ params_ok
          /\ fsm_events' = (fsm_events \ {"CHECK_WIFI_WAIT_CONNECTION",
                                          "CHECK_WIFI_WAIT_PARAMS"})
                           \cup {"TRY_WIFI_CONNECTION"}
          /\ app_at' = "join"
          /\ Wifi!ConnectBegin
          /\ UNCHANGED <<state, old_state, led, app_sleep>>
       \/ /\ ~params_ok
          /\ fsm_events' = (fsm_events \ {"CHECK_WIFI_WAIT_CONNECTION"})
                           \cup {"CHECK_WIFI_WAIT_PARAMS"}
          /\ led' = "warning"
          /\ state' = "CHECK_WIFI_WAIT_PARAMS"
          /\ old_state' = "CHECK_WIFI_WAIT_PARAMS"
          /\ Iterate
          /\ UNCHANGED wifiVars
    /\ UNCHANGED <<errors, generic_timer, sync_timer, now_valid, outerVars, ntpVars>>

\* The rest of TRY_WIFI_CONNECTION.  The radio is behind the lwIP lock.
Joined ==
    /\ app_at = "join"
    /\ ~lwip_held
    /\ Wifi!JoinAccepted
    /\ errors' = 0
    /\ fsm_events' = fsm_events \cup {"CHECK_WIFI_WAIT_CONNECTION"}
    /\ GoTo("CHECK_WIFI_WAIT_CONNECTION")
    /\ Iterate
    /\ UNCHANGED <<generic_timer, sync_timer, now_valid, led, outerVars, ntpVars>>

\* ... or the radio refuses.
JoinRefused ==
    /\ app_at = "join"
    /\ ~lwip_held
    /\ HandleError
    /\ error' = FALSE
    /\ UNCHANGED <<fsm_events, generic_timer, sync_timer, now_valid, users_ok, wifi_enabled,
                   params_ok, wifiVars, ntpVars>>

\* At the end of the wait, a handle_error that gave up just before is overruled.
WaitForParams ==
    /\ \/ /\ generic_timer = 0
          /\ generic_timer' = OneSec
          /\ led' = "warning"
          /\ state' = "TRY_WIFI_CONNECTION" /\ old_state' = "CHECK_WIFI_WAIT_PARAMS"
       \/ /\ generic_timer > 0
          /\ generic_timer' = generic_timer - 1
          /\ UNCHANGED <<led, state, old_state>>
    /\ Iterate
    /\ UNCHANGED <<errors, fsm_events, sync_timer, outerVars, wifiVars, ntpVars>>

CheckWifiWaitParams ==
    /\ At("CHECK_WIFI_WAIT_PARAMS")
    /\ now_valid' = rtc_valid
    /\ \/ ~error /\ WaitForParams
       \/ ErrorFound("after_params") /\ UNCHANGED fsm_events

ResumeWaitParams ==
    /\ Resumed("after_params")
    /\ WaitForParams
    /\ UNCHANGED now_valid

\* Mutated: the timer is armed by every check, so it never runs out.
TimerArmedAlways == WifiTimeout

\* The first check after TRY_WIFI_CONNECTION arms the timer it then counts.
WaitConnectionTimer ==
    IF old_state = "TRY_WIFI_CONNECTION" THEN WifiTimeout ELSE generic_timer

CheckWifiWaitConnection ==
    /\ At("CHECK_WIFI_WAIT_CONNECTION")
    /\ \/ /\ Wifi!IsConnected
          /\ led' = "loading"
          /\ errors' = 0
          /\ fsm_events' = (fsm_events \ {"CHECK_WIFI_WAIT_CONNECTION"})
                           \cup {"CONNECTED"}
          /\ GoTo("CHECK_TIMESTAMP")
          /\ UNCHANGED generic_timer
       \/ /\ ~Wifi!IsConnected
          /\ WaitConnectionTimer = 0
          /\ generic_timer' = 0
          /\ led' = "warning"
          /\ GoTo("TRY_WIFI_CONNECTION")
          /\ UNCHANGED <<errors, fsm_events>>
       \/ /\ ~Wifi!IsConnected
          /\ WaitConnectionTimer > 0
          /\ generic_timer' = WaitConnectionTimer - 1
          /\ old_state' = "CHECK_WIFI_WAIT_CONNECTION"
          /\ UNCHANGED <<errors, fsm_events, led, state>>
    /\ Iterate
    /\ UNCHANGED <<sync_timer, now_valid, outerVars, wifiVars, ntpVars>>

\* Mutated: any date is good enough.
AnyDate == TRUE

\* The date the thread works with is later than TIMESTAMP_2020.
DateIsPlausible == now_valid

EnterReady ==
    /\ led' = "loading"
    /\ errors' = 0
    /\ fsm_events' = (fsm_events \ {"SINCH_TIMESTAMP"}) \cup {"CHECK_TIMESTAMP"}
    /\ GoTo("READY")
    /\ generic_timer' = 0
    /\ sync_timer' = SyncPeriod
    /\ Iterate
    /\ UNCHANGED <<now_valid, outerVars, wifiVars, ntpVars>>

DateFails ==
    /\ fsm_events' = fsm_events \ {"SINCH_TIMESTAMP"}
    /\ ErrorFound("after_date")
    /\ UNCHANGED now_valid

WaitForDate ==
    /\ fsm_events' = fsm_events \ {"SINCH_TIMESTAMP"}
    /\ \/ /\ generic_timer = 0
          /\ generic_timer' = OneSec
          /\ led' = "warning"
          /\ GoTo("SINCH_TIMESTAMP")
       \/ /\ generic_timer > 0
          /\ generic_timer' = generic_timer - 1
          /\ UNCHANGED <<led, state, old_state>>
    /\ Iterate
    /\ UNCHANGED <<errors, sync_timer, now_valid, outerVars, wifiVars, ntpVars>>

\* get_date_time is only asked for the log.
CheckTimestamp ==
    /\ At("CHECK_TIMESTAMP")
    /\ \/ DateIsPlausible /\ ~error /\ EnterReady
       \/ DateIsPlausible /\ DateFails
       \/ ~DateIsPlausible /\ WaitForDate

ResumeDate == Resumed("after_date") /\ EnterReady

\* SINCH_TIMESTAMP up to the return of ntp_start, whose result is ignored.
BeginSinch ==
    /\ At("SINCH_TIMESTAMP")
    /\ app_at' = "read_clock"
    /\ UNCHANGED <<state, old_state, errors, fsm_events, generic_timer, sync_timer,
                   now_valid, led, app_sleep, outerVars, wifiVars>>

SinchTimestamp ==
    /\ BeginSinch
    /\ IF "CONNECTED" \in fsm_events THEN Ntp!NtpStart ELSE UNCHANGED ntpVars

SinchRefused ==
    /\ BeginSinch
    /\ "CONNECTED" \in fsm_events
    /\ Ntp!NtpStartRefused

\* The end of SINCH_TIMESTAMP.
Sinchronised ==
    /\ errors' = 0
    /\ fsm_events' = (fsm_events \ {"CHECK_TIMESTAMP"}) \cup {"SINCH_TIMESTAMP"}
    /\ GoTo("CHECK_TIMESTAMP")
    /\ Iterate
    /\ UNCHANGED <<generic_timer, sync_timer, outerVars, wifiVars, ntpVars>>

ReadClock ==
    /\ app_at = "read_clock"
    /\ now_valid' = rtc_valid
    /\ \/ ~error /\ Sinchronised /\ UNCHANGED led
       \/ ErrorFound("after_clock") /\ UNCHANGED fsm_events

ResumeSinch ==
    /\ Resumed("after_clock")
    /\ Sinchronised
    /\ UNCHANGED <<now_valid, led>>

\* Mutated: the LED is only set when there is a connection.
ReportLinkUpOnly ==
    /\ fsm_events' = IF Wifi!IsConnected
                     THEN fsm_events \cup {"READY", "CONNECTED"}
                     ELSE (fsm_events \cup {"READY"}) \ {"CONNECTED"}
    /\ led' = IF Wifi!IsConnected THEN "ready" ELSE led

\* What a check of the READY state tells the others.
ReportLink ==
    /\ fsm_events' = IF Wifi!IsConnected
                     THEN fsm_events \cup {"READY", "CONNECTED"}
                     ELSE (fsm_events \cup {"READY"}) \ {"CONNECTED"}
    /\ led' = IF Wifi!IsConnected THEN "ready" ELSE "warning"

\* Mutated: the period is not counted down.
NeverDue ==
    /\ sync_timer > 0
    /\ old_state' = "READY"
    /\ UNCHANGED <<state, sync_timer>>

\* Counting one-second checks until the date is asked for again.
SynchroniseWhenDue ==
    \/ /\ sync_timer = 0
       /\ state' = "SINCH_TIMESTAMP"
       /\ old_state' = "CHECK_TIMESTAMP"
       /\ UNCHANGED sync_timer
    \/ /\ sync_timer > 0
       /\ sync_timer' = sync_timer - 1
       /\ old_state' = "READY"
       /\ UNCHANGED state

Ready ==
    /\ At("READY")
    /\ \/ /\ generic_timer > 0
          /\ generic_timer' = generic_timer - 1
          /\ UNCHANGED <<state, old_state, fsm_events, sync_timer, led>>
       \/ /\ generic_timer = 0
          /\ generic_timer' = OneSec
          /\ ReportLink
          /\ SynchroniseWhenDue
    /\ Iterate
    /\ UNCHANGED <<errors, now_valid, outerVars, wifiVars, ntpVars>>

\* Mutated: the bits of the round that failed are kept.
ErrorKeepsBits ==
    /\ At("ERROR")
    /\ GoTo("CHECK_USERS")
    /\ Iterate
    /\ UNCHANGED <<errors, fsm_events, generic_timer, sync_timer, now_valid, led,
                   outerVars, wifiVars, ntpVars>>

Error ==
    /\ At("ERROR")
    /\ fsm_events' = {}
    /\ GoTo("CHECK_USERS")
    /\ Iterate
    /\ UNCHANGED <<errors, generic_timer, sync_timer, now_valid, led, outerVars,
                   wifiVars, ntpVars>>

AppStep ==
    \/ CheckUsers \/ CheckWifiEnabled \/ TryWifiConnection \/ Joined
    \/ CheckWifiWaitParams \/ CheckWifiWaitConnection \/ CheckTimestamp
    \/ SinchTimestamp \/ ReadClock \/ Ready \/ Error
    \/ ResumeUsers \/ ResumeWaitParams \/ ResumeDate \/ ResumeSinch

\* The thread waits for the lwIP lock.
AppBlocked ==
    /\ lwip_held
    /\ \/ app_at = "join"
       \/ At("SINCH_TIMESTAMP") /\ "CONNECTED" \in fsm_events

AppAsleep == AppBlocked \/ app_sleep > 0

-----------------------------------------------------------------------------
(* Everything else. *)

WifiStep == Wifi!ThreadStep /\ UNCHANGED <<appVars, outerVars, ntpVars>>

Tick ==
    /\ AppAsleep
    /\ Wifi!Asleep
    /\ Wifi!Elapse
    /\ app_sleep' = IF app_sleep > 0 THEN app_sleep - 1 ELSE 0
    /\ UNCHANGED <<state, old_state, errors, fsm_events, generic_timer, sync_timer,
                   now_valid, led, app_at, outerVars, ntpVars>>

WifiStartFails == Wifi!StartFails /\ UNCHANGED <<appVars, outerVars, ntpVars>>

RadioAnswers == Wifi!RadioAnswers /\ UNCHANGED <<appVars, outerVars, ntpVars>>
RadioFails == Wifi!RadioFails /\ UNCHANGED <<appVars, outerVars, ntpVars>>

\* Answers arrive over a link that is up.
Arrives(answer) == radio = "up" /\ answer /\ UNCHANGED <<appVars, outerVars, wifiVars>>

DnsFound == Arrives(Ntp!NtpDnsFound)
NtpRecv == Arrives(Ntp!NtpRecvOk)
DnsExpires == Ntp!DnsExpires /\ UNCHANGED <<appVars, outerVars, wifiVars>>
NetworkFails == Ntp!NetworkFails /\ UNCHANGED <<appVars, outerVars, wifiVars>>

\* The operator changes the configuration ($CONF) or the clock ($RTC).  Users
\* are added, never removed.
SetConfig ==
    /\ users_ok' \in {users_ok, TRUE}
    /\ wifi_enabled' \in BOOLEAN
    /\ params_ok' \in BOOLEAN
    /\ UNCHANGED <<error, appVars, wifiVars, ntpVars>>

SetClock == Ntp!SetRtc /\ UNCHANGED <<appVars, outerVars, wifiVars>>

\* A transfer to the LCD fails, in whatever thread.
LcdFails ==
    /\ ~error /\ error' = TRUE
    /\ UNCHANGED <<appVars, users_ok, wifi_enabled, params_ok, wifiVars, ntpVars>>

\* What goes on by itself ...
Progress ==
    \/ AppStep \/ WifiStep \/ Tick
    \/ RadioAnswers \/ DnsFound \/ DnsExpires \/ NtpRecv

\* ... and what goes wrong, or is changed from outside.
Fault ==
    \/ JoinRefused \/ SinchRefused
    \/ WifiStartFails \/ RadioFails \/ NetworkFails
    \/ SetConfig \/ SetClock \/ LcdFails

Next == Progress \/ Fault

Spec == Init /\ [][Next]_vars

\* Both threads run and time passes: they have the same priority under a
\* preemptive scheduler with time slices.  A radio that joins, a server that
\* was asked and the expiry of a cached name come sooner or later.
Fairness ==
    /\ WF_vars(AppStep) /\ WF_vars(WifiStep) /\ WF_vars(Tick)
    /\ WF_vars(RadioAnswers)
    /\ WF_vars(DnsFound) /\ WF_vars(DnsExpires) /\ WF_vars(NtpRecv)

-----------------------------------------------------------------------------
(* Safety. *)

(* The device only serves with a known date: in READY the clock the thread   *)
(* works with is later than 2020 and the bits say so                         *)
(* (app-main.cpp:239-259, 281-309).                                          *)
ReadyHasClock ==
    state = "READY" =>
        /\ now_valid
        /\ "CHECK_TIMESTAMP" \in fsm_events
        /\ "SINCH_TIMESTAMP" \notin fsm_events

(* The bit CHECK_WIFI_WAIT_CONNECTION never outlives the attempt it stands   *)
(* for: it is set while the thread waits, and off whenever it is elsewhere   *)
(* than between the wait and the next attempt (app-main.cpp:130, 140, 204).  *)
WaitBitMatchesState ==
    /\ state = "CHECK_WIFI_WAIT_CONNECTION" =>
           {"CHECK_WIFI_WAIT_CONNECTION", "TRY_WIFI_CONNECTION"} \subseteq fsm_events
    /\ "CHECK_WIFI_WAIT_CONNECTION" \in fsm_events =>
           state \in {"CHECK_WIFI_WAIT_CONNECTION", "TRY_WIFI_CONNECTION"}

(* The error count is about the wait for users, or about the attempts to     *)
(* connect and the wait for their parameters: no other phase inherits it,    *)
(* and a failure of the LCD while the clock is asked for is forgotten in the *)
(* same iteration (app-main.cpp:74, 108, 139, 253, 301, 623-641).            *)
ErrorsBelongToPhase ==
    errors > 0 => \/ state \in {"CHECK_USERS", "TRY_WIFI_CONNECTION", "CHECK_WIFI_WAIT_PARAMS"}
                  \/ app_at \in {"after_date", "after_clock"}

(* One timer is shared by all phases and is not reset between them.  What a  *)
(* phase can inherit is bounded: at most a second, except that the wait for  *)
(* the clock may inherit the rest of the connection timeout                  *)
(* (app-main.cpp:91-100, 182-194, 213-231, 263-274, 349).                    *)
InheritedTimerBounded ==
    state \notin {"CHECK_WIFI_WAIT_CONNECTION", "CHECK_TIMESTAMP"} =>
        generic_timer <= OneSec

(* A round that is given up after too many errors leaves nothing behind: no  *)
(* bit of it is set when the machine is back at the start, and the machine   *)
(* only gives up before it has reached anything, however many transfers to   *)
(* the LCD fail (app-main.cpp:64, 83-90, 173-180, 365-367, 636-638).         *)
RestartsClean ==
    /\ state \in {"CHECK_USERS", "CHECK_WIFI_ENABLED"} => fsm_events = {}
    /\ state = "ERROR" =>
          errors = 0 /\ fsm_events \subseteq {"TRY_WIFI_CONNECTION", "CHECK_WIFI_WAIT_PARAMS"}

(* READY is for ever: once it is reported the machine never goes back to the *)
(* network phase, so get_fsm_state() & READY can be relied on by the other   *)
(* threads (app-main.cpp:310-356, 588-591).                                  *)
ReadyIsForEver ==
    [][ "READY" \in fsm_events =>
            /\ "READY" \in fsm_events'
            /\ state' \in {"READY", "SINCH_TIMESTAMP", "CHECK_TIMESTAMP"} ]_vars

(* What makes the invariants inductive: where the thread may stand inside a  *)
(* case, and which bits a phase can find.                                    *)
InsideCase ==
    /\ app_at = "join" =>
           /\ state = "TRY_WIFI_CONNECTION"
           /\ fsm_events = {"TRY_WIFI_CONNECTION"}
    /\ app_at \in {"read_clock", "after_clock"} => state = "SINCH_TIMESTAMP"
    /\ app_at = "after_users" => state \in {"CHECK_USERS", "ERROR"}
    /\ app_at = "after_params" => state \in {"CHECK_WIFI_WAIT_PARAMS", "ERROR"}
    /\ app_at = "after_date" => state = "CHECK_TIMESTAMP" /\ now_valid

BitsOfPhase ==
    /\ state \in {"TRY_WIFI_CONNECTION", "CHECK_WIFI_WAIT_PARAMS",
                  "CHECK_WIFI_WAIT_CONNECTION"} =>
           fsm_events \subseteq {"TRY_WIFI_CONNECTION", "CHECK_WIFI_WAIT_PARAMS",
                                "CHECK_WIFI_WAIT_CONNECTION"}
    /\ "SINCH_TIMESTAMP" \in fsm_events => state = "CHECK_TIMESTAMP"
    /\ state = "READY" /\ sync_timer = 0 => "READY" \in fsm_events

AppInv ==
    /\ ReadyHasClock
    /\ WaitBitMatchesState
    /\ ErrorsBelongToPhase
    /\ InheritedTimerBounded
    /\ RestartsClean
    /\ InsideCase
    /\ BitsOfPhase

-----------------------------------------------------------------------------
(* The machine implements what it promises: its states grouped into phases.  *)

Phase ==
    CASE state \in {"CHECK_USERS", "CHECK_WIFI_ENABLED", "ERROR"} -> "configure"
      [] state \in {"TRY_WIFI_CONNECTION", "CHECK_WIFI_WAIT_PARAMS",
                    "CHECK_WIFI_WAIT_CONNECTION"} -> "network"
      [] state \in {"CHECK_TIMESTAMP", "SINCH_TIMESTAMP"} -> "clock"
      [] state = "READY" -> "ready"

Boot == INSTANCE BootPhases WITH
            phase <- Phase,
            clock_known <- now_valid,
            announced <- ("READY" \in fsm_events)

(* The machine's phases, its clock and the READY bit behave as BootPhases    *)
(* says (app-main.cpp:58-374).                                               *)
ImplementsBootPhases == Boot!Spec

-----------------------------------------------------------------------------
(* Liveness, under Fairness and finitely many faults. *)

\* Users and network are entered (now or later) on a device that has Wi-Fi on
\* since it started; the driver's thread and the lwIP lock are alive.
Configured == users_ok /\ params_ok
Alive == wifi_at # "dead" /\ ~lwip_held

\* The machine has a connection but has never been READY.
AwaitsClock == "CONNECTED" \in fsm_events /\ "READY" \notin fsm_events

(* A configured device whose link, once made, is not given up by the radio   *)
(* before the clock is set reaches READY, although its first association is  *)
(* never reported and has to time out, and although an answer that is lost   *)
(* is only asked for again when the resolver has forgotten the name          *)
(* (app-main.cpp:197-235, pico-wifi.cpp:142, 361-371).                       *)
ReadyEventually ==
    []wifi_enabled /\ <>[]Configured /\ []Alive /\ [](AwaitsClock => radio # "idle")
        => <>("READY" \in fsm_events)

(* The clock is synchronised again and again for as long as the device is    *)
(* READY (app-main.cpp:338-347).                                             *)
SynchronisesForEver ==
    []Alive => ("READY" \in fsm_events ~> state = "SINCH_TIMESTAMP")

(* "block when the device it's offline" (TODO.md:19 and 21, under Done): a   *)
(* configured device that was never READY keeps trying to get a link for as  *)
(* long as it has none.                                                      *)
NotBlockedOffline ==
    []wifi_enabled /\ <>[]Configured /\ []Alive =>
        []<>(radio # "idle" \/ "READY" \in fsm_events)

=============================================================================
