------------------------------ MODULE PicoWifi ------------------------------
(***************************************************************************)
(* The Wi-Fi driver, hhg-driver/platform/pico/pico-wifi.cpp.               *)
(*                                                                         *)
(* Three parties share its state:                                          *)
(*   - the driver's own thread, pico_wifi::handle, which polls the link    *)
(*     and DHCP once per tick and publishes what it saw as event bits;     *)
(*   - the caller of connect(), another thread of the same priority, which *)
(*     overwrites fsm_state without synchronisation;                       *)
(*   - the radio and the DHCP client (cyw43 and lwIP, not in this          *)
(*     repository), which change under both.                               *)
(*                                                                         *)
(* The thread reads fsm_state at the head of its switch and writes it at   *)
(* the end of a case, so a connect() in between is lost or overwritten: the*)
(* read (Fetch) and the case it selects are separate steps, and wifi_at    *)
(* remembers the case that was read.                                       *)
(*                                                                         *)
(* Durations are counted in ticks of 100 ms (TICK, and FSM_SLEEP of the    *)
(* application).  A sleep of n ticks may last up to MaxLate ticks longer.  *)
(***************************************************************************)
EXTENDS Naturals

CONSTANTS
    ConnectionTimeout,  \* HHG_WIFI_CONNECTION_TIMEOUT, 100 ticks in the code
    DisconnectSleep,    \* the sleep of the DISCONNECTED case, 10 ticks
    MaxLate             \* bound: how many ticks a sleep may overrun

ASSUME PicoWifiAssumption ==
    /\ ConnectionTimeout \in Nat \ {0}
    /\ DisconnectSleep \in Nat \ {0}
    /\ MaxLate \in Nat

VARIABLES
    wifi_state,          \* fsm_state, written by the thread and by connect()
    wifi_events,         \* events, the bits that are set
    connection_timeout,
    ip_addr,             \* whether an address is recorded
    wifi_at,             \* where the thread is, or the case it has fetched
    wifi_sleep,          \* ticks the thread still sleeps
    radio,               \* what the radio is doing
    lease                \* whether the DHCP client has an address

threadVars == <<wifi_events, connection_timeout, ip_addr, wifi_at, wifi_sleep>>
radioVars == <<radio, lease>>
vars == <<wifi_state, threadVars, radioVars>>

FsmState ==
    {"NONE", "DISCONNECTED", "WAIT_CONNECTION", "CONNECTED", "WAIT_IP", "HAS_IP"}

TypeOK ==
    /\ wifi_state \in FsmState
    /\ wifi_events \subseteq FsmState \ {"NONE"}
    /\ connection_timeout \in 0 .. ConnectionTimeout
    /\ ip_addr \in BOOLEAN
    /\ wifi_at \in FsmState \cup {"start", "fetch", "resume", "dead"}
    /\ wifi_sleep \in 0 .. (DisconnectSleep + 1 + MaxLate)
    /\ radio \in {"idle", "joining", "up"}
    /\ lease \in BOOLEAN

Init ==
    /\ wifi_state = "NONE"
    /\ wifi_events = {}
    /\ connection_timeout = 0
    /\ ip_addr = FALSE
    /\ wifi_at = "start"
    /\ wifi_sleep = 0
    /\ radio = "idle"
    /\ lease = FALSE

-----------------------------------------------------------------------------
(* What the other components may ask of the driver. *)

IsConnected == {"CONNECTED", "HAS_IP"} \subseteq wifi_events

\* The caller's first half of connect(): the state is forced ...
ConnectBegin ==
    /\ wifi_state' = "WAIT_CONNECTION"
    /\ UNCHANGED <<threadVars, radioVars>>

\* ... and then the radio is asked to join.  A live association is given up
\* later, if at all: that is LinkLost.
JoinAccepted ==
    /\ radio' = IF radio = "up" THEN "up" ELSE "joining"
    /\ UNCHANGED <<wifi_state, threadVars, lease>>

-----------------------------------------------------------------------------
(* The thread. *)

SleepFor(n) == wifi_sleep' \in n .. (n + MaxLate)

\* The end of an iteration: back to the head of the switch after one tick.
Iterate == wifi_at' = "fetch" /\ SleepFor(1)

Start ==
    /\ wifi_at = "start"
    /\ wifi_at' = "fetch"
    /\ UNCHANGED <<wifi_state, wifi_events, connection_timeout, ip_addr,
                   wifi_sleep, radioVars>>

\* cyw43, MQTT or the UDP socket could not be set up: the thread returns.
StartFails ==
    /\ wifi_at = "start"
    /\ wifi_at' = "dead"
    /\ UNCHANGED <<wifi_state, wifi_events, connection_timeout, ip_addr,
                   wifi_sleep, radioVars>>

Fetch ==
    /\ wifi_at = "fetch"
    /\ wifi_sleep = 0
    /\ wifi_at' = wifi_state
    /\ UNCHANGED <<wifi_state, wifi_events, connection_timeout, ip_addr,
                   wifi_sleep, radioVars>>

CaseNone ==
    /\ wifi_at = "NONE"
    /\ connection_timeout' = ConnectionTimeout
    /\ Iterate
    /\ UNCHANGED <<wifi_state, wifi_events, ip_addr, radioVars>>

\* Mutated: the old reports survive a reset.
CaseDisconnectedKeepsBits ==
    /\ wifi_at = "DISCONNECTED"
    /\ connection_timeout' = ConnectionTimeout
    /\ wifi_events' = wifi_events \cup {"DISCONNECTED"}
    /\ ip_addr' = FALSE
    /\ wifi_at' = "resume"
    /\ SleepFor(DisconnectSleep)
    /\ UNCHANGED <<wifi_state, radioVars>>

CaseDisconnected ==
    /\ wifi_at = "DISCONNECTED"
    /\ connection_timeout' = ConnectionTimeout
    /\ wifi_events' = {"DISCONNECTED"}
    /\ ip_addr' = FALSE
    /\ wifi_at' = "resume"
    /\ SleepFor(DisconnectSleep)
    /\ UNCHANGED <<wifi_state, radioVars>>

\* The second half of the DISCONNECTED case, after its sleep.
ResumeDisconnected ==
    /\ wifi_at = "resume"
    /\ wifi_sleep = 0
    /\ wifi_state' = "WAIT_CONNECTION"
    /\ Iterate
    /\ UNCHANGED <<wifi_events, connection_timeout, ip_addr, radioVars>>

CaseWaitConnection ==
    /\ wifi_at = "WAIT_CONNECTION"
    /\ \/ /\ connection_timeout = 0
          /\ wifi_state' = "DISCONNECTED"
          /\ UNCHANGED <<wifi_events, connection_timeout>>
       \/ /\ connection_timeout > 0
          /\ connection_timeout' = connection_timeout - 1
          /\ wifi_events' = wifi_events \cup {"WAIT_CONNECTION"}
          /\ wifi_state' = IF radio = "up" THEN "CONNECTED" ELSE wifi_state
    /\ Iterate
    /\ UNCHANGED <<ip_addr, radioVars>>

CaseConnected ==
    /\ wifi_at = "CONNECTED"
    /\ \/ /\ radio # "up"
          /\ wifi_state' = "DISCONNECTED"
          /\ UNCHANGED wifi_events
       \/ /\ radio = "up"
          /\ wifi_events' = IF "DISCONNECTED" \in wifi_events
                            THEN (wifi_events \ {"WAIT_CONNECTION"}) \cup {"CONNECTED"}
                            ELSE wifi_events
          /\ wifi_state' = IF "HAS_IP" \in wifi_events THEN wifi_state ELSE "WAIT_IP"
    /\ Iterate
    /\ UNCHANGED <<connection_timeout, ip_addr, radioVars>>

CaseWaitIp ==
    /\ wifi_at = "WAIT_IP"
    /\ \/ /\ lease
          /\ connection_timeout' = 0
          /\ ip_addr' = TRUE
          /\ wifi_state' = "HAS_IP"
          /\ UNCHANGED wifi_events
       \/ /\ ~lease
          /\ wifi_events' = wifi_events \cup {"WAIT_IP"}
          /\ UNCHANGED <<wifi_state, connection_timeout, ip_addr>>
    /\ Iterate
    /\ UNCHANGED radioVars

CaseHasIp ==
    /\ wifi_at = "HAS_IP"
    /\ wifi_state' = "CONNECTED"
    /\ wifi_events' = (wifi_events \ {"WAIT_IP", "WAIT_CONNECTION"}) \cup {"HAS_IP"}
    /\ Iterate
    /\ UNCHANGED <<connection_timeout, ip_addr, radioVars>>

\* Steps of the running thread: everything but the failure to start.
ThreadStep ==
    \/ Start \/ Fetch \/ CaseNone \/ CaseDisconnected \/ ResumeDisconnected
    \/ CaseWaitConnection \/ CaseConnected \/ CaseWaitIp \/ CaseHasIp

\* The thread has nothing to do before time passes.
Asleep == wifi_at = "dead" \/ (wifi_at \in {"fetch", "resume"} /\ wifi_sleep > 0)

Elapse ==
    /\ wifi_sleep' = IF wifi_sleep > 0 THEN wifi_sleep - 1 ELSE 0
    /\ UNCHANGED <<wifi_state, wifi_events, connection_timeout, ip_addr,
                   wifi_at, radioVars>>

-----------------------------------------------------------------------------
(* The radio and the DHCP client. *)

Associate ==
    /\ radio = "joining"
    /\ radio' = "up"
    /\ UNCHANGED <<wifi_state, threadVars, lease>>

AssociateFails ==
    /\ radio = "joining"
    /\ radio' = "idle"
    /\ UNCHANGED <<wifi_state, threadVars, lease>>

\* The association is lost; the firmware may or may not try it again by itself.
LinkLost ==
    /\ radio = "up"
    /\ radio' \in {"idle", "joining"}
    /\ UNCHANGED <<wifi_state, threadVars, lease>>

LeaseGranted ==
    /\ radio = "up"
    /\ ~lease
    /\ lease' = TRUE
    /\ UNCHANGED <<wifi_state, threadVars, radio>>

LeaseExpires ==
    /\ lease
    /\ lease' = FALSE
    /\ UNCHANGED <<wifi_state, threadVars, radio>>

RadioAnswers == Associate \/ LeaseGranted
RadioFails == AssociateFails \/ LinkLost \/ LeaseExpires

-----------------------------------------------------------------------------
(* The driver on its own: anyone may call connect() at any time.  Elapse    *)
(* never overtakes the thread when it has work to do.                       *)

Next ==
    \/ ThreadStep \/ StartFails
    \/ ConnectBegin \/ JoinAccepted
    \/ RadioAnswers \/ RadioFails
    \/ Asleep /\ Elapse

Spec == Init /\ [][Next]_vars

-----------------------------------------------------------------------------
(* Properties. *)

(* Only a driver that has gone through DISCONNECTED ever reports CONNECTED:  *)
(* the first association, reached from NONE, is not reported until a second  *)
(* connect() forces the cycle (pico-wifi.cpp:142).                           *)
ConnectedOnlyAfterReset ==
    "CONNECTED" \in wifi_events => "DISCONNECTED" \in wifi_events

(* An address is recorded for as long as HAS_IP is reported, whatever        *)
(* connect() overwrites in between (pico-wifi.cpp:165-181, 100-102).         *)
AddressWhileReported == "HAS_IP" \in wifi_events => ip_addr

(* The connection timeout is spent whenever HAS_IP is reported.  This is     *)
(* what makes a connect() over a live connection clear the old report: its   *)
(* WAIT_CONNECTION finds a zero timeout and must go through DISCONNECTED      *)
(* (pico-wifi.cpp:111-115, 165).                                             *)
TimeoutSpentWhileReported == "HAS_IP" \in wifi_events => connection_timeout = 0

(* The driver never says it has an address and is waiting for one at once    *)
(* (pico-wifi.cpp:172, 179-181).                                             *)
IpBitsExclusive == ~ {"HAS_IP", "WAIT_IP"} \subseteq wifi_events

(* What makes them inductive.  A case runs with the state it was fetched for *)
(* or with the WAIT_CONNECTION a connect() has put in its place; the state,  *)
(* or the case being run, then says what has been recorded.                  *)
StateMatchesCase ==
    /\ wifi_at \in FsmState => wifi_state \in {wifi_at, "WAIT_CONNECTION"}
    /\ wifi_at = "resume" => wifi_state \in {"DISCONNECTED", "WAIT_CONNECTION"}

RecordedFor(s) ==
    /\ s = "NONE" => wifi_events = {}
    /\ s = "HAS_IP" => ip_addr /\ connection_timeout = 0
    /\ s = "WAIT_IP" => "HAS_IP" \notin wifi_events

WifiInv ==
    /\ ConnectedOnlyAfterReset
    /\ AddressWhileReported
    /\ TimeoutSpentWhileReported
    /\ IpBitsExclusive
    /\ StateMatchesCase
    /\ RecordedFor(wifi_state)
    /\ RecordedFor(wifi_at)

=============================================================================
