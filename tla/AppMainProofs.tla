--------------------------- MODULE AppMainProofs ---------------------------
(***************************************************************************)
(* Proofs about the main state machine composed with the Wi-Fi driver and  *)
(* its time client, for every value of the timers and of MaxError: types,  *)
(* the start-up in its order, the use of the driver, and, in the instance  *)
(* that counts ticks, how soon the loss of the link shows.                 *)
(***************************************************************************)
EXTENDS MCAppMain, TLAPS

WifiProofs == INSTANCE PicoWifiProofs WITH DisconnectSleep <- OneSec

-----------------------------------------------------------------------------
(* The components inside the composition. *)

(* The composition drives the Wi-Fi driver only through its own steps.       *)
LEMMA WifiComponent == [Next]_vars => [Wifi!Next]_wifiVars
<1> SUFFICES ASSUME Next PROVE [Wifi!Next]_wifiVars
  BY DEF vars
<1> USE DEF Wifi!Next
<1>1. CASE CheckUsers \/ CheckWifiEnabled \/ CheckWifiWaitParams
           \/ CheckWifiWaitConnection \/ CheckTimestamp
  BY <1>1 DEF CheckUsers, WaitForUsers, CheckWifiEnabled, CheckWifiWaitParams, WaitForParams,
              CheckWifiWaitConnection, CheckTimestamp, DateFails, WaitForDate, EnterReady,
              ErrorFound
<1>2. CASE TryWifiConnection
  BY <1>2 DEF TryWifiConnection
<1>3. CASE Joined \/ JoinRefused
  BY <1>3 DEF Joined, JoinRefused
<1>4. CASE SinchTimestamp \/ SinchRefused \/ ReadClock \/ Ready \/ Error
  BY <1>4 DEF SinchTimestamp, SinchRefused, BeginSinch, ReadClock, Sinchronised, ErrorFound,
              Ready, Error
<1>5. CASE WifiStep \/ WifiStartFails \/ Tick \/ RadioAnswers \/ RadioFails
  BY <1>5 DEF WifiStep, WifiStartFails, Tick, RadioAnswers, RadioFails
<1>6. CASE DnsFound \/ DnsExpires \/ NtpRecv \/ NetworkFails
  BY <1>6 DEF DnsFound, DnsExpires, NtpRecv, NetworkFails, Arrives
<1>7. CASE SetConfig \/ SetClock \/ LcdFails
  BY <1>7 DEF SetConfig, SetClock, LcdFails
<1>8. CASE ResumeUsers \/ ResumeWaitParams \/ ResumeDate \/ ResumeSinch
  BY <1>8 DEF ResumeUsers, WaitForUsers, ResumeWaitParams, WaitForParams, ResumeDate,
              EnterReady, ResumeSinch, Sinchronised
<1>9. QED
  BY <1>1, <1>2, <1>3, <1>4, <1>5, <1>6, <1>7, <1>8 DEF Next, Progress, Fault, AppStep

(* PicoWifiProofs speaks of its own instance of the driver, which is the same *)
(* driver.                                                                   *)
LEMMA SameDriver ==
    /\ WifiProofs!TypeOK <=> Wifi!TypeOK
    /\ WifiProofs!Init <=> Wifi!Init
    /\ WifiProofs!Next <=> Wifi!Next
    /\ WifiProofs!vars = Wifi!vars
<1>1. WifiProofs!TypeOK <=> Wifi!TypeOK
  BY DEF WifiProofs!TypeOK, Wifi!TypeOK, WifiProofs!FsmState, Wifi!FsmState
<1>2. WifiProofs!Init <=> Wifi!Init
  BY DEF WifiProofs!Init, Wifi!Init
<1>3. WifiProofs!Next <=> Wifi!Next
  BY DEF Wifi!Next, WifiProofs!Next, Wifi!ThreadStep, WifiProofs!ThreadStep,
      Wifi!Start, WifiProofs!Start, Wifi!StartFails, WifiProofs!StartFails,
      Wifi!Fetch, WifiProofs!Fetch, Wifi!CaseNone, WifiProofs!CaseNone,
      Wifi!CaseDisconnected, WifiProofs!CaseDisconnected,
      Wifi!ResumeDisconnected, WifiProofs!ResumeDisconnected,
      Wifi!CaseWaitConnection, WifiProofs!CaseWaitConnection,
      Wifi!CaseConnected, WifiProofs!CaseConnected, Wifi!CaseWaitIp,
      WifiProofs!CaseWaitIp, Wifi!CaseHasIp, WifiProofs!CaseHasIp,
      Wifi!ConnectBegin, WifiProofs!ConnectBegin, Wifi!JoinAccepted,
      WifiProofs!JoinAccepted, Wifi!RadioAnswers, WifiProofs!RadioAnswers,
      Wifi!RadioFails, WifiProofs!RadioFails, Wifi!Associate,
      WifiProofs!Associate, Wifi!AssociateFails, WifiProofs!AssociateFails,
      Wifi!LinkLost, WifiProofs!LinkLost, Wifi!LeaseGranted,
      WifiProofs!LeaseGranted, Wifi!LeaseExpires, WifiProofs!LeaseExpires,
      Wifi!Asleep, WifiProofs!Asleep, Wifi!Elapse, WifiProofs!Elapse,
      Wifi!Iterate, WifiProofs!Iterate, Wifi!SleepFor, WifiProofs!SleepFor,
      Wifi!threadVars, WifiProofs!threadVars, Wifi!radioVars,
      WifiProofs!radioVars
<1>4. WifiProofs!vars = Wifi!vars
  BY DEF WifiProofs!vars, Wifi!vars, WifiProofs!threadVars, Wifi!threadVars,
         WifiProofs!radioVars, Wifi!radioVars
<1>5. QED
  BY <1>1, <1>2, <1>3, <1>4

(* Every step of the composition keeps the driver's types.                   *)
LEMMA WifiTypeOK == Wifi!TypeOK /\ [Next]_vars => Wifi!TypeOK'
<1>1. WifiProofs!TypeOK /\ [WifiProofs!Next]_(WifiProofs!vars) => WifiProofs!TypeOK'
  BY WifiProofs!NextTypeOK, AppMainAssumption DEF AppMainAssumption
<1>2. WifiProofs!TypeOK' <=> Wifi!TypeOK'
  BY DEF WifiProofs!TypeOK, Wifi!TypeOK, WifiProofs!FsmState, Wifi!FsmState
<1>3. UNCHANGED wifiVars => UNCHANGED WifiProofs!vars
  BY DEF wifiVars, WifiProofs!vars, WifiProofs!threadVars, WifiProofs!radioVars
<1>4. QED
  BY <1>1, <1>2, <1>3, WifiComponent, SameDriver

(* The composition only ever uses the driver as a caller of PicoWifi may:     *)
(* every behaviour of it is one of the driver's (app-main.cpp:119-168,       *)
(* 197-199, 322).                                                            *)
THEOREM UsesDriver == Spec => Wifi!Spec
<1>1. Init => Wifi!Init
  BY DEF Init
<1>2. [Next]_vars => [Wifi!Next]_(Wifi!vars)
  BY WifiComponent DEF wifiVars, Wifi!vars, Wifi!threadVars, Wifi!radioVars
<1>3. QED
  BY <1>1, <1>2, PTL DEF Spec, Wifi!Spec

(* ... so what it is told about the connection is what the driver proves of  *)
(* its reports (pico-wifi.cpp:88-188).                                       *)
THEOREM DriverReports == Spec => []Wifi!WifiInv
<1>1. WifiProofs!Spec => []WifiProofs!WifiInv
  BY WifiProofs!ReportsCorrect, AppMainAssumption DEF AppMainAssumption
<1>2. WifiProofs!Init <=> Wifi!Init
  BY SameDriver
<1>3. [Wifi!Next]_(Wifi!vars) => [WifiProofs!Next]_(WifiProofs!vars)
  BY SameDriver DEF WifiProofs!vars, Wifi!vars, WifiProofs!threadVars, Wifi!threadVars,
                    WifiProofs!radioVars, Wifi!radioVars
<1>4. WifiProofs!WifiInv <=> Wifi!WifiInv
  BY DEF WifiProofs!WifiInv, Wifi!WifiInv,
         WifiProofs!ConnectedOnlyAfterReset, Wifi!ConnectedOnlyAfterReset,
         WifiProofs!AddressWhileReported, Wifi!AddressWhileReported,
         WifiProofs!TimeoutSpentWhileReported, Wifi!TimeoutSpentWhileReported,
         WifiProofs!IpBitsExclusive, Wifi!IpBitsExclusive,
         WifiProofs!StateMatchesCase, Wifi!StateMatchesCase,
         WifiProofs!RecordedFor, Wifi!RecordedFor, WifiProofs!FsmState, Wifi!FsmState
<1>5. QED
  BY UsesDriver, <1>1, <1>2, <1>3, <1>4, PTL DEF Wifi!Spec, WifiProofs!Spec

-----------------------------------------------------------------------------
(* Type correctness. *)

(* The time client keeps its types; the composition drives it through its    *)
(* own steps (app-main.cpp:286).                                             *)
LEMMA NtpTypeOK == AppMainAssumption /\ Ntp!TypeOK /\ [Next]_vars => Ntp!TypeOK'
<1> SUFFICES ASSUME AppMainAssumption, Ntp!TypeOK, [Next]_vars PROVE Ntp!TypeOK'
  OBVIOUS
<1> USE DEF Ntp!TypeOK
<1>1. CASE UNCHANGED ntpVars
  BY <1>1 DEF ntpVars
<1>2. CASE SinchTimestamp \/ SinchRefused
  BY <1>2 DEF SinchTimestamp, SinchRefused, Ntp!NtpStart, Ntp!NtpStartCached,
              Ntp!NtpStartLookup, Ntp!NtpStartRefused, Ntp!vars, Ntp!lookupVars, ntpVars
<1>3. CASE DnsFound \/ DnsExpires
  BY <1>3 DEF DnsFound, DnsExpires, Arrives, Ntp!NtpDnsFound, Ntp!DnsFound,
              Ntp!DnsExpires
<1>4. CASE NtpRecv
  BY <1>4 DEF NtpRecv, Arrives, Ntp!NtpRecvOk, Ntp!lookupVars, AppMainAssumption
<1>5. CASE NetworkFails
  BY <1>5 DEF NetworkFails, Ntp!NetworkFails, Ntp!NtpDnsFails, Ntp!NtpDnsFoundNoBuffer,
              Ntp!DnsFound, Ntp!NtpRecvKo, Ntp!NtpLost, Ntp!lookupVars
<1>6. CASE SetClock
  BY <1>6 DEF SetClock, Ntp!SetRtc, Ntp!lookupVars
<1>7. QED
  <2>1. CASE UNCHANGED vars
    BY <2>1, <1>1 DEF vars
  <2>2. CASE AppStep \/ JoinRefused
    BY <2>2, <1>1, <1>2 DEF AppStep, CheckUsers, ResumeUsers, WaitForUsers, CheckWifiEnabled,
       TryWifiConnection, Joined, JoinRefused, CheckWifiWaitParams, ResumeWaitParams,
       WaitForParams, CheckWifiWaitConnection, CheckTimestamp, DateFails, WaitForDate,
       ResumeDate, EnterReady, ReadClock, ResumeSinch, Sinchronised, ErrorFound, Ready, Error
  <2>3. CASE WifiStep \/ Tick \/ RadioAnswers \/ WifiStartFails \/ RadioFails \/ SetConfig
            \/ LcdFails
    BY <2>3, <1>1 DEF WifiStep, Tick, RadioAnswers, WifiStartFails, RadioFails, SetConfig,
                      LcdFails
  <2>4. QED
    BY <2>1, <2>2, <2>3, <1>2, <1>3, <1>4, <1>5, <1>6 DEF Next, Progress, Fault

(* No iteration of the thread leaves the types; the shared timers never go   *)
(* below zero, where the tests for zero of app-main.cpp:92, 182, 213, 264,   *)
(* 317 and 338 would no longer find them.                                    *)
LEMMA AppTypeOKNext == TypeOK /\ [Next]_vars => AppTypeOK'
<1> SUFFICES ASSUME TypeOK, [Next]_vars PROVE AppTypeOK'
  OBVIOUS
<1> USE AppMainAssumption DEF AppMainAssumption, AppTypeOK, State, Bits, Resumptions
<1> AppTypeOK
  BY DEF TypeOK
<1>1. CASE CheckUsers
  <2>1. /\ state' \in State /\ old_state' \in State /\ fsm_events' \subseteq Bits
       /\ led' \in {"loading", "warning", "error", "ready"}
       /\ app_at' \in {"loop", "join", "read_clock"} \cup Resumptions
    BY <1>1 DEF CheckUsers, WaitForUsers, ErrorFound, Iterate, outerVars, At, GoTo
  <2>2. /\ errors' \in 0 .. MaxError
       /\ generic_timer' \in 0 .. WifiTimeout
       /\ sync_timer' \in 0 .. SyncPeriod
       /\ app_sleep' \in 0 .. (ErrorSleep + 1 + 2 * MaxLate)
    BY <1>1 DEF CheckUsers, WaitForUsers, ErrorFound, Iterate, outerVars, At, GoTo
  <2>3. /\ now_valid' \in BOOLEAN
       /\ {users_ok, wifi_enabled, params_ok, error}' \subseteq BOOLEAN
    BY <1>1 DEF CheckUsers, WaitForUsers, ErrorFound, Iterate, outerVars, At,
                GoTo, Ntp!TypeOK, TypeOK
  <2>4. QED
    BY <2>1, <2>2, <2>3
<1>2. CASE CheckWifiEnabled
  <2>1. /\ state' \in State /\ old_state' \in State /\ fsm_events' \subseteq Bits
       /\ led' \in {"loading", "warning", "error", "ready"}
       /\ app_at' \in {"loop", "join", "read_clock"} \cup Resumptions
    BY <1>2 DEF CheckWifiEnabled, Iterate, outerVars, At, GoTo
  <2>2. /\ errors' \in 0 .. MaxError
       /\ generic_timer' \in 0 .. WifiTimeout
       /\ sync_timer' \in 0 .. SyncPeriod
       /\ app_sleep' \in 0 .. (ErrorSleep + 1 + 2 * MaxLate)
    BY <1>2 DEF CheckWifiEnabled, Iterate, outerVars, At, GoTo
  <2>3. /\ now_valid' \in BOOLEAN
       /\ {users_ok, wifi_enabled, params_ok, error}' \subseteq BOOLEAN
    BY <1>2 DEF CheckWifiEnabled, Iterate, outerVars, At, GoTo
  <2>4. QED
    BY <2>1, <2>2, <2>3
<1>3. CASE TryWifiConnection
  <2>1. /\ state' \in State /\ old_state' \in State /\ fsm_events' \subseteq Bits
       /\ led' \in {"loading", "warning", "error", "ready"}
       /\ app_at' \in {"loop", "join", "read_clock"} \cup Resumptions
    BY <1>3 DEF TryWifiConnection, Iterate, outerVars, At
  <2>2. /\ errors' \in 0 .. MaxError
       /\ generic_timer' \in 0 .. WifiTimeout
       /\ sync_timer' \in 0 .. SyncPeriod
       /\ app_sleep' \in 0 .. (ErrorSleep + 1 + 2 * MaxLate)
    BY <1>3 DEF TryWifiConnection, Iterate, outerVars, At
  <2>3. /\ now_valid' \in BOOLEAN
       /\ {users_ok, wifi_enabled, params_ok, error}' \subseteq BOOLEAN
    BY <1>3 DEF TryWifiConnection, Iterate, outerVars, At
  <2>4. QED
    BY <2>1, <2>2, <2>3
<1>4. CASE Joined
  BY <1>4 DEF Joined, Iterate, outerVars, GoTo
<1>5. CASE JoinRefused
  <2>1. /\ state' \in State /\ old_state' \in State /\ fsm_events' \subseteq Bits
       /\ led' \in {"loading", "warning", "error", "ready"}
       /\ app_at' \in {"loop", "join", "read_clock"} \cup Resumptions
    BY <1>5 DEF JoinRefused, HandleError, Iterate, GoTo
  <2>2. /\ errors' \in 0 .. MaxError
       /\ generic_timer' \in 0 .. WifiTimeout
       /\ sync_timer' \in 0 .. SyncPeriod
       /\ app_sleep' \in 0 .. (ErrorSleep + 1 + 2 * MaxLate)
    BY <1>5 DEF JoinRefused, HandleError, Iterate
  <2>3. now_valid' \in BOOLEAN /\ {users_ok, wifi_enabled, params_ok, error}' \subseteq BOOLEAN
    BY <1>5 DEF JoinRefused
  <2>4. QED
    BY <2>1, <2>2, <2>3
<1>6. CASE CheckWifiWaitParams
  <2>1. /\ state' \in State /\ old_state' \in State /\ fsm_events' \subseteq Bits
       /\ led' \in {"loading", "warning", "error", "ready"}
       /\ app_at' \in {"loop", "join", "read_clock"} \cup Resumptions
    BY <1>6 DEF CheckWifiWaitParams, WaitForParams, ErrorFound, Iterate, outerVars, At, GoTo
  <2>2. /\ errors' \in 0 .. MaxError
       /\ generic_timer' \in 0 .. WifiTimeout
       /\ sync_timer' \in 0 .. SyncPeriod
       /\ app_sleep' \in 0 .. (ErrorSleep + 1 + 2 * MaxLate)
    BY <1>6 DEF CheckWifiWaitParams, WaitForParams, ErrorFound, Iterate, outerVars, At, GoTo
  <2>3. /\ now_valid' \in BOOLEAN
       /\ {users_ok, wifi_enabled, params_ok, error}' \subseteq BOOLEAN
    BY <1>6 DEF CheckWifiWaitParams, WaitForParams, ErrorFound, Iterate, outerVars, At,
                GoTo, Ntp!TypeOK, TypeOK
  <2>4. QED
    BY <2>1, <2>2, <2>3
<1>7. CASE CheckWifiWaitConnection
  <2>1. /\ state' \in State /\ old_state' \in State /\ fsm_events' \subseteq Bits
       /\ led' \in {"loading", "warning", "error", "ready"}
       /\ app_at' \in {"loop", "join", "read_clock"} \cup Resumptions
    BY <1>7 DEF CheckWifiWaitConnection, Iterate, outerVars, At, GoTo, WaitConnectionTimer
  <2>2. /\ errors' \in 0 .. MaxError
       /\ generic_timer' \in 0 .. WifiTimeout
       /\ sync_timer' \in 0 .. SyncPeriod
       /\ app_sleep' \in 0 .. (ErrorSleep + 1 + 2 * MaxLate)
    BY <1>7 DEF CheckWifiWaitConnection, Iterate, outerVars, At, GoTo, WaitConnectionTimer
  <2>3. /\ now_valid' \in BOOLEAN
       /\ {users_ok, wifi_enabled, params_ok, error}' \subseteq BOOLEAN
    BY <1>7 DEF CheckWifiWaitConnection, Iterate, outerVars, At, GoTo, WaitConnectionTimer
  <2>4. QED
    BY <2>1, <2>2, <2>3
<1>8. CASE CheckTimestamp
  <2>1. /\ state' \in State /\ old_state' \in State /\ fsm_events' \subseteq Bits
       /\ led' \in {"loading", "warning", "error", "ready"}
       /\ app_at' \in {"loop", "join", "read_clock"} \cup Resumptions
    BY <1>8 DEF CheckTimestamp, DateIsPlausible, EnterReady, DateFails, WaitForDate, ErrorFound,
              Iterate, outerVars, At, GoTo
  <2>2. /\ errors' \in 0 .. MaxError
       /\ generic_timer' \in 0 .. WifiTimeout
       /\ sync_timer' \in 0 .. SyncPeriod
       /\ app_sleep' \in 0 .. (ErrorSleep + 1 + 2 * MaxLate)
    BY <1>8 DEF CheckTimestamp, DateIsPlausible, EnterReady, DateFails, WaitForDate, ErrorFound,
              Iterate, outerVars, At, GoTo
  <2>3. /\ now_valid' \in BOOLEAN
       /\ {users_ok, wifi_enabled, params_ok, error}' \subseteq BOOLEAN
    BY <1>8 DEF CheckTimestamp, DateIsPlausible, EnterReady, DateFails, WaitForDate, ErrorFound,
              Iterate, outerVars, At, GoTo
  <2>4. QED
    BY <2>1, <2>2, <2>3
<1>9. CASE SinchTimestamp \/ SinchRefused
  BY <1>9 DEF SinchTimestamp, SinchRefused, BeginSinch, outerVars
<1>10. CASE ReadClock
  <2>1. /\ state' \in State /\ old_state' \in State /\ fsm_events' \subseteq Bits
       /\ led' \in {"loading", "warning", "error", "ready"}
       /\ app_at' \in {"loop", "join", "read_clock"} \cup Resumptions
    BY <1>10 DEF ReadClock, Sinchronised, ErrorFound, Iterate, outerVars, GoTo
  <2>2. /\ errors' \in 0 .. MaxError
       /\ generic_timer' \in 0 .. WifiTimeout
       /\ sync_timer' \in 0 .. SyncPeriod
       /\ app_sleep' \in 0 .. (ErrorSleep + 1 + 2 * MaxLate)
    BY <1>10 DEF ReadClock, Sinchronised, ErrorFound, Iterate, outerVars, GoTo
  <2>3. /\ now_valid' \in BOOLEAN
       /\ {users_ok, wifi_enabled, params_ok, error}' \subseteq BOOLEAN
    BY <1>10 DEF ReadClock, Sinchronised, ErrorFound, Iterate, outerVars, GoTo, Ntp!TypeOK, TypeOK
  <2>4. QED
    BY <2>1, <2>2, <2>3
<1>11. CASE Ready
  <2>1. /\ state' \in State /\ old_state' \in State /\ fsm_events' \subseteq Bits
       /\ led' \in {"loading", "warning", "error", "ready"}
       /\ app_at' \in {"loop", "join", "read_clock"} \cup Resumptions
    BY <1>11 DEF Ready, ReportLink, SynchroniseWhenDue, Iterate, outerVars, At
  <2>2. /\ errors' \in 0 .. MaxError
       /\ generic_timer' \in 0 .. WifiTimeout
       /\ sync_timer' \in 0 .. SyncPeriod
       /\ app_sleep' \in 0 .. (ErrorSleep + 1 + 2 * MaxLate)
    BY <1>11 DEF Ready, ReportLink, SynchroniseWhenDue, Iterate, outerVars, At
  <2>3. /\ now_valid' \in BOOLEAN
       /\ {users_ok, wifi_enabled, params_ok, error}' \subseteq BOOLEAN
    BY <1>11 DEF Ready, ReportLink, SynchroniseWhenDue, Iterate, outerVars, At
  <2>4. QED
    BY <2>1, <2>2, <2>3
<1>12. CASE Error
  BY <1>12 DEF Error, Iterate, outerVars, At, GoTo
<1>13. CASE Tick
  BY <1>13 DEF Tick, outerVars
<1>14. CASE UNCHANGED <<appVars, outerVars>>
  BY <1>14 DEF appVars, outerVars
<1>15. CASE SetConfig \/ LcdFails
  <2>1. {users_ok, wifi_enabled, params_ok, error}' \subseteq BOOLEAN
    BY <1>15 DEF SetConfig, LcdFails
  <2>2. UNCHANGED appVars
    BY <1>15 DEF SetConfig, LcdFails
  <2>3. QED
    BY <2>1, <2>2 DEF appVars
<1>16. CASE ResumeUsers
  BY <1>16 DEF ResumeUsers, Resumed, WaitForUsers, Iterate, outerVars
<1>17. CASE ResumeWaitParams
  BY <1>17 DEF ResumeWaitParams, Resumed, WaitForParams, Iterate, outerVars
<1>18. CASE ResumeDate
  BY <1>18 DEF ResumeDate, Resumed, EnterReady, Iterate, GoTo, outerVars
<1>19. CASE ResumeSinch
  BY <1>19 DEF ResumeSinch, Resumed, Sinchronised, Iterate, GoTo, outerVars
<1>20. QED
  BY <1>1, <1>2, <1>3, <1>4, <1>5, <1>6, <1>7, <1>8, <1>9, <1>10, <1>11, <1>12, <1>13, <1>14,
     <1>15, <1>16, <1>17, <1>18, <1>19
  DEF Next, Progress, Fault, AppStep, WifiStep, WifiStartFails, RadioAnswers, RadioFails,
      Arrives, DnsFound, NtpRecv, DnsExpires, NetworkFails, SetClock, vars

(* Initially every variable of the composition has its type.                 *)
LEMMA InitTypeOK == Init => TypeOK
<1> SUFFICES ASSUME Init PROVE TypeOK
  OBVIOUS
<1>1. Wifi!TypeOK
  BY WifiProofs!InitTypeOK, SameDriver, AppMainAssumption DEF AppMainAssumption, Init
<1>2. Ntp!TypeOK
  BY DEF Init, Ntp!Init, Ntp!TypeOK
<1>3. AppTypeOK
  <2>1. /\ errors \in 0 .. MaxError /\ generic_timer \in 0 .. WifiTimeout
       /\ sync_timer \in 0 .. SyncPeriod
       /\ app_sleep \in 0 .. (ErrorSleep + 1 + 2 * MaxLate)
    BY AppMainAssumption DEF AppMainAssumption, Init
  <2>2. now_valid \in BOOLEAN /\ {users_ok, wifi_enabled, params_ok, error} \subseteq BOOLEAN
    BY DEF Init
  <2>3. QED
    BY <2>1, <2>2 DEF Init, AppTypeOK, State, Bits, Resumptions
<1>4. QED
  BY <1>1, <1>2, <1>3 DEF TypeOK

(* Every variable of the composition always has its type                     *)
(* (app-main.cpp:42-383).                                                    *)
THEOREM TypeCorrect == Spec => []TypeOK
<1>1. TypeOK /\ [Next]_vars => TypeOK'
  BY AppMainAssumption, WifiTypeOK, NtpTypeOK, AppTypeOKNext DEF TypeOK
<1>2. QED
  BY InitTypeOK, <1>1, PTL DEF Spec

-----------------------------------------------------------------------------
(* The invariants of the machine. *)

(* Initially the machine is in CHECK_USERS, with no bit and no error.        *)
LEMMA InitAppInv == Init => AppInv
BY AppMainAssumption
DEF AppMainAssumption, Init, AppInv, ReadyHasClock, WaitBitMatchesState,
    ErrorsBelongToPhase, InheritedTimerBounded, RestartsClean, InsideCase, BitsOfPhase

(* Every step keeps them together.  None is inductive alone: where the thread *)
(* stands inside TRY_WIFI_CONNECTION (InsideCase) and which bits a phase can  *)
(* find (BitsOfPhase) carry what one case has done to the case that needs it. *)
LEMMA NextAppInv == TypeOK /\ AppInv /\ [Next]_vars => AppInv'
<1> SUFFICES ASSUME TypeOK, AppInv, [Next]_vars PROVE AppInv'
  OBVIOUS
<1> AppTypeOK
  BY DEF TypeOK
<1> USE AppMainAssumption
    DEF AppMainAssumption, AppTypeOK, AppInv, ReadyHasClock, WaitBitMatchesState,
        ErrorsBelongToPhase, InheritedTimerBounded, RestartsClean, InsideCase,
        BitsOfPhase
<1>1. CASE CheckUsers
  BY <1>1 DEF CheckUsers, WaitForUsers, ErrorFound, Iterate, At, GoTo
<1>2. CASE CheckWifiEnabled
  BY <1>2 DEF CheckWifiEnabled, Iterate, At, GoTo
<1>3. CASE TryWifiConnection
  BY <1>3 DEF TryWifiConnection, Iterate, At
<1>4. CASE Joined
  BY <1>4 DEF Joined, Iterate, GoTo
<1>5. CASE JoinRefused
  BY <1>5 DEF JoinRefused, HandleError, Iterate, GoTo
<1>6. CASE CheckWifiWaitParams
  BY <1>6 DEF CheckWifiWaitParams, WaitForParams, ErrorFound, Iterate, At, GoTo
<1>7. CASE CheckWifiWaitConnection
  BY <1>7 DEF CheckWifiWaitConnection, Iterate, At, GoTo, WaitConnectionTimer
<1>8. CASE CheckTimestamp
  BY <1>8 DEF CheckTimestamp, DateIsPlausible, EnterReady, DateFails, WaitForDate, ErrorFound,
              Iterate, At, GoTo
<1>9. CASE SinchTimestamp \/ SinchRefused
  BY <1>9 DEF SinchTimestamp, SinchRefused, BeginSinch, At
<1>10. CASE ReadClock
  BY <1>10 DEF ReadClock, Sinchronised, ErrorFound, Iterate, GoTo
<1>11. CASE Ready
  BY <1>11 DEF Ready, ReportLink, SynchroniseWhenDue, Iterate, At
<1>12. CASE Error
  BY <1>12 DEF Error, Iterate, At, GoTo
<1>13. CASE Tick
  BY <1>13 DEF Tick
<1>14. CASE UNCHANGED appVars
  BY <1>14 DEF appVars
<1>15. CASE ResumeUsers
  BY <1>15 DEF ResumeUsers, Resumed, WaitForUsers, Iterate
<1>16. CASE ResumeWaitParams
  BY <1>16 DEF ResumeWaitParams, Resumed, WaitForParams, Iterate
<1>17. CASE ResumeDate
  BY <1>17 DEF ResumeDate, Resumed, EnterReady, Iterate, GoTo
<1>18. CASE ResumeSinch
  BY <1>18 DEF ResumeSinch, Resumed, Sinchronised, Iterate, GoTo
<1>19. QED
  BY <1>1, <1>2, <1>3, <1>4, <1>5, <1>6, <1>7, <1>8, <1>9, <1>10, <1>11, <1>12, <1>13, <1>14,
     <1>15, <1>16, <1>17, <1>18
  DEF Next, Progress, Fault, AppStep, WifiStep, WifiStartFails, RadioAnswers, RadioFails,
      Arrives, DnsFound, NtpRecv, DnsExpires, NetworkFails, SetClock, SetConfig, LcdFails, vars

(* The machine's invariants hold in every behaviour: READY only with a known *)
(* date, the wait bit only during the wait, errors only of the attempt,      *)
(* bounded timers and a clean restart (app-main.cpp:58-374, 623-641).        *)
THEOREM MachineCorrect == Spec => []AppInv
BY TypeCorrect, InitAppInv, NextAppInv, PTL DEF Spec

(* In particular the device is only READY with a date later than 2020        *)
(* (app-main.cpp:239-259, 281-309).                                          *)
THEOREM ServesWithClock == Spec => []ReadyHasClock
<1>1. AppInv => ReadyHasClock
  BY DEF AppInv
<1>2. QED
  BY MachineCorrect, <1>1, PTL

(* And it starts over with the bits of no earlier attempt and no error       *)
(* counted (app-main.cpp:310-374, 623-641).                                  *)
THEOREM StartsOverClean == Spec => []RestartsClean
<1>1. AppInv => RestartsClean
  BY DEF AppInv
<1>2. QED
  BY MachineCorrect, <1>1, PTL

-----------------------------------------------------------------------------
(* What a step may never do. *)

(* Where READY has been announced the machine serves or synchronises.        *)
LEMMA AnnouncedPhase ==
    TypeOK /\ AppInv /\ "READY" \in fsm_events =>
        state \in {"READY", "SINCH_TIMESTAMP", "CHECK_TIMESTAMP"}
BY DEF TypeOK, AppTypeOK, State, AppInv, RestartsClean, BitsOfPhase

(* No step leaves that part of the machine or takes the announcement back.   *)
LEMMA AnnouncedStep ==
    TypeOK /\ AppInv /\ [Next]_vars /\ "READY" \in fsm_events =>
        /\ "READY" \in fsm_events'
        /\ state' \in {"READY", "SINCH_TIMESTAMP", "CHECK_TIMESTAMP"}
<1> SUFFICES ASSUME TypeOK, AppInv, [Next]_vars, "READY" \in fsm_events
             PROVE  /\ "READY" \in fsm_events'
                    /\ state' \in {"READY", "SINCH_TIMESTAMP", "CHECK_TIMESTAMP"}
  OBVIOUS
<1> state \in {"READY", "SINCH_TIMESTAMP", "CHECK_TIMESTAMP"}
  BY AnnouncedPhase
<1> USE AppMainAssumption DEF AppMainAssumption, AppInv, InsideCase, ErrorsBelongToPhase
<1>1. CASE CheckUsers
  BY <1>1 DEF CheckUsers, WaitForUsers, ErrorFound, Iterate, At, GoTo
<1>2. CASE CheckWifiEnabled
  BY <1>2 DEF CheckWifiEnabled, At, GoTo
<1>3. CASE TryWifiConnection
  BY <1>3 DEF TryWifiConnection, At
<1>4. CASE Joined
  BY <1>4 DEF Joined, GoTo
<1>5. CASE JoinRefused
  BY <1>5 DEF JoinRefused, HandleError, GoTo
<1>6. CASE CheckWifiWaitParams
  BY <1>6 DEF CheckWifiWaitParams, WaitForParams, ErrorFound, Iterate, At, GoTo
<1>7. CASE CheckWifiWaitConnection
  BY <1>7 DEF CheckWifiWaitConnection, At, GoTo, WaitConnectionTimer
<1>8. CASE CheckTimestamp
  BY <1>8 DEF CheckTimestamp, DateIsPlausible, EnterReady, DateFails, WaitForDate, ErrorFound,
              Iterate, At, GoTo
<1>9. CASE SinchTimestamp \/ SinchRefused
  BY <1>9 DEF SinchTimestamp, SinchRefused, BeginSinch, At
<1>10. CASE ReadClock
  BY <1>10 DEF ReadClock, Sinchronised, ErrorFound, Iterate, GoTo
<1>11. CASE Ready
  BY <1>11 DEF Ready, ReportLink, SynchroniseWhenDue, At
<1>12. CASE Error
  BY <1>12 DEF Error, At, GoTo
<1>13. CASE Tick
  BY <1>13 DEF Tick
<1>14. CASE UNCHANGED appVars
  BY <1>14 DEF appVars
<1>15. CASE ResumeUsers
  BY <1>15 DEF ResumeUsers, Resumed, WaitForUsers, Iterate
<1>16. CASE ResumeWaitParams
  BY <1>16 DEF ResumeWaitParams, Resumed, WaitForParams, Iterate
<1>17. CASE ResumeDate
  BY <1>17 DEF ResumeDate, Resumed, EnterReady, Iterate, GoTo
<1>18. CASE ResumeSinch
  BY <1>18 DEF ResumeSinch, Resumed, Sinchronised, Iterate, GoTo
<1>19. QED
  BY <1>1, <1>2, <1>3, <1>4, <1>5, <1>6, <1>7, <1>8, <1>9, <1>10, <1>11, <1>12, <1>13, <1>14,
     <1>15, <1>16, <1>17, <1>18
  DEF Next, Progress, Fault, AppStep, WifiStep, WifiStartFails, RadioAnswers, RadioFails,
      Arrives, DnsFound, NtpRecv, DnsExpires, NetworkFails, SetClock, SetConfig, LcdFails, vars

(* Once announced, READY is for ever (app-main.cpp:310-356, 588-591).        *)
THEOREM ReadyStays == Spec => ReadyIsForEver
<1>1. TypeOK /\ AppInv /\ [Next]_vars =>
          [ "READY" \in fsm_events =>
              /\ "READY" \in fsm_events'
              /\ state' \in {"READY", "SINCH_TIMESTAMP", "CHECK_TIMESTAMP"} ]_vars
  BY AnnouncedStep
<1>2. QED
  BY TypeCorrect, MachineCorrect, <1>1, PTL DEF Spec, ReadyIsForEver

-----------------------------------------------------------------------------
(* Refinement. *)

(* The machine starts where BootPhases starts.                               *)
LEMMA InitRefines == Init => Boot!Init
BY DEF Init, Boot!Init, Phase

(* Every step of the machine is a step of BootPhases or changes nothing it   *)
(* speaks of.  Going back from SINCH_TIMESTAMP is not a step of it (both are *)
(* the clock phase), reading the clock is LookAtClock, and giving up after   *)
(* too many errors is the way from the network back to the configuration.    *)
LEMMA StepRefines == TypeOK /\ AppInv /\ [Next]_vars => [Boot!Next]_(Boot!vars)
<1> SUFFICES ASSUME TypeOK, AppInv, [Next]_vars PROVE [Boot!Next]_(Boot!vars)
  OBVIOUS
<1> USE DEF Boot!Next, Boot!vars, Boot!Advance, Boot!LookAtClock, Boot!Serve,
            Boot!Announce, Boot!Resynchronise, Phase, AppInv, InsideCase, RestartsClean,
            BitsOfPhase, ReadyHasClock, ErrorsBelongToPhase, AppMainAssumption
<1> USE AppMainAssumption
<1> now_valid' \in BOOLEAN
  BY AppTypeOKNext DEF AppTypeOK
<1>1. CASE CheckUsers
  BY <1>1 DEF CheckUsers, WaitForUsers, ErrorFound, Iterate, At, GoTo
<1>2. CASE CheckWifiEnabled
  BY <1>2 DEF CheckWifiEnabled, At, GoTo
<1>3. CASE TryWifiConnection
  BY <1>3 DEF TryWifiConnection, At
<1>4. CASE Joined
  BY <1>4 DEF Joined, GoTo
<1>5. CASE JoinRefused
  BY <1>5 DEF JoinRefused, HandleError, GoTo
<1>6. CASE CheckWifiWaitParams
  BY <1>6 DEF CheckWifiWaitParams, WaitForParams, ErrorFound, Iterate, At, GoTo
<1>7. CASE CheckWifiWaitConnection
  BY <1>7 DEF CheckWifiWaitConnection, At, GoTo, WaitConnectionTimer
<1>8. CASE CheckTimestamp
  BY <1>8 DEF CheckTimestamp, DateIsPlausible, EnterReady, DateFails, WaitForDate, ErrorFound,
              Iterate, At, GoTo
<1>9. CASE SinchTimestamp \/ SinchRefused
  BY <1>9 DEF SinchTimestamp, SinchRefused, BeginSinch, At
<1>10. CASE ReadClock
  BY <1>10 DEF ReadClock, Sinchronised, ErrorFound, Iterate, GoTo
<1>11. CASE Ready
  BY <1>11 DEF Ready, ReportLink, SynchroniseWhenDue, At
<1>12. CASE Error
  BY <1>12 DEF Error, At, GoTo
<1>13. CASE Tick
  BY <1>13 DEF Tick
<1>14. CASE UNCHANGED appVars
  BY <1>14 DEF appVars
<1>15. CASE ResumeUsers
  BY <1>15 DEF ResumeUsers, Resumed, WaitForUsers, Iterate
<1>16. CASE ResumeWaitParams
  BY <1>16 DEF ResumeWaitParams, Resumed, WaitForParams, Iterate
<1>17. CASE ResumeDate
  BY <1>17 DEF ResumeDate, Resumed, EnterReady, Iterate, GoTo
<1>18. CASE ResumeSinch
  BY <1>18 DEF ResumeSinch, Resumed, Sinchronised, Iterate, GoTo
<1>19. QED
  BY <1>1, <1>2, <1>3, <1>4, <1>5, <1>6, <1>7, <1>8, <1>9, <1>10, <1>11, <1>12, <1>13, <1>14,
     <1>15, <1>16, <1>17, <1>18
  DEF Next, Progress, Fault, AppStep, WifiStep, WifiStartFails, RadioAnswers, RadioFails,
      Arrives, DnsFound, NtpRecv, DnsExpires, NetworkFails, SetClock, SetConfig, LcdFails, vars

(* The detailed machine, with its timers, retries, threads and faults,       *)
(* implements the phases it promises (app-main.cpp:58-374).                  *)
THEOREM Refines == Spec => ImplementsBootPhases
BY TypeCorrect, MachineCorrect, InitRefines, StepRefines, PTL
DEF Spec, ImplementsBootPhases, Boot!Spec

-----------------------------------------------------------------------------
(* How soon the loss of the link shows, on the instance that counts it.  The *)
(* loss is reported when the driver's thread gets to DISCONNECTED; a         *)
(* connect() that overwrites this state puts it off by one iteration.  What  *)
(* bounds the number of those is where the application's thread is.          *)

\* The case the driver's thread runs, or will run if nobody calls connect().
PendingCase == IF wifi_at = "fetch" THEN wifi_state ELSE wifi_at

\* Without a link: how long it takes from a case to DISCONNECTED.
TicksAfter(s) ==
    IF s = "DISCONNECTED" THEN 0
    ELSE IF s \in {"WAIT_CONNECTION", "CONNECTED"} THEN Iteration
    ELSE IF s = "HAS_IP" THEN 2 * Iteration
    ELSE 3 * Iteration
UntilCleared ==
    IF wifi_at = "fetch" THEN wifi_sleep + TicksAfter(wifi_state) ELSE TicksAfter(wifi_at)

\* The driver reports a connection, or is about to.
Reports ==
    /\ "CONNECTED" \in wifi_events
    /\ \/ "HAS_IP" \in wifi_events
       \/ PendingCase = "HAS_IP"
       \/ PendingCase = "WAIT_IP" /\ lease

\* The thread before its loop, inside DISCONNECTED, and between two iterations.
Placed ==
    /\ wifi_at \in {"start", "dead"} => wifi_events = {}
    /\ wifi_at = "start" => wifi_sleep = 0
    /\ wifi_at = "resume" => wifi_events = {"DISCONNECTED"}
    /\ wifi_at = "fetch" => wifi_sleep <= Iteration

\* A connection that is reported is never asked for again, ...
PastConnect ==
    /\ app_at # "join"
    /\ state \in {"CHECK_WIFI_WAIT_CONNECTION", "CHECK_TIMESTAMP", "SINCH_TIMESTAMP", "READY"}

\* ... and the caller is not at its next connect() for so many ticks.
UntilConnect ==
    IF app_at = "join" THEN IF errors < MaxError THEN ErrorSleep + 1 ELSE 4
    ELSE IF app_at = "after_params" THEN app_sleep + 1
    ELSE IF state \in {"CHECK_WIFI_WAIT_PARAMS", "CHECK_WIFI_ENABLED"} THEN app_sleep + 1
    ELSE IF state = "CHECK_USERS" THEN app_sleep + 2
    ELSE IF state = "ERROR" THEN app_sleep + 3
    ELSE app_sleep

\* The next refusal is the first of a round: handle_error sleeps after it.
NewRound == IF app_at = "join" THEN errors = MaxError ELSE errors = 0 \/ state = "CHECK_USERS"

TooLate(w) == PastConnect \/ UntilConnect > w

\* No connect() has put off the report yet, or two have, or one has.
Noticed ==
    Reports =>
        \/ offline + UntilCleared <= 4 * Iteration
        \/ /\ Wifi!IsConnected
           /\ TooLate(UntilCleared)
           /\ offline + UntilCleared <= 6 * Iteration
        \/ /\ Wifi!IsConnected
           /\ NewRound
           /\ UntilCleared <= 2 * Iteration
           /\ offline + UntilCleared <= 5 * Iteration

OfflineInv ==
    /\ offline \in Nat
    /\ radio = "up" => offline = 0
    /\ Placed
    /\ Noticed

\* A caller whose attempt was refused sleeps longer than a reset of the driver takes.
ErrorSleepIsLong == ErrorSleep >= 2 * Iteration

LEMMA IterationPositive == Iteration \in Nat \ {0}
BY AppMainAssumption DEF AppMainAssumption, Iteration

\* The driver's variables and the constants of its instance, for the lemmas below.
LEMMA DriverTypes ==
    ASSUME TypeOK
    PROVE  /\ wifi_sleep \in Nat /\ UntilCleared \in Nat
           /\ app_sleep \in Nat /\ errors \in 0 .. MaxError
           /\ UntilConnect \in Nat
<1>1. wifi_sleep \in Nat
  BY AppMainAssumption DEF TypeOK, Wifi!TypeOK, AppMainAssumption
<1>2. app_sleep \in Nat /\ errors \in 0 .. MaxError
  BY AppMainAssumption DEF TypeOK, AppTypeOK, AppMainAssumption
<1>3. UntilCleared \in Nat
  BY <1>1, IterationPositive DEF UntilCleared, TicksAfter
<1>4. UntilConnect \in Nat
  BY <1>2, AppMainAssumption DEF UntilConnect, AppMainAssumption
<1> QED BY <1>1, <1>2, <1>3, <1>4

LEMMA ClearedSoon ==
    TypeOK /\ Placed => UntilCleared \in Nat /\ UntilCleared <= 4 * Iteration
<1> SUFFICES ASSUME TypeOK, Placed PROVE UntilCleared \in Nat /\ UntilCleared <= 4 * Iteration
  OBVIOUS
<1>1. wifi_sleep \in Nat /\ (wifi_at = "fetch" => wifi_sleep <= Iteration)
  BY DriverTypes DEF Placed
<1> QED BY <1>1, DriverTypes, IterationPositive DEF UntilCleared, TicksAfter

LEMMA PlacedStep ==
    ASSUME TypeOK, Placed, [Next]_vars
    PROVE  Placed'
<1>1. [Wifi!Next]_wifiVars /\ wifi_sleep \in Nat /\ MaxLate \in Nat
  BY WifiComponent, DriverTypes, AppMainAssumption DEF AppMainAssumption
<1>2. CASE UNCHANGED wifiVars
  BY <1>2 DEF wifiVars, Placed
<1>3. CASE Wifi!Start
  <2>1. wifi_at' = "fetch" /\ wifi_sleep' = 0
    BY <1>3 DEF Wifi!Start, Placed
  <2> QED BY <2>1, IterationPositive DEF Placed
<1>8. CASE Wifi!StartFails
  BY <1>8 DEF Wifi!StartFails, Placed
<1>9. CASE Wifi!Fetch
  <2>1. wifi_at' \in Wifi!FsmState
    BY <1>9 DEF Wifi!Fetch, TypeOK, Wifi!TypeOK
  <2> QED BY <2>1 DEF Placed, Wifi!FsmState
<1>4. CASE Wifi!CaseNone \/ Wifi!ResumeDisconnected \/ Wifi!CaseWaitConnection
           \/ Wifi!CaseConnected \/ Wifi!CaseWaitIp \/ Wifi!CaseHasIp
  <2>1. wifi_at' = "fetch" /\ wifi_sleep' \in 1 .. (1 + MaxLate)
    BY <1>4 DEF Wifi!CaseNone, Wifi!ResumeDisconnected, Wifi!CaseWaitConnection,
                Wifi!CaseConnected, Wifi!CaseWaitIp, Wifi!CaseHasIp, Wifi!Iterate, Wifi!SleepFor
  <2> QED BY <1>1, <2>1 DEF Placed, Iteration
<1>5. CASE Wifi!CaseDisconnected
  BY <1>5 DEF Wifi!CaseDisconnected, Placed
<1>6. CASE Wifi!ConnectBegin \/ Wifi!JoinAccepted \/ Wifi!RadioAnswers \/ Wifi!RadioFails
  <2>1. UNCHANGED <<wifi_events, wifi_at, wifi_sleep>>
    BY <1>6 DEF Wifi!ConnectBegin, Wifi!JoinAccepted, Wifi!RadioAnswers, Wifi!RadioFails,
                Wifi!Associate, Wifi!LeaseGranted, Wifi!AssociateFails, Wifi!LinkLost,
                Wifi!LeaseExpires, Wifi!threadVars
  <2> QED BY <2>1 DEF Placed
<1>7. CASE Wifi!Elapse
  BY <1>1, <1>7, IterationPositive DEF Wifi!Elapse, Placed
<1> QED BY <1>1, <1>2, <1>3, <1>4, <1>5, <1>6, <1>7, <1>8, <1>9 DEF Wifi!Next, Wifi!ThreadStep

-----------------------------------------------------------------------------
(* The driver's thread without a link. *)

\* An iteration brings it nearer to the reset, and reports nothing that was not on its way.
LEMMA ThreadNearer ==
    ASSUME TypeOK, Wifi!WifiInv, Placed, radio # "up", Wifi!ThreadStep, Reports'
    PROVE  Reports /\ UntilCleared' <= UntilCleared /\ (Wifi!IsConnected => Wifi!IsConnected')
<1> USE IterationPositive
<1>1. /\ wifi_at \in Wifi!FsmState => wifi_state \in {wifi_at, "WAIT_CONNECTION"}
      /\ "HAS_IP" \in wifi_events => connection_timeout = 0
      /\ wifi_at = "NONE" => wifi_events = {}
      /\ wifi_at = "WAIT_IP" => "HAS_IP" \notin wifi_events
  BY DEF Wifi!WifiInv, Wifi!TimeoutSpentWhileReported, Wifi!StateMatchesCase, Wifi!RecordedFor
<1>2. Wifi!Iterate => wifi_at' = "fetch" /\ wifi_sleep' \in Nat /\ wifi_sleep' <= Iteration
  BY AppMainAssumption DEF AppMainAssumption, Wifi!Iterate, Wifi!SleepFor, Iteration
<1>3. wifi_state \in Wifi!FsmState /\ connection_timeout \in Nat
  BY AppMainAssumption DEF TypeOK, Wifi!TypeOK, AppMainAssumption
<1>4. CASE Wifi!Start \/ Wifi!ResumeDisconnected \/ Wifi!CaseNone
  <2>1. "CONNECTED" \notin wifi_events /\ wifi_events' = wifi_events
    BY <1>1, <1>4 DEF Wifi!Start, Wifi!ResumeDisconnected, Wifi!CaseNone, Placed
  <2> QED BY <2>1 DEF Reports
<1>5. CASE Wifi!Fetch
  <2>1. /\ wifi_at = "fetch" /\ wifi_sleep = 0 /\ wifi_at' = wifi_state /\ wifi_at' # "fetch"
        /\ UNCHANGED <<wifi_events, wifi_state, lease>>
    BY <1>3, <1>5 DEF Wifi!Fetch, Wifi!radioVars, Wifi!FsmState
  <2>2. UntilCleared' = UntilCleared
    BY <2>1 DEF UntilCleared, TicksAfter
  <2>3. Reports
    BY <2>1 DEF Reports, PendingCase
  <2> QED BY <2>1, <2>2, <2>3, DriverTypes DEF Wifi!IsConnected
<1>6. CASE Wifi!CaseDisconnected
  BY <1>6 DEF Wifi!CaseDisconnected, Reports
<1>7. CASE Wifi!CaseWaitConnection
  <2>1. /\ wifi_at = "WAIT_CONNECTION" /\ wifi_state = "WAIT_CONNECTION" /\ Wifi!Iterate
        /\ wifi_events' \in {wifi_events, wifi_events \cup {"WAIT_CONNECTION"}}
        /\ wifi_state' \in {"WAIT_CONNECTION", "DISCONNECTED"}
        /\ "HAS_IP" \in wifi_events => wifi_state' = "DISCONNECTED"
    BY <1>1, <1>3, <1>7 DEF Wifi!CaseWaitConnection, Wifi!FsmState
  <2>2. "HAS_IP" \in wifi_events /\ "CONNECTED" \in wifi_events
    BY <1>2, <2>1 DEF Reports, PendingCase
  <2>3. UntilCleared' <= UntilCleared
    BY <1>2, <2>1, <2>2 DEF UntilCleared, TicksAfter
  <2> QED BY <2>1, <2>2, <2>3 DEF Reports, Wifi!IsConnected
<1>8. CASE Wifi!CaseConnected
  <2>1. /\ wifi_at = "CONNECTED" /\ Wifi!Iterate /\ wifi_state' = "DISCONNECTED"
        /\ UNCHANGED wifi_events
    BY <1>8 DEF Wifi!CaseConnected
  <2>2. UntilCleared' <= UntilCleared
    BY <1>2, <2>1 DEF UntilCleared, TicksAfter
  <2>3. Reports
    BY <1>2, <2>1 DEF Reports, PendingCase
  <2> QED BY <2>1, <2>2, <2>3 DEF Wifi!IsConnected
<1>9. CASE Wifi!CaseWaitIp
  <2>1. /\ wifi_at = "WAIT_IP" /\ Wifi!Iterate /\ "HAS_IP" \notin wifi_events
        /\ \/ lease /\ wifi_state' = "HAS_IP" /\ UNCHANGED wifi_events
           \/ /\ ~lease' /\ wifi_state' \in {"WAIT_IP", "WAIT_CONNECTION"}
              /\ wifi_events' = wifi_events \cup {"WAIT_IP"}
    BY <1>1, <1>9 DEF Wifi!CaseWaitIp, Wifi!radioVars, Wifi!FsmState
  <2>2. lease /\ wifi_state' = "HAS_IP" /\ UNCHANGED wifi_events
    BY <1>2, <2>1 DEF Reports, PendingCase
  <2>3. UntilCleared' <= UntilCleared
    BY <1>2, <2>1, <2>2 DEF UntilCleared, TicksAfter
  <2> QED BY <2>1, <2>2, <2>3 DEF Reports, PendingCase, Wifi!IsConnected
<1>10. CASE Wifi!CaseHasIp
  <2>1. /\ wifi_at = "HAS_IP" /\ Wifi!Iterate /\ wifi_state' = "CONNECTED"
        /\ wifi_events' = (wifi_events \ {"WAIT_IP", "WAIT_CONNECTION"}) \cup {"HAS_IP"}
    BY <1>10 DEF Wifi!CaseHasIp
  <2>2. UntilCleared' <= UntilCleared
    BY <1>2, <2>1 DEF UntilCleared, TicksAfter
  <2> QED BY <2>1, <2>2 DEF Reports, PendingCase, Wifi!IsConnected
<1> QED BY <1>4, <1>5, <1>6, <1>7, <1>8, <1>9, <1>10 DEF Wifi!ThreadStep

\* connect() puts the reset off by an iteration at most, and only if it is overwritten.
LEMMA ConnectPutsOff ==
    ASSUME TypeOK, Placed, Wifi!ConnectBegin, Reports'
    PROVE  /\ Reports
           /\ Wifi!IsConnected <=> Wifi!IsConnected'
           /\ \/ UntilCleared' = UntilCleared
              \/ /\ Wifi!IsConnected
                 /\ UntilCleared' <= 2 * Iteration /\ UntilCleared' <= UntilCleared + Iteration
<1>1. /\ wifi_state' = "WAIT_CONNECTION"
      /\ UNCHANGED <<wifi_events, wifi_at, wifi_sleep, lease>>
  BY DEF Wifi!ConnectBegin, Wifi!threadVars, Wifi!radioVars
<1>2. Wifi!IsConnected <=> Wifi!IsConnected'
  BY <1>1 DEF Wifi!IsConnected
<1>3. CASE wifi_at = "fetch"
  <2>1. Wifi!IsConnected
    BY <1>1, <1>3 DEF Reports, PendingCase, Wifi!IsConnected
  <2>2. wifi_sleep \in Nat /\ wifi_sleep <= Iteration /\ UntilCleared' = wifi_sleep + Iteration
    BY <1>1, <1>3, DriverTypes DEF Placed, UntilCleared, TicksAfter
  <2>3. UntilCleared >= wifi_sleep
    BY <1>3, <2>2, IterationPositive DEF UntilCleared, TicksAfter
  <2> QED BY <1>2, <2>1, <2>2, <2>3, IterationPositive, DriverTypes DEF Reports, Wifi!IsConnected
<1>4. CASE wifi_at # "fetch"
  <2>1. UntilCleared' = UntilCleared
    BY <1>1, <1>4 DEF UntilCleared, TicksAfter
  <2>2. Reports
    BY <1>1, <1>4 DEF Reports, PendingCase
  <2> QED BY <1>2, <2>1, <2>2
<1> QED BY <1>3, <1>4

LEMMA ElapseNearer ==
    ASSUME TypeOK, Placed, Wifi!Asleep, Wifi!Elapse, Reports'
    PROVE  /\ Reports /\ (Wifi!IsConnected <=> Wifi!IsConnected')
           /\ UntilCleared > 0 /\ UntilCleared' = UntilCleared - 1
<1>1. UNCHANGED <<wifi_state, wifi_events, wifi_at, lease>>
  BY DEF Wifi!Elapse, Wifi!radioVars
<1>2. wifi_at = "fetch" /\ wifi_sleep > 0 /\ wifi_sleep' = wifi_sleep - 1
  BY <1>1 DEF Wifi!Asleep, Wifi!Elapse, Placed, Reports
<1>3. UntilCleared > 0 /\ UntilCleared' = UntilCleared - 1
  BY <1>1, <1>2, DriverTypes, IterationPositive DEF UntilCleared, TicksAfter
<1> QED BY <1>1, <1>3 DEF Reports, PendingCase, Wifi!IsConnected

-----------------------------------------------------------------------------
(* The application's thread while the connection is reported. *)

\* Where no connect() can come in time, none comes in time after the next step.
LEMMA TooLateStays ==
    ASSUME TypeOK, AppInv, Wifi!IsConnected, NEW w \in Nat, TooLate(w),
           AppStep \/ JoinRefused \/ SinchRefused
    PROVE  TooLate(w)'
<1> AppTypeOK
  BY DEF TypeOK
<1>0. /\ MaxLate \in Nat /\ ErrorSleep \in Nat /\ MaxError \in Nat \ {0}
      /\ app_sleep \in Nat /\ errors \in 0 .. MaxError
  BY AppMainAssumption, DriverTypes DEF AppMainAssumption
<1>a. /\ state \in {"CHECK_TIMESTAMP", "SINCH_TIMESTAMP"} /\ app_at \in {"loop", "read_clock"}
          => errors = 0
      /\ app_at \in {"read_clock", "after_clock"} => state = "SINCH_TIMESTAMP"
      /\ app_at = "join" => state = "TRY_WIFI_CONNECTION"
      /\ app_at = "after_date" => state = "CHECK_TIMESTAMP"
      /\ app_at = "after_users" => state \in {"CHECK_USERS", "ERROR"}
      /\ app_at = "after_params" => state \in {"CHECK_WIFI_WAIT_PARAMS", "ERROR"}
  BY <1>0 DEF AppInv, InsideCase, ErrorsBelongToPhase
<1> USE <1>0, <1>a DEF TooLate, PastConnect, UntilConnect, At
<1>1. CASE CheckUsers
  BY <1>1 DEF CheckUsers, WaitForUsers, ErrorFound, Iterate, GoTo
<1>2. CASE CheckWifiEnabled
  <2>1. /\ app_at = "loop" /\ app_sleep = 0 /\ state = "CHECK_WIFI_ENABLED"
        /\ app_at' = "loop" /\ app_sleep' \in 1 .. (1 + MaxLate)
        /\ state' \in {"TRY_WIFI_CONNECTION", "CHECK_TIMESTAMP"}
    BY <1>2, Zenon DEF CheckWifiEnabled, Iterate, GoTo
  <2>2. PICK n \in 1 .. (1 + MaxLate) : app_sleep' = n
    BY <2>1
  <2>3. ~PastConnect /\ UntilConnect = 0 + 1 /\ UntilConnect' = n
    BY <2>1, <2>2, Zenon
  <2> HIDE DEF PastConnect, UntilConnect
  <2> QED BY <2>3
<1>3. CASE TryWifiConnection
  BY <1>3 DEF TryWifiConnection
<1>4. CASE Joined
  BY <1>4 DEF Joined, Iterate, GoTo
<1>5. CASE JoinRefused
  BY <1>5 DEF JoinRefused, HandleError, Iterate, GoTo
<1>6. CASE CheckWifiWaitParams
  BY <1>6 DEF CheckWifiWaitParams, WaitForParams, ErrorFound, Iterate, GoTo
<1>7. CASE CheckWifiWaitConnection
  BY <1>7 DEF CheckWifiWaitConnection, Iterate, GoTo
<1>8. CASE CheckTimestamp
  BY <1>8 DEF CheckTimestamp, EnterReady, DateFails, WaitForDate, ErrorFound, Iterate, GoTo
<1>9. CASE SinchTimestamp \/ SinchRefused
  BY <1>9 DEF SinchTimestamp, SinchRefused, BeginSinch
<1>10. CASE ReadClock
  BY <1>10 DEF ReadClock, Sinchronised, ErrorFound, Iterate, GoTo
<1>11. CASE Ready
  BY <1>11 DEF Ready, SynchroniseWhenDue, Iterate
<1>12. CASE Error
  <2>1. /\ app_at = "loop" /\ app_sleep = 0 /\ state = "ERROR"
        /\ app_at' = "loop" /\ app_sleep' \in 1 .. (1 + MaxLate) /\ state' = "CHECK_USERS"
    BY <1>12 DEF Error, Iterate, GoTo
  <2>2. PICK n \in 1 .. (1 + MaxLate) : app_sleep' = n
    BY <2>1
  <2>3. ~PastConnect /\ UntilConnect = 0 + 3 /\ UntilConnect' = n + 2
    BY <2>1, <2>2, Zenon
  <2> HIDE DEF PastConnect, UntilConnect
  <2> QED BY <2>3
<1>13. CASE ResumeUsers
  <2>1. /\ app_at = "after_users" /\ app_sleep = 0 /\ state' = state
        /\ state \in {"CHECK_USERS", "ERROR"}
        /\ app_at' = "loop" /\ app_sleep' \in 1 .. (1 + MaxLate)
    BY <1>13 DEF ResumeUsers, Resumed, WaitForUsers, Iterate
  <2>2. PICK n \in 1 .. (1 + MaxLate) : app_sleep' = n
    BY <2>1
  <2>3. /\ ~PastConnect
        /\ \/ UntilConnect = 0 + 2 /\ UntilConnect' = n + 2
           \/ UntilConnect = 0 + 3 /\ UntilConnect' = n + 3
    BY <2>1, <2>2, Zenon
  <2> HIDE DEF PastConnect, UntilConnect
  <2> QED BY <2>3
<1>14. CASE ResumeWaitParams
  <2>1. /\ app_at = "after_params" /\ app_sleep = 0
        /\ state \in {"CHECK_WIFI_WAIT_PARAMS", "ERROR"}
        /\ app_at' = "loop" /\ app_sleep' \in 1 .. (1 + MaxLate)
        /\ state' = state \/ state' = "TRY_WIFI_CONNECTION"
    BY <1>14, Zenon DEF ResumeWaitParams, Resumed, WaitForParams, Iterate
  <2>2. PICK n \in 1 .. (1 + MaxLate) : app_sleep' = n
    BY <2>1
  <2>3. ~PastConnect /\ UntilConnect = 0 + 1 /\ UntilConnect' \in {n, n + 1, n + 3}
    BY <2>1, <2>2, Zenon
  <2> HIDE DEF PastConnect, UntilConnect
  <2> QED BY <2>3
<1>15. CASE ResumeDate
  BY <1>15 DEF ResumeDate, Resumed, EnterReady, Iterate, GoTo
<1>16. CASE ResumeSinch
  BY <1>16 DEF ResumeSinch, Resumed, Sinchronised, Iterate, GoTo
<1> QED BY <1>1, <1>2, <1>3, <1>4, <1>5, <1>6, <1>7, <1>8, <1>9, <1>10, <1>11, <1>12, <1>13,
           <1>14, <1>15, <1>16 DEF AppStep

\* In a new round a failure is followed by a sleep that is long enough.
LEMMA NewRoundStays ==
    ASSUME TypeOK, AppInv, ErrorSleepIsLong, NewRound, NEW w \in Nat, w <= 2 * Iteration,
           AppStep \/ JoinRefused \/ SinchRefused
    PROVE  NewRound' \/ TooLate(w)'
<1> AppTypeOK
  BY DEF TypeOK
<1>0. /\ MaxLate \in Nat /\ ErrorSleep \in Nat /\ MaxError \in Nat \ {0}
      /\ app_sleep \in Nat /\ errors \in 0 .. MaxError /\ ErrorSleep >= w
  BY AppMainAssumption, DriverTypes, IterationPositive DEF ErrorSleepIsLong, AppMainAssumption
<1>a. /\ app_at \in {"read_clock", "after_clock"} => state = "SINCH_TIMESTAMP"
      /\ app_at = "join" => state = "TRY_WIFI_CONNECTION"
      /\ app_at = "after_users" => state \in {"CHECK_USERS", "ERROR"}
      /\ app_at = "after_params" => state \in {"CHECK_WIFI_WAIT_PARAMS", "ERROR"}
      /\ state = "ERROR" => errors = 0
      /\ app_at \notin {"after_date", "after_clock"} /\ state = "CHECK_WIFI_ENABLED" => errors = 0
  BY <1>0 DEF AppInv, InsideCase, ErrorsBelongToPhase, RestartsClean
<1> USE <1>0, <1>a DEF TooLate, PastConnect, UntilConnect, NewRound, At
<1>1. CASE CheckUsers
  BY <1>1 DEF CheckUsers, WaitForUsers, ErrorFound, Iterate, GoTo
<1>2. CASE CheckWifiEnabled
  BY <1>2 DEF CheckWifiEnabled, Iterate, GoTo
<1>3. CASE TryWifiConnection
  BY <1>3 DEF TryWifiConnection, Iterate
<1>4. CASE Joined
  BY <1>4 DEF Joined, Iterate, GoTo
<1>5. CASE JoinRefused
  BY <1>5 DEF JoinRefused, HandleError, Iterate, GoTo
<1>6. CASE CheckWifiWaitParams
  BY <1>6 DEF CheckWifiWaitParams, WaitForParams, ErrorFound, Iterate, GoTo
<1>7. CASE CheckWifiWaitConnection
  BY <1>7 DEF CheckWifiWaitConnection, Iterate, GoTo
<1>8. CASE CheckTimestamp
  BY <1>8 DEF CheckTimestamp, EnterReady, DateFails, WaitForDate, ErrorFound, Iterate, GoTo
<1>9. CASE SinchTimestamp \/ SinchRefused
  BY <1>9 DEF SinchTimestamp, SinchRefused, BeginSinch
<1>10. CASE ReadClock
  BY <1>10 DEF ReadClock, Sinchronised, ErrorFound, Iterate, GoTo
<1>11. CASE Ready
  BY <1>11 DEF Ready, SynchroniseWhenDue, Iterate
<1>12. CASE Error
  BY <1>12 DEF Error, Iterate, GoTo
<1>13. CASE ResumeUsers
  BY <1>13 DEF ResumeUsers, Resumed, WaitForUsers, Iterate
<1>14. CASE ResumeWaitParams
  BY <1>14 DEF ResumeWaitParams, Resumed, WaitForParams, Iterate
<1>15. CASE ResumeDate
  BY <1>15 DEF ResumeDate, Resumed, EnterReady, Iterate, GoTo
<1>16. CASE ResumeSinch
  BY <1>16 DEF ResumeSinch, Resumed, Sinchronised, Iterate, GoTo
<1> QED BY <1>1, <1>2, <1>3, <1>4, <1>5, <1>6, <1>7, <1>8, <1>9, <1>10, <1>11, <1>12, <1>13,
           <1>14, <1>15, <1>16 DEF AppStep

\* After a connect() the next one is far, unless the machine gives up and starts a new round.
LEMMA AfterConnect ==
    ASSUME TypeOK, ErrorSleepIsLong, app_at' = "join", errors' = errors,
           NEW w \in Nat, w <= 2 * Iteration
    PROVE  NewRound' \/ TooLate(w)'
<1>1. errors \in 0 .. MaxError /\ MaxError \in Nat /\ ErrorSleep \in Nat
  BY DriverTypes, AppMainAssumption DEF AppMainAssumption
<1> QED BY <1>1, IterationPositive DEF ErrorSleepIsLong, NewRound, TooLate, UntilConnect

\* A tick brings the next connect() nearer by a tick at most.
LEMMA TickNearer ==
    ASSUME TypeOK, Tick, NEW w \in Nat \ {0}
    PROVE  (NewRound => NewRound') /\ (TooLate(w) => TooLate(w - 1)')
<1>1. UNCHANGED <<app_at, state, errors>>
  BY DEF Tick
<1>2. app_sleep \in Nat /\ app_sleep' = IF app_sleep > 0 THEN app_sleep - 1 ELSE 0
  BY DriverTypes DEF Tick
<1>3. NewRound => NewRound'
  BY <1>1 DEF NewRound
<1>4. PastConnect => PastConnect'
  BY <1>1 DEF PastConnect
<1>5. UntilConnect \in Nat /\ UntilConnect' >= UntilConnect - 1
  BY <1>1, <1>2, DriverTypes, AppMainAssumption DEF UntilConnect, AppMainAssumption
<1>6. UntilConnect' \in Nat
  BY <1>1, <1>2, DriverTypes, AppMainAssumption DEF UntilConnect, AppMainAssumption
<1> QED BY <1>3, <1>4, <1>5, <1>6 DEF TooLate

-----------------------------------------------------------------------------
(* Both threads together. *)

\* The steps that leave the driver's thread and its report alone.
LEMMA DriverKeeps ==
    ASSUME UNCHANGED <<wifi_state, wifi_events, wifi_at, wifi_sleep>>, lease' => lease, Reports'
    PROVE  Reports /\ UntilCleared' = UntilCleared /\ (Wifi!IsConnected <=> Wifi!IsConnected')
<1>1. Reports
  BY Zenon DEF Reports, PendingCase
<1>2. UntilCleared' = UntilCleared
  BY Zenon DEF UntilCleared, TicksAfter
<1> QED BY <1>1, <1>2 DEF Wifi!IsConnected

\* The caller's thread leaves it alone but for the first half of a connect().
LEMMA AppDrives ==
    ASSUME AppStep \/ JoinRefused \/ SinchRefused
    PROVE  \/ /\ At("TRY_WIFI_CONNECTION") /\ Wifi!ConnectBegin
              /\ app_at' = "join" /\ errors' = errors
           \/ UNCHANGED <<wifi_state, wifi_events, wifi_at, wifi_sleep, lease>>
<1>1. CASE TryWifiConnection
  BY <1>1 DEF TryWifiConnection, wifiVars
<1>2. CASE Joined
  BY <1>2 DEF Joined, Wifi!JoinAccepted, Wifi!threadVars
<1>3. CASE CheckUsers \/ ResumeUsers \/ CheckWifiEnabled \/ JoinRefused
  BY <1>3 DEF CheckUsers, ResumeUsers, WaitForUsers, ErrorFound, CheckWifiEnabled, JoinRefused,
              wifiVars
<1>4. CASE CheckWifiWaitParams \/ ResumeWaitParams \/ CheckWifiWaitConnection
  BY <1>4 DEF CheckWifiWaitParams, ResumeWaitParams, WaitForParams, ErrorFound,
              CheckWifiWaitConnection, wifiVars
<1>5. CASE CheckTimestamp \/ ResumeDate \/ SinchTimestamp \/ SinchRefused
  BY <1>5 DEF CheckTimestamp, EnterReady, DateFails, WaitForDate, ErrorFound, ResumeDate,
              SinchTimestamp, SinchRefused, BeginSinch, wifiVars
<1>6. CASE ReadClock \/ ResumeSinch \/ Ready \/ Error
  BY <1>6 DEF ReadClock, Sinchronised, ErrorFound, ResumeSinch, Ready, Error, wifiVars
<1> QED BY <1>1, <1>2, <1>3, <1>4, <1>5, <1>6 DEF AppStep

\* What is left of the three cases, when a step comes no later and brings the reset no later.
LEMMA StillNoticed ==
    ASSUME Noticed, Reports, offline \in Nat,
           NEW w \in Nat, UntilCleared = w, NEW v \in Nat, UntilCleared' = v,
           NEW n \in Nat, offline' = n, n + v <= offline + w, v <= w,
           Wifi!IsConnected =>
               /\ Wifi!IsConnected'
               /\ TooLate(w) => TooLate(v)'
               /\ NewRound /\ w <= 2 * Iteration => NewRound' \/ TooLate(v)'
    PROVE  Noticed'
<1>1. /\ TooLate(UntilCleared) <=> TooLate(w)
      /\ TooLate(UntilCleared)' <=> TooLate(v)'
  BY Zenon DEF TooLate
<1>2. CASE offline + w <= 4 * Iteration
  <2>1. n + v <= 4 * Iteration
    BY <1>2, IterationPositive
  <2> QED BY <2>1 DEF Noticed
<1>3. CASE Wifi!IsConnected /\ TooLate(w) /\ offline + w <= 6 * Iteration
  <2>1. n + v <= 6 * Iteration
    BY <1>3, IterationPositive
  <2> QED BY <1>1, <1>3, <2>1 DEF Noticed
<1>4. CASE Wifi!IsConnected /\ NewRound /\ w <= 2 * Iteration /\ offline + w <= 5 * Iteration
  <2>1. n + v <= 5 * Iteration /\ n + v <= 6 * Iteration /\ v <= 2 * Iteration
    BY <1>4, IterationPositive
  <2>2. Wifi!IsConnected' /\ (NewRound' \/ TooLate(v)')
    BY <1>4
  <2> QED BY <1>1, <2>1, <2>2 DEF Noticed
<1> QED BY <1>1, <1>2, <1>3, <1>4, Zenon DEF Noticed

LEMMA Counted ==
    ASSUME OfflineInv, [MCNext]_mcVars
    PROVE  /\ [Next]_vars
           /\ offline' \in Nat /\ offline' <= offline + 1
           /\ ~Tick => offline' <= offline
           /\ radio' = "up" => offline' = 0
<1>1. CASE UNCHANGED mcVars
  BY <1>1 DEF mcVars, vars, wifiVars, OfflineInv
<1>2. CASE MCNext
  <2>1. Next
    BY <1>2 DEF MCNext, Next
  <2>2. CountOffline
    BY <1>2 DEF MCNext
  <2> QED BY <2>1, <2>2 DEF CountOffline, OfflineInv
<1> QED BY <1>1, <1>2

LEMMA NoticedStep ==
    ASSUME TypeOK, TypeOK', AppInv, Wifi!WifiInv, ErrorSleepIsLong, OfflineInv, Placed',
           [MCNext]_mcVars
    PROVE  Noticed'
<1> SUFFICES ASSUME Reports' PROVE Noticed'
  BY DEF Noticed
<1>1. /\ [Next]_vars /\ offline \in Nat /\ offline' \in Nat /\ offline' <= offline + 1
      /\ ~Tick => offline' <= offline
      /\ radio' = "up" => offline' = 0
      /\ radio = "up" => offline = 0
      /\ Placed /\ Noticed
  BY Counted DEF OfflineInv
<1>2. UntilCleared' \in Nat /\ UntilCleared' <= 4 * Iteration
  <2>1. (TypeOK /\ Placed => UntilCleared \in Nat /\ UntilCleared <= 4 * Iteration)'
    BY ClearedSoon, PTL
  <2> QED BY <2>1
<1>3. PICK w \in Nat : UntilCleared = w
  BY DriverTypes
<1>4. PICK v \in Nat : UntilCleared' = v
  BY <1>2
<1>5. PICK n \in Nat : offline' = n
  BY <1>1
<1>6. CASE n = 0
  <2>1. n + v <= 4 * Iteration
    BY <1>2, <1>4, <1>6, IterationPositive
  <2> QED BY <1>4, <1>5, <2>1 DEF Noticed
<1>7. CASE Tick
  <2>1. Wifi!Asleep /\ Wifi!Elapse
    BY <1>7 DEF Tick
  <2>2. Reports /\ (Wifi!IsConnected <=> Wifi!IsConnected') /\ w # 0 /\ v = w - 1
    BY <1>1, <1>3, <1>4, <2>1, ElapseNearer
  <2>3. (NewRound => NewRound') /\ (TooLate(w) => TooLate(v)')
    BY <1>7, <2>2, TickNearer
  <2>4. n + v <= offline + w /\ v <= w
    BY <1>1, <1>5, <2>2
  <2> QED BY <1>1, <1>3, <1>4, <1>5, <2>2, <2>3, <2>4, StillNoticed
<1>8. CASE ~Tick /\ radio # "up" /\ radio' # "up"
  <2>1. n <= offline
    BY <1>1, <1>5, <1>8
  <2>2. ASSUME Reports, v <= w, Wifi!IsConnected => Wifi!IsConnected',
               UNCHANGED <<app_at, state, errors, app_sleep>>
        PROVE  Noticed'
    <3>1. (NewRound <=> NewRound') /\ (PastConnect <=> PastConnect') /\ UntilConnect' = UntilConnect
      BY <2>2, Zenon DEF NewRound, PastConnect, UntilConnect
    <3>2. TooLate(w) => TooLate(v)'
      BY <2>2, <3>1, DriverTypes DEF TooLate
    <3>3. n + v <= offline + w
      BY <1>1, <2>1, <2>2
    <3> QED BY <1>1, <1>3, <1>4, <1>5, <2>2, <3>1, <3>2, <3>3, StillNoticed
  <2>3. ASSUME UNCHANGED <<wifi_state, wifi_events, wifi_at, wifi_sleep>>, lease' => lease,
               UNCHANGED <<app_at, state, errors, app_sleep>>
        PROVE  Noticed'
    BY <1>3, <1>4, <2>2, <2>3, DriverKeeps
  <2>4. CASE AppStep \/ JoinRefused \/ SinchRefused
    <3>1. CASE UNCHANGED <<wifi_state, wifi_events, wifi_at, wifi_sleep, lease>>
      <4>1. Reports /\ v = w /\ (Wifi!IsConnected <=> Wifi!IsConnected')
        BY <1>3, <1>4, <3>1, DriverKeeps
      <4>2. Wifi!IsConnected /\ TooLate(w) => TooLate(v)'
        BY <2>4, <4>1, TooLateStays
      <4>3. NewRound /\ w <= 2 * Iteration => NewRound' \/ TooLate(v)'
        BY <2>4, <4>1, NewRoundStays
      <4>4. n + v <= offline + w /\ v <= w
        BY <1>1, <2>1, <4>1
      <4> QED BY <1>1, <1>3, <1>4, <1>5, <4>1, <4>2, <4>3, <4>4, StillNoticed
    <3>2. CASE /\ At("TRY_WIFI_CONNECTION") /\ Wifi!ConnectBegin
               /\ app_at' = "join" /\ errors' = errors
      <4>1. /\ Reports /\ (Wifi!IsConnected <=> Wifi!IsConnected')
            /\ v = w \/ (Wifi!IsConnected /\ v <= 2 * Iteration /\ v <= w + Iteration)
        BY <1>1, <1>3, <1>4, <3>2, ConnectPutsOff
      <4>2. v <= 2 * Iteration => NewRound' \/ TooLate(v)'
        BY <3>2, AfterConnect
      <4>3. Wifi!IsConnected /\ TooLate(w) => TooLate(w)'
        BY <2>4, TooLateStays
      <4>4. NewRound /\ w <= 2 * Iteration => NewRound' \/ TooLate(w)'
        BY <2>4, NewRoundStays
      <4>5. CASE v = w
        <5>1. n + v <= offline + w /\ v <= w
          BY <1>1, <2>1, <4>5
        <5> QED BY <1>1, <1>3, <1>4, <1>5, <4>1, <4>3, <4>4, <4>5, <5>1, StillNoticed
      <4>6. CASE Wifi!IsConnected /\ v <= 2 * Iteration /\ v <= w + Iteration
        <5>1. app_at = "loop" /\ app_sleep = 0 /\ state = "TRY_WIFI_CONNECTION"
          BY <3>2 DEF At
        <5>2. ~TooLate(UntilCleared) /\ (NewRound => errors = 0)
          <6>1. ~PastConnect /\ UntilConnect = 0 /\ (NewRound => errors = 0)
            BY <5>1, Zenon DEF PastConnect, UntilConnect, NewRound
          <6> QED BY <1>3, <6>1 DEF TooLate
        <5>3. TooLate(v)' <=> TooLate(UntilCleared)'
          BY <1>4, Zenon DEF TooLate
        <5>4. CASE offline + w <= 4 * Iteration
          <6>1. n + v <= 5 * Iteration /\ n + v <= 6 * Iteration
            BY <1>1, <2>1, <4>6, <5>4, IterationPositive
          <6> QED BY <1>4, <1>5, <4>1, <4>2, <4>6, <5>3, <6>1 DEF Noticed
        <5>5. CASE NewRound /\ offline + w <= 5 * Iteration
          <6>1. n + v <= 6 * Iteration
            BY <1>1, <2>1, <4>6, <5>5, IterationPositive
          <6>2. ~NewRound'
            BY <3>2, <5>2, <5>5, AppMainAssumption DEF NewRound, AppMainAssumption
          <6> QED BY <1>4, <1>5, <4>1, <4>2, <4>6, <5>3, <6>1, <6>2 DEF Noticed
        <5> QED BY <1>1, <1>3, <4>1, <5>2, <5>4, <5>5 DEF Noticed
      <4> QED BY <4>1, <4>5, <4>6
    <3> QED BY <2>4, <3>1, <3>2, AppDrives
  <2>5. CASE WifiStep
    <3>1. Wifi!ThreadStep /\ UNCHANGED <<app_at, state, errors, app_sleep>>
      BY <2>5 DEF WifiStep, appVars
    <3> QED BY <1>1, <1>3, <1>4, <1>8, <2>2, <3>1, ThreadNearer
  <2>6. CASE WifiStartFails
    <3>1. wifi_at' = "dead"
      BY <2>6 DEF WifiStartFails, Wifi!StartFails
    <3> QED BY <3>1 DEF Placed, Reports
  <2>7. CASE RadioAnswers
    BY <1>8, <2>7 DEF RadioAnswers, Wifi!RadioAnswers, Wifi!Associate, Wifi!LeaseGranted
  <2>8. CASE RadioFails
    BY <2>3, <2>8
    DEF RadioFails, Wifi!RadioFails, Wifi!AssociateFails, Wifi!LinkLost, Wifi!LeaseExpires,
        Wifi!threadVars, appVars
  <2>9. CASE UNCHANGED <<appVars, wifiVars>>
    BY <2>3, <2>9 DEF appVars, wifiVars
  <2> QED BY <1>1, <1>8, <2>4, <2>5, <2>6, <2>7, <2>8, <2>9
          DEF Next, Progress, Fault, Arrives, DnsFound, NtpRecv,
              DnsExpires, NetworkFails, SetClock, SetConfig, LcdFails, vars
<1>9. radio = "up" /\ Tick => radio' = "up"
  BY DEF Tick, Wifi!Elapse, Wifi!radioVars
<1>10. CASE radio = "up" \/ radio' = "up"
  BY <1>1, <1>5, <1>6, <1>7, <1>9, <1>10
<1> QED BY <1>7, <1>8, <1>10

(* A loss of the link is reported in time, on every instance.  None of the   *)
(* bounds is inductive alone: how late the report can be depends on where    *)
(* both threads are.                                                         *)
LEMMA OfflineStep ==
    ASSUME TypeOK, TypeOK', AppInv, Wifi!WifiInv, ErrorSleepIsLong, OfflineInv,
           [MCNext]_mcVars
    PROVE  OfflineInv'
<1>1. Placed'
  BY Counted, PlacedStep DEF OfflineInv
<1> QED BY <1>1, Counted, NoticedStep DEF OfflineInv

\* Every behaviour of the instance is one of the machine's.
LEMMA InstanceOfSpec == MCSpec => Spec
<1>1. MCInit => Init
  BY DEF MCInit
<1>2. [MCNext]_mcVars => [Next]_vars
  BY DEF MCNext, Next, mcVars
<1> QED BY <1>1, <1>2, PTL DEF MCSpec, Spec

LEMMA OfflineBounded == ErrorSleepIsLong => (MCSpec => []OfflineInv)
<1> SUFFICES ASSUME ErrorSleepIsLong PROVE MCSpec => []OfflineInv
  OBVIOUS
<1>1. MCInit => OfflineInv
  BY IterationPositive DEF MCInit, Init, Wifi!Init, OfflineInv, Placed, Noticed, Reports
<1>2. TypeOK /\ TypeOK' /\ AppInv /\ Wifi!WifiInv /\ OfflineInv /\ [MCNext]_mcVars => OfflineInv'
  BY OfflineStep
<1> QED BY <1>1, <1>2, InstanceOfSpec, TypeCorrect, MachineCorrect, DriverReports, PTL DEF MCSpec

LEMMA ReportInTime == TypeOK /\ OfflineInv => LinkLossReported
<1> SUFFICES ASSUME TypeOK, OfflineInv, Wifi!IsConnected PROVE offline <= 6 * Iteration
  BY IterationPositive DEF LinkLossReported, NoticeTicks, OfflineInv
<1>1. Reports
  BY DEF Wifi!IsConnected, Reports
<1>2. offline + UntilCleared <= 6 * Iteration
  BY <1>1, DriverTypes, IterationPositive DEF OfflineInv, Noticed
<1> QED BY <1>2, DriverTypes, IterationPositive DEF OfflineInv

(* However the caller's attempts come in between, a connection that is gone  *)
(* is no longer reported after a few iterations, if handle_error sleeps      *)
(* longer than a reset of the driver takes: it sleeps for 5 ticks, which is  *)
(* enough where a sleep overruns by a tick (pico-wifi.cpp:93-181;            *)
(* app-main.cpp:119-168, 623-641).                                           *)
THEOREM LinkLossNoticed == ErrorSleepIsLong => (MCSpec => []LinkLossReported)
BY OfflineBounded, InstanceOfSpec, TypeCorrect, ReportInTime, PTL

-----------------------------------------------------------------------------
(* The LED. *)

\* How long the LED may still say ready, but for the report itself.
LedLeft ==
    app_sleep + (IF state = "SINCH_TIMESTAMP" THEN Iteration ELSE 0) + generic_timer * Iteration

\* It says so in READY, and in a synchronisation that began there.
LedInv ==
    led = "ready" =>
        /\ state \in {"READY", "SINCH_TIMESTAMP", "CHECK_TIMESTAMP"}
        /\ app_at \in {"loop", "read_clock"}
        /\ app_at = "read_clock" => state = "SINCH_TIMESTAMP"
        /\ ~lwip_held => offline + LedLeft <= LedTicks

LEMMA Times ==
    \A k \in Nat : k * Iteration \in Nat /\ (k + 1) * Iteration = k * Iteration + Iteration
BY IterationPositive

LEMMA TimerNat == TypeOK => generic_timer \in Nat
BY AppMainAssumption DEF AppMainAssumption, TypeOK, AppTypeOK

LEMMA LedLeftNat == TypeOK => LedLeft \in Nat
<1> SUFFICES ASSUME TypeOK PROVE LedLeft \in Nat
  OBVIOUS
<1>1. generic_timer * Iteration \in Nat /\ app_sleep \in Nat /\ Iteration \in Nat
  BY DriverTypes, TimerNat, Times, IterationPositive
<1> QED BY <1>1 DEF LedLeft

LEMMA LedTicksNat == LedTicks \in Nat
<1>1. OneSec \in Nat /\ Iteration \in Nat
  BY IterationPositive, AppMainAssumption DEF AppMainAssumption
<1>2. (OneSec + 2) * Iteration \in Nat
  BY <1>1, Times
<1> QED BY <1>1, <1>2 DEF LedTicks, NoticeTicks

LEMMA LockIsKept == ASSUME [Next]_vars, ~lwip_held' PROVE ~lwip_held
<1>1. CASE UNCHANGED ntpVars
  BY <1>1 DEF ntpVars
<1>2. CASE SinchTimestamp \/ SinchRefused
  BY <1>2 DEF SinchTimestamp, SinchRefused, Ntp!NtpStart, Ntp!NtpStartCached,
              Ntp!NtpStartLookup, Ntp!NtpStartRefused, Ntp!vars, Ntp!lookupVars, ntpVars
<1>3. CASE DnsFound \/ DnsExpires \/ NtpRecv \/ NetworkFails \/ SetClock
  BY <1>3 DEF DnsFound, DnsExpires, NtpRecv, NetworkFails, SetClock, Arrives,
              Ntp!NtpDnsFound, Ntp!DnsFound, Ntp!DnsExpires, Ntp!NtpRecvOk, Ntp!NetworkFails,
              Ntp!NtpDnsFails, Ntp!NtpDnsFoundNoBuffer, Ntp!NtpRecvKo, Ntp!NtpLost, Ntp!SetRtc
<1>4. CASE AppStep \/ JoinRefused
  BY <1>1, <1>2, <1>4 DEF AppStep, CheckUsers, ResumeUsers, WaitForUsers, CheckWifiEnabled,
     TryWifiConnection, Joined, JoinRefused, CheckWifiWaitParams, ResumeWaitParams,
     WaitForParams, CheckWifiWaitConnection, CheckTimestamp, DateFails, WaitForDate,
     ResumeDate, EnterReady, ReadClock, ResumeSinch, Sinchronised, ErrorFound, Ready, Error
<1> QED BY <1>1, <1>2, <1>3, <1>4
        DEF Next, Progress, Fault, WifiStep, Tick, RadioAnswers, WifiStartFails, RadioFails,
            SetConfig, LcdFails, vars

\* Where the application's steps leave it.
LEMMA LedPlaces ==
    ASSUME LedInv, AppStep \/ JoinRefused \/ SinchRefused, led' = "ready"
    PROVE  /\ state' \in {"READY", "SINCH_TIMESTAMP", "CHECK_TIMESTAMP"}
           /\ app_at' \in {"loop", "read_clock"}
           /\ app_at' = "read_clock" => state' = "SINCH_TIMESTAMP"
<1>1. CASE Ready
  BY <1>1 DEF Ready, At, Iterate, SynchroniseWhenDue
<1>2. CASE SinchTimestamp \/ SinchRefused
  BY <1>2 DEF SinchTimestamp, SinchRefused, BeginSinch, At
<1>3. CASE ReadClock
  BY <1>3 DEF ReadClock, Sinchronised, ErrorFound, Iterate, GoTo
<1>4. CASE CheckTimestamp
  BY <1>4 DEF CheckTimestamp, EnterReady, DateFails, WaitForDate, ErrorFound, Iterate, At
<1>5. CASE CheckUsers \/ ResumeUsers \/ CheckWifiEnabled \/ TryWifiConnection
  BY <1>5 DEF CheckUsers, ResumeUsers, Resumed, WaitForUsers, ErrorFound, CheckWifiEnabled,
              TryWifiConnection, At, LedInv
<1>6. CASE Joined \/ JoinRefused
  BY <1>6 DEF Joined, JoinRefused, HandleError, LedInv
<1>7. CASE CheckWifiWaitParams \/ ResumeWaitParams \/ CheckWifiWaitConnection
  BY <1>7 DEF CheckWifiWaitParams, ResumeWaitParams, Resumed, WaitForParams, ErrorFound,
              CheckWifiWaitConnection, At, LedInv
<1>8. CASE Error \/ ResumeDate \/ ResumeSinch
  BY <1>8 DEF Error, ResumeDate, ResumeSinch, Resumed, EnterReady, At, LedInv
<1> QED BY <1>1, <1>2, <1>3, <1>4, <1>5, <1>6, <1>7, <1>8 DEF AppStep

\* The application's steps: a report starts the wait for the next one, the others go through it.
LEMMA LedGoesOn ==
    ASSUME TypeOK, LedInv, offline \in Nat, Wifi!IsConnected => offline <= NoticeTicks,
           AppStep \/ JoinRefused \/ SinchRefused, led' = "ready",
           NEW n \in Nat, n <= offline, ~lwip_held
    PROVE  n + LedLeft' <= LedTicks
<1>1. /\ generic_timer \in Nat /\ app_sleep \in Nat /\ OneSec \in Nat /\ MaxLate \in Nat
      /\ Iteration = 1 + MaxLate /\ Iteration \in Nat
      /\ state \in State
  BY AppMainAssumption, DriverTypes DEF TypeOK, AppTypeOK, AppMainAssumption, Iteration
<1>2. /\ OneSec * Iteration \in Nat
      /\ LedTicks = 6 * Iteration + OneSec * Iteration + 2 * Iteration
      /\ generic_timer * Iteration \in Nat
      /\ generic_timer > 0 => generic_timer * Iteration = (generic_timer - 1) * Iteration + Iteration
  <2>1. /\ OneSec * Iteration \in Nat /\ generic_timer * Iteration \in Nat
        /\ (OneSec + 1) * Iteration = OneSec * Iteration + Iteration
        /\ ((OneSec + 1) + 1) * Iteration = (OneSec + 1) * Iteration + Iteration
    BY <1>1, Times
  <2>2. (OneSec + 2) * Iteration = OneSec * Iteration + 2 * Iteration
    BY <1>1, <2>1
  <2>3. generic_timer > 0 => generic_timer * Iteration = (generic_timer - 1) * Iteration + Iteration
    <3> SUFFICES ASSUME generic_timer > 0
                 PROVE  generic_timer * Iteration = (generic_timer - 1) * Iteration + Iteration
      OBVIOUS
    <3>1. PICK k \in Nat : generic_timer = k + 1
      BY <1>1
    <3>2. generic_timer - 1 = k
      BY <3>1
    <3> QED BY <3>1, <3>2, Times
  <2> QED BY <1>1, <2>1, <2>2, <2>3 DEF LedTicks, NoticeTicks
<1>3. CASE Ready
  <2>1. /\ app_sleep = 0 /\ app_at = "loop" /\ state = "READY"
        /\ app_at' = "loop" /\ app_sleep' \in 1 .. (1 + MaxLate)
    BY <1>3 DEF Ready, At, Iterate
  <2>2. PICK s \in 1 .. (1 + MaxLate) : app_sleep' = s
    BY <2>1
  <2>3. CASE /\ generic_timer > 0 /\ generic_timer' = generic_timer - 1
             /\ UNCHANGED <<state, led>>
    <3>1. LedLeft' = s + 0 + (generic_timer - 1) * Iteration
      BY <2>1, <2>2, <2>3, Zenon DEF LedLeft
    <3>2. LedLeft = 0 + 0 + generic_timer * Iteration /\ offline + LedLeft <= LedTicks
      BY <2>1, <2>3, Zenon DEF LedLeft, LedInv
    <3>3. n + LedLeft' <= LedTicks
      BY <1>1, <1>2, <2>2, <2>3, <3>1, <3>2
    <3> QED BY <3>3
  <2>4. CASE generic_timer' = OneSec /\ ReportLink /\ SynchroniseWhenDue
    <3>1. offline <= 6 * Iteration
      BY <2>4 DEF ReportLink, NoticeTicks
    <3>2. state' \in {"READY", "SINCH_TIMESTAMP"}
      BY <2>1, <2>4 DEF SynchroniseWhenDue
    <3>3. LedLeft' \in {s + 0 + OneSec * Iteration, s + Iteration + OneSec * Iteration}
      BY <2>2, <2>4, <3>2, Zenon DEF LedLeft
    <3>4. PICK w \in Nat : w = OneSec * Iteration
      BY <1>2
    <3>5. LedTicks = 6 * Iteration + w + 2 * Iteration
      BY <1>2, <3>4
    <3>6. PICK l \in Nat : LedLeft' = l /\ l <= s + Iteration + w
      BY <1>1, <2>2, <3>3, <3>4
    <3>7. n + l <= LedTicks
      BY <1>1, <2>2, <3>1, <3>5, <3>6
    <3>8. n + LedLeft' <= LedTicks
      BY <3>6, <3>7, Zenon
    <3> QED BY <3>8
  <2> QED BY <1>3, <2>3, <2>4, Zenon DEF Ready
<1>4. CASE SinchTimestamp \/ SinchRefused
  <2>1. UNCHANGED <<state, generic_timer, led, app_sleep>> /\ app_at' = "read_clock"
           /\ state = "SINCH_TIMESTAMP"
    BY <1>4 DEF SinchTimestamp, SinchRefused, BeginSinch, At
  <2>2. LedLeft' = LedLeft /\ LedLeft \in Nat
    <3>1. LedLeft' = LedLeft
      BY <2>1, Zenon DEF LedLeft
    <3> QED BY <1>1, <1>2, <3>1 DEF LedLeft
  <2> QED BY <1>1, <1>2, <2>1, <2>2 DEF LedInv
<1>5. CASE ReadClock
  <2>1. /\ app_at = "read_clock" /\ state = "SINCH_TIMESTAMP" /\ led = "ready"
        /\ state' = "CHECK_TIMESTAMP" /\ generic_timer' = generic_timer
        /\ app_at' = "loop" /\ app_sleep' \in 1 .. (1 + MaxLate)
    BY <1>5 DEF ReadClock, Sinchronised, ErrorFound, Iterate, GoTo, LedInv
  <2>2. PICK s \in 1 .. (1 + MaxLate) : app_sleep' = s
    BY <2>1
  <2>3. LedLeft' = s + 0 + generic_timer * Iteration
    BY <2>1, <2>2, Zenon DEF LedLeft
  <2>4. /\ LedLeft = app_sleep + Iteration + generic_timer * Iteration
        /\ offline + LedLeft <= LedTicks
    BY <2>1, Zenon DEF LedLeft, LedInv
  <2> QED BY <1>1, <1>2, <2>2, <2>3, <2>4
<1>6. CASE CheckTimestamp
  <2>1. /\ app_at = "loop" /\ app_sleep = 0 /\ state = "CHECK_TIMESTAMP" /\ led = "ready"
        /\ state' = state /\ generic_timer > 0 /\ generic_timer' = generic_timer - 1
        /\ app_at' = "loop" /\ app_sleep' \in 1 .. (1 + MaxLate)
    BY <1>6 DEF CheckTimestamp, EnterReady, DateFails, WaitForDate, ErrorFound, Iterate, At
  <2>2. PICK s \in 1 .. (1 + MaxLate) : app_sleep' = s
    BY <2>1
  <2>3. LedLeft' = s + 0 + (generic_timer - 1) * Iteration
    BY <2>1, <2>2, Zenon DEF LedLeft
  <2>4. LedLeft = 0 + 0 + generic_timer * Iteration /\ offline + LedLeft <= LedTicks
    BY <2>1, Zenon DEF LedLeft, LedInv
  <2> QED BY <1>1, <1>2, <2>1, <2>2, <2>3, <2>4
<1>7. CASE CheckUsers \/ ResumeUsers \/ CheckWifiEnabled \/ TryWifiConnection
  BY <1>7 DEF CheckUsers, ResumeUsers, Resumed, WaitForUsers, ErrorFound, CheckWifiEnabled,
              TryWifiConnection, At, LedInv
<1>8. CASE Joined \/ JoinRefused
  BY <1>8 DEF Joined, JoinRefused, HandleError, LedInv
<1>9. CASE CheckWifiWaitParams \/ ResumeWaitParams \/ CheckWifiWaitConnection
  BY <1>9 DEF CheckWifiWaitParams, ResumeWaitParams, Resumed, WaitForParams, ErrorFound,
              CheckWifiWaitConnection, At, LedInv
<1>10. CASE Error \/ ResumeDate \/ ResumeSinch
  BY <1>10 DEF Error, ResumeDate, ResumeSinch, Resumed, EnterReady, At, LedInv
<1> QED BY <1>3, <1>4, <1>5, <1>6, <1>7, <1>8, <1>9, <1>10 DEF AppStep

LEMMA LedStep ==
    ASSUME TypeOK, LinkLossReported, OfflineInv, LedInv, [MCNext]_mcVars
    PROVE  LedInv'
<1>1. /\ [Next]_vars /\ offline \in Nat /\ offline' \in Nat /\ offline' <= offline + 1
      /\ ~Tick => offline' <= offline
  BY Counted DEF OfflineInv
<1>2. PICK n \in Nat : offline' = n
  BY <1>1
<1>3. CASE Tick
  <2>1. /\ UNCHANGED <<state, led, app_at, generic_timer, lwip_held>>
        /\ lwip_held \/ (app_sleep > 0 /\ app_sleep' = app_sleep - 1)
    BY <1>3 DEF Tick, AppAsleep, AppBlocked, ntpVars
  <2>2. ASSUME led = "ready", ~lwip_held PROVE n + LedLeft' <= LedTicks
    <3>1. /\ app_sleep > 0 /\ app_sleep' = app_sleep - 1 /\ app_sleep \in Nat
          /\ offline + LedLeft <= LedTicks /\ n <= offline + 1
      BY <1>1, <1>2, <2>1, <2>2, DriverTypes DEF LedInv
    <3>2. PICK b \in Nat : b = (IF state = "SINCH_TIMESTAMP" THEN Iteration ELSE 0)
      BY IterationPositive
    <3>3. PICK c \in Nat : c = generic_timer * Iteration
      BY TimerNat, Times
    <3>4. PICK m \in Nat : app_sleep' = m /\ m = app_sleep - 1
      BY <3>1
    <3>5. LedLeft = app_sleep + b + c /\ LedLeft' = m + b + c
      BY <2>1, <3>2, <3>3, <3>4, Zenon DEF LedLeft
    <3>6. n + (m + b + c) <= offline + (app_sleep + b + c)
      BY <1>1, <3>1, <3>4
    <3>7. PICK t \in Nat : t = LedTicks
      BY LedTicksNat
    <3> QED BY <1>1, <3>1, <3>4, <3>5, <3>6, <3>7
  <2> QED BY <1>2, <2>1, <2>2, Zenon DEF LedInv
<1>4. CASE ~Tick /\ (AppStep \/ JoinRefused \/ SinchRefused)
  <2>1. Wifi!IsConnected => offline <= NoticeTicks
    BY <1>1, IterationPositive DEF LinkLossReported, NoticeTicks
  <2>2. ~lwip_held' => ~lwip_held
    BY <1>1, LockIsKept
  <2>3. n <= offline
    BY <1>1, <1>2, <1>4
  <2>4. ASSUME led' = "ready", ~lwip_held
        PROVE  n + LedLeft' <= LedTicks
    BY <1>1, <1>4, <2>1, <2>3, <2>4, LedGoesOn
  <2>5. ASSUME led' = "ready"
        PROVE  /\ state' \in {"READY", "SINCH_TIMESTAMP", "CHECK_TIMESTAMP"}
               /\ app_at' \in {"loop", "read_clock"}
               /\ app_at' = "read_clock" => state' = "SINCH_TIMESTAMP"
    BY <1>4, <2>5, LedPlaces
  <2> QED BY <1>2, <2>2, <2>4, <2>5, Zenon DEF LedInv
<1>5. CASE ~Tick /\ UNCHANGED appVars
  <2>1. UNCHANGED <<state, led, app_at>> /\ LedLeft' = LedLeft
    BY <1>5, Zenon DEF appVars, LedLeft
  <2>2. ~lwip_held' => ~lwip_held
    BY <1>1, LockIsKept
  <2>3. n <= offline
    BY <1>1, <1>2, <1>5
  <2>4. ASSUME led = "ready", ~lwip_held PROVE n + LedLeft' <= LedTicks
    <3>1. PICK l \in Nat : LedLeft = l
      BY LedLeftNat
    <3>2. PICK t \in Nat : t = LedTicks
      BY LedTicksNat
    <3>3. offline + l <= t
      BY <2>4, <3>1, <3>2 DEF LedInv
    <3>4. n + l <= t
      BY <1>1, <2>3, <3>2, <3>3
    <3> QED BY <2>1, <3>1, <3>2, <3>4, Zenon
  <2> QED BY <1>2, <2>1, <2>2, <2>4, Zenon DEF LedInv
<1> QED BY <1>1, <1>3, <1>4, <1>5
        DEF Next, Progress, Fault, WifiStep, WifiStartFails, RadioAnswers, RadioFails, Arrives,
            DnsFound, NtpRecv, DnsExpires, NetworkFails, SetClock, SetConfig, LcdFails, vars

(* And the LED shows it within one further check of the READY state, also    *)
(* when a synchronisation comes in between, unless the thread is caught on   *)
(* the lwIP lock (TODO.md:20; app-main.cpp:310-356).                         *)
THEOREM LedShowsLoss == ErrorSleepIsLong => (MCSpec => []LedFollowsLink)
<1> SUFFICES ASSUME ErrorSleepIsLong PROVE MCSpec => []LedFollowsLink
  OBVIOUS
<1>1. MCInit => LedInv
  BY DEF MCInit, Init, LedInv
<1>2. TypeOK /\ LinkLossReported /\ OfflineInv /\ LedInv /\ [MCNext]_mcVars => LedInv'
  BY LedStep
<1>3. TypeOK /\ OfflineInv /\ LedInv => LedFollowsLink
  <2> SUFFICES ASSUME TypeOK, OfflineInv, LedInv, ~lwip_held, led = "ready"
               PROVE  offline <= LedTicks
    BY LedTicksNat DEF LedFollowsLink, OfflineInv
  <2>1. PICK l \in Nat : LedLeft = l
    BY LedLeftNat
  <2>2. offline + l <= LedTicks
    BY <2>1 DEF LedInv
  <2> QED BY <2>1, <2>2, LedTicksNat DEF OfflineInv
<1> QED BY <1>1, <1>2, <1>3, OfflineBounded, LinkLossNoticed, InstanceOfSpec, TypeCorrect, PTL
        DEF MCSpec

=============================================================================
