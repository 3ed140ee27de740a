--------------------------- MODULE PicoWifiProofs ---------------------------
(***************************************************************************)
(* Proofs about the Wi-Fi driver, for every timeout and every lateness of  *)
(* its sleeps, and for callers that call connect() at any moment.          *)
(***************************************************************************)
EXTENDS PicoWifi, TLAPS

-----------------------------------------------------------------------------
(* Type correctness. *)

(* Initially every variable has its type (pico-wifi.hpp:48-69).              *)
LEMMA InitTypeOK == Init => TypeOK
<1> SUFFICES ASSUME Init PROVE TypeOK
  OBVIOUS
<1> USE PicoWifiAssumption DEF PicoWifiAssumption, Init
<1>1. wifi_state \in FsmState /\ wifi_events \subseteq FsmState \ {"NONE"}
  BY DEF FsmState
<1>2. connection_timeout \in 0 .. ConnectionTimeout
  OBVIOUS
<1>3. wifi_at \in FsmState \cup {"start", "fetch", "resume", "dead"}
  OBVIOUS
<1>4. wifi_sleep \in 0 .. (DisconnectSleep + 1 + MaxLate)
  OBVIOUS
<1>5. radio \in {"idle", "joining", "up"} /\ ip_addr \in BOOLEAN /\ lease \in BOOLEAN
  OBVIOUS
<1>6. QED
  BY <1>1, <1>2, <1>3, <1>4, <1>5 DEF TypeOK

(* No step of the driver, its callers or the radio leaves the types; in      *)
(* particular the timeout never goes below zero, where the test for zero of  *)
(* pico-wifi.cpp:111 would no longer find it.                                *)
LEMMA NextTypeOK == TypeOK /\ [Next]_vars => TypeOK'
<1> SUFFICES ASSUME TypeOK, [Next]_vars PROVE TypeOK'
  OBVIOUS
<1> USE PicoWifiAssumption DEF PicoWifiAssumption, TypeOK, FsmState, threadVars, radioVars
<1>1. CASE Start \/ StartFails \/ Fetch
  BY <1>1 DEF Start, StartFails, Fetch
<1>2. CASE CaseNone
  BY <1>2 DEF CaseNone, Iterate, SleepFor
<1>3. CASE CaseDisconnected
  <2>1. wifi_state' \in FsmState /\ radio' \in {"idle", "joining", "up"}
    BY <1>3 DEF CaseDisconnected, SleepFor
  <2>2. wifi_events' \subseteq FsmState \ {"NONE"}
    BY <1>3 DEF CaseDisconnected, SleepFor
  <2>3. connection_timeout' \in 0 .. ConnectionTimeout
    BY <1>3 DEF CaseDisconnected, SleepFor
  <2>4. /\ wifi_at' \in FsmState \cup {"start", "fetch", "resume", "dead"}
       /\ wifi_sleep' \in 0 .. (DisconnectSleep + 1 + MaxLate)
    BY <1>3 DEF CaseDisconnected, SleepFor
  <2>5. ip_addr' \in BOOLEAN /\ lease' \in BOOLEAN
    BY <1>3 DEF CaseDisconnected, SleepFor
  <2>6. QED
    BY <2>1, <2>2, <2>3, <2>4, <2>5
<1>4. CASE ResumeDisconnected
  BY <1>4 DEF ResumeDisconnected, Iterate, SleepFor
<1>5. CASE CaseWaitConnection
  <2>1. wifi_state' \in FsmState /\ radio' \in {"idle", "joining", "up"}
    BY <1>5 DEF CaseWaitConnection, Iterate, SleepFor
  <2>2. wifi_events' \subseteq FsmState \ {"NONE"}
    BY <1>5 DEF CaseWaitConnection, Iterate, SleepFor
  <2>3. connection_timeout' \in 0 .. ConnectionTimeout
    BY <1>5 DEF CaseWaitConnection, Iterate, SleepFor
  <2>4. /\ wifi_at' \in FsmState \cup {"start", "fetch", "resume", "dead"}
       /\ wifi_sleep' \in 0 .. (DisconnectSleep + 1 + MaxLate)
    BY <1>5 DEF CaseWaitConnection, Iterate, SleepFor
  <2>5. ip_addr' \in BOOLEAN /\ lease' \in BOOLEAN
    BY <1>5 DEF CaseWaitConnection, Iterate, SleepFor
  <2>6. QED
    BY <2>1, <2>2, <2>3, <2>4, <2>5
<1>6. CASE CaseConnected
  <2>1. wifi_state' \in FsmState /\ radio' \in {"idle", "joining", "up"}
    BY <1>6 DEF CaseConnected, Iterate, SleepFor
  <2>2. wifi_events' \subseteq FsmState \ {"NONE"}
    BY <1>6 DEF CaseConnected, Iterate, SleepFor
  <2>3. connection_timeout' \in 0 .. ConnectionTimeout
    BY <1>6 DEF CaseConnected, Iterate, SleepFor
  <2>4. /\ wifi_at' \in FsmState \cup {"start", "fetch", "resume", "dead"}
       /\ wifi_sleep' \in 0 .. (DisconnectSleep + 1 + MaxLate)
    BY <1>6 DEF CaseConnected, Iterate, SleepFor
  <2>5. ip_addr' \in BOOLEAN /\ lease' \in BOOLEAN
    BY <1>6 DEF CaseConnected, Iterate, SleepFor
  <2>6. QED
    BY <2>1, <2>2, <2>3, <2>4, <2>5
<1>7. CASE CaseWaitIp
  <2>1. wifi_state' \in FsmState /\ radio' \in {"idle", "joining", "up"}
    BY <1>7 DEF CaseWaitIp, Iterate, SleepFor
  <2>2. wifi_events' \subseteq FsmState \ {"NONE"}
    BY <1>7 DEF CaseWaitIp, Iterate, SleepFor
  <2>3. connection_timeout' \in 0 .. ConnectionTimeout
    BY <1>7 DEF CaseWaitIp, Iterate, SleepFor
  <2>4. /\ wifi_at' \in FsmState \cup {"start", "fetch", "resume", "dead"}
       /\ wifi_sleep' \in 0 .. (DisconnectSleep + 1 + MaxLate)
    BY <1>7 DEF CaseWaitIp, Iterate, SleepFor
  <2>5. ip_addr' \in BOOLEAN /\ lease' \in BOOLEAN
    BY <1>7 DEF CaseWaitIp, Iterate, SleepFor
  <2>6. QED
    BY <2>1, <2>2, <2>3, <2>4, <2>5
<1>8. CASE CaseHasIp
  BY <1>8 DEF CaseHasIp, Iterate, SleepFor
<1>9. CASE ConnectBegin \/ JoinAccepted
  BY <1>9 DEF ConnectBegin, JoinAccepted
<1>10. CASE RadioAnswers \/ RadioFails
  BY <1>10 DEF RadioAnswers, RadioFails, Associate, AssociateFails, LinkLost,
               LeaseGranted, LeaseExpires
<1>11. CASE Asleep /\ Elapse
  BY <1>11 DEF Elapse
<1>12. CASE UNCHANGED vars
  BY <1>12 DEF vars
<1>13. QED
  BY <1>1, <1>2, <1>3, <1>4, <1>5, <1>6, <1>7, <1>8, <1>9, <1>10, <1>11, <1>12
  DEF Next, ThreadStep

(* The driver's variables always have their types (pico-wifi.cpp:54-258).    *)
THEOREM TypeCorrect == Spec => []TypeOK
BY InitTypeOK, NextTypeOK, PTL DEF Spec

-----------------------------------------------------------------------------
(* The reports. *)

(* Initially nothing is reported.                                            *)
LEMMA InitWifiInv == Init => WifiInv
BY DEF Init, WifiInv, ConnectedOnlyAfterReset, AddressWhileReported,
       TimeoutSpentWhileReported, IpBitsExclusive, StateMatchesCase, RecordedFor,
       FsmState

(* Every step keeps the reports and the reasons for them.  The one hard step *)
(* is a connect() that lands between the fetch of a case and its end: the    *)
(* case still runs, but StateMatchesCase bounds what it can find in the      *)
(* state, and RecordedFor speaks of the case as well as of the state.        *)
LEMMA NextWifiInv == TypeOK /\ WifiInv /\ [Next]_vars => WifiInv'
<1> SUFFICES ASSUME TypeOK, WifiInv, [Next]_vars PROVE WifiInv'
  OBVIOUS
<1> USE DEF WifiInv, ConnectedOnlyAfterReset, AddressWhileReported,
            TimeoutSpentWhileReported, IpBitsExclusive, StateMatchesCase, RecordedFor,
            FsmState, threadVars, radioVars
<1>1. CASE Start \/ StartFails
  BY <1>1 DEF Start, StartFails
<1>2. CASE Fetch
  BY <1>2 DEF Fetch, TypeOK
<1>3. CASE CaseNone
  BY <1>3 DEF CaseNone, Iterate
<1>4. CASE CaseDisconnected
  BY <1>4 DEF CaseDisconnected
<1>5. CASE ResumeDisconnected
  BY <1>5 DEF ResumeDisconnected, Iterate
<1>6. CASE CaseWaitConnection
  BY <1>6 DEF CaseWaitConnection, Iterate, TypeOK
<1>7. CASE CaseConnected
  BY <1>7 DEF CaseConnected, Iterate
<1>8. CASE CaseWaitIp
  BY <1>8 DEF CaseWaitIp, Iterate
<1>9. CASE CaseHasIp
  BY <1>9 DEF CaseHasIp, Iterate
<1>10. CASE ConnectBegin \/ JoinAccepted
  BY <1>10 DEF ConnectBegin, JoinAccepted
<1>11. CASE RadioAnswers \/ RadioFails
  BY <1>11 DEF RadioAnswers, RadioFails, Associate, AssociateFails, LinkLost,
               LeaseGranted, LeaseExpires
<1>12. CASE Asleep /\ Elapse
  BY <1>12 DEF Elapse
<1>13. CASE UNCHANGED vars
  BY <1>13 DEF vars
<1>14. QED
  BY <1>1, <1>2, <1>3, <1>4, <1>5, <1>6, <1>7, <1>8, <1>9, <1>10, <1>11, <1>12, <1>13
  DEF Next, ThreadStep

(* The driver's reports are what they say: HAS_IP only with an address and a *)
(* spent timeout, CONNECTED only after a reset, never HAS_IP with WAIT_IP    *)
(* (pico-wifi.cpp:88-188, 237).                                              *)
THEOREM ReportsCorrect == Spec => []WifiInv
BY TypeCorrect, InitWifiInv, NextWifiInv, PTL DEF Spec

=============================================================================
