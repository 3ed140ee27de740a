--------------------------- MODULE AppMqttProofs ---------------------------
(***************************************************************************)
(* Proofs about the MQTT client over the Wi-Fi driver, for every timeout,  *)
(* with and without certificates.                                          *)
(***************************************************************************)
EXTENDS AppMqtt, PicoWifiProofs

-----------------------------------------------------------------------------
(* The client uses the driver, and leaves it as it is. *)

(* Every step of the whole is a step of the driver or leaves it alone.       *)
LEMMA WifiComponent == MqttNext => [Next]_vars
<1> SUFFICES ASSUME MqttNext PROVE [Next]_vars
  OBVIOUS
<1>1. CASE MqttThread
  BY <1>1 DEF MqttThread, InCase, CaseMqttDisconnected, ResumeMqttDisconnected,
     CaseTryConnection, CaseMqttWaitConnection, CaseMqttConnected, CaseWaitRegister,
     CaseRegistered
<1>2. CASE BrokerAccepts \/ BrokerLost
  BY <1>2 DEF BrokerAccepts, BrokerLost, Network
<1>3. CASE MainReady \/ ServerResolved \/ SetBroker
  BY <1>3 DEF MainReady, ServerResolved, SetBroker, Around
<1>4. CASE Wifi
  BY <1>4 DEF Wifi
<1>5. QED
  BY <1>1, <1>2, <1>3, <1>4 DEF MqttNext

(* So every behaviour is one of the Wi-Fi driver's (app-mqtt.cpp:51-52).     *)
THEOREM UsesWifi == MqttSpec => Spec
<1>1. MqttInit => Init
  BY DEF MqttInit
<1>2. [MqttNext]_<<vars, mqttVars>> => [Next]_vars
  BY WifiComponent
<1>3. QED
  BY <1>1, <1>2, PTL DEF MqttSpec, Spec

(* What the client reads of the driver is true (pico-wifi.cpp:142-181).      *)
THEOREM WifiReportsCorrect == MqttSpec => []WifiInv
  BY UsesWifi, ReportsCorrect, PTL

-----------------------------------------------------------------------------
(* Type correctness. *)

(* The client's variables, without the driver's.                             *)
ClientTypeOK ==
    /\ mqtt_state \in MqttState /\ mqtt_asleep \in BOOLEAN
    /\ mqtt_events \subseteq MqttState
    /\ returned \in {"WAIT", "CONNECTED", "ERROR"}
    /\ mqtt_client \in {"none", "idle", "connecting", "connected"}
    /\ configured \in BOOLEAN /\ server_known \in BOOLEAN /\ main_ready \in BOOLEAN
    /\ crashed \in BOOLEAN
    /\ attempts \in 0 .. 2 /\ accepted \in BOOLEAN

(* They have them at the start (app-mqtt.hpp:41-72).                         *)
LEMMA ClientInitTypeOK == MqttInit => ClientTypeOK
<1> SUFFICES ASSUME MqttInit PROVE ClientTypeOK
  OBVIOUS
<1>1. mqtt_state \in MqttState /\ mqtt_asleep \in BOOLEAN /\ mqtt_events \subseteq MqttState
  BY DEF MqttInit, MqttState
<1>2. /\ returned \in {"WAIT", "CONNECTED", "ERROR"}
      /\ mqtt_client \in {"none", "idle", "connecting", "connected"}
  BY DEF MqttInit
<1>3. /\ configured \in BOOLEAN /\ server_known \in BOOLEAN /\ main_ready \in BOOLEAN
      /\ crashed \in BOOLEAN /\ accepted \in BOOLEAN
  BY Zenon DEF MqttInit
<1>4. attempts \in 0 .. 2
  BY DEF MqttInit
<1>5. QED
  BY <1>1, <1>2, <1>3, <1>4, Zenon DEF ClientTypeOK

(* No step leaves them (app-mqtt.hpp:41-72).                                 *)
LEMMA ClientNextTypeOK == ClientTypeOK /\ [MqttNext]_<<vars, mqttVars>> => ClientTypeOK'
<1> SUFFICES ASSUME ClientTypeOK, [MqttNext]_<<vars, mqttVars>> PROVE ClientTypeOK'
  OBVIOUS
<1> USE DEF ClientTypeOK, MqttState
<1>1. CASE MqttThread
  <2> USE DEF InCase, NotAsked, aroundVars, clientVars
  <2>1. CASE CaseMqttDisconnected \/ ResumeMqttDisconnected
    BY <2>1 DEF CaseMqttDisconnected, ResumeMqttDisconnected
  <2>2. CASE CaseTryConnection
    <3>1. CASE ConnectRefused
      BY <2>2, <3>1 DEF CaseTryConnection, ConnectRefused
    <3>2. CASE ConnectAsked
      BY <2>2, <3>2 DEF CaseTryConnection, ConnectAsked
    <3>3. QED
      BY <2>2, <3>1, <3>2 DEF CaseTryConnection
  <2>3. CASE CaseMqttWaitConnection
    BY <2>3 DEF CaseMqttWaitConnection
  <2>4. CASE CaseMqttConnected
    BY <2>4 DEF CaseMqttConnected
  <2>5. CASE CaseWaitRegister \/ CaseRegistered
    BY <2>5 DEF CaseWaitRegister, CaseRegistered
  <2>6. QED
    BY <1>1, <2>1, <2>2, <2>3, <2>4, <2>5 DEF MqttThread
<1>2. CASE BrokerAccepts \/ BrokerLost
  BY <1>2 DEF BrokerAccepts, BrokerLost, Network, fsmVars, aroundVars
<1>3. CASE MainReady \/ ServerResolved \/ SetBroker
  <2>1. UNCHANGED <<fsmVars, clientVars, crashed>>
    BY <1>3 DEF MainReady, ServerResolved, SetBroker, Around
  <2>2. configured' \in BOOLEAN /\ server_known' \in BOOLEAN /\ main_ready' \in BOOLEAN
    BY <1>3, Zenon DEF MainReady, ServerResolved, SetBroker
  <2>3. QED
    BY <2>1, <2>2 DEF fsmVars, clientVars
<1>4. CASE Wifi \/ UNCHANGED <<vars, mqttVars>>
  BY <1>4 DEF Wifi, mqttVars, fsmVars, clientVars, aroundVars
<1>5. QED
  BY <1>1, <1>2, <1>3, <1>4 DEF MqttNext

(* The types of both parts, for every timeout and lateness of the driver.    *)
THEOREM MqttTypeCorrect == MqttSpec => []MqttTypeOK
<1>1. MqttSpec => []ClientTypeOK
  BY ClientInitTypeOK, ClientNextTypeOK, PTL DEF MqttSpec
<1>2. MqttSpec => []TypeOK
  BY UsesWifi, TypeCorrect, PTL
<1>3. TypeOK /\ ClientTypeOK => MqttTypeOK
  BY DEF ClientTypeOK, MqttTypeOK
<1>4. QED
  BY <1>1, <1>2, <1>3, PTL

-----------------------------------------------------------------------------
(* One attempt. *)

(* The driver's reset, once recorded, stays recorded (pico-wifi.cpp:97-98).  *)
LEMMA ResetStays ==
    "DISCONNECTED" \in wifi_events /\ [Next]_vars => "DISCONNECTED" \in wifi_events'
<1> SUFFICES ASSUME "DISCONNECTED" \in wifi_events, [Next]_vars
             PROVE  "DISCONNECTED" \in wifi_events'
  OBVIOUS
<1> USE DEF vars, threadVars, radioVars
<1>1. CASE ThreadStep
  BY <1>1 DEF ThreadStep, Start, Fetch, CaseNone, CaseDisconnected, ResumeDisconnected,
     CaseWaitConnection, CaseConnected, CaseWaitIp, CaseHasIp
<1>2. CASE StartFails \/ ConnectBegin \/ JoinAccepted \/ (Asleep /\ Elapse)
  BY <1>2 DEF StartFails, ConnectBegin, JoinAccepted, Elapse
<1>3. CASE RadioAnswers \/ RadioFails
  BY <1>3 DEF RadioAnswers, RadioFails, Associate, AssociateFails, LinkLost, LeaseGranted,
     LeaseExpires
<1>4. CASE UNCHANGED vars
  BY <1>4
<1>5. QED
  BY <1>1, <1>2, <1>3, <1>4 DEF Next

(* Where the client's thread is tells what has been reported and asked       *)
(* (app-mqtt.cpp:61, 77-107, 117-196).                                       *)
LEMMA MqttInvStep ==
    ClientTypeOK /\ WifiInv /\ MqttInv /\ [MqttNext]_<<vars, mqttVars>> => MqttInv'
<1> SUFFICES ASSUME ClientTypeOK, WifiInv, MqttInv, [MqttNext]_<<vars, mqttVars>>
             PROVE  MqttInv'
  OBVIOUS
<1>1. [Next]_vars
  BY WifiComponent
<1>2. "DISCONNECTED" \in wifi_events => "DISCONNECTED" \in wifi_events'
  BY <1>1, ResetStays
<1> USE DEF MqttInv, OneAttempt
<1>3. CASE MqttThread
  <2>1. UNCHANGED <<wifi_events, main_ready, returned, accepted>>
    BY <1>3 DEF MqttThread, InCase, CaseMqttDisconnected, ResumeMqttDisconnected,
       CaseTryConnection, CaseMqttWaitConnection, CaseMqttConnected, CaseWaitRegister,
       CaseRegistered, NotAsked, ConnectRefused, ConnectAsked, clientVars, aroundVars,
       vars, threadVars
  <2>2. CASE CaseMqttDisconnected
    BY <2>1, <2>2 DEF CaseMqttDisconnected, InCase, NotAsked, clientVars, IsConnected,
       WifiInv, ConnectedOnlyAfterReset
  <2>3. CASE ResumeMqttDisconnected
    BY <2>1, <2>3 DEF ResumeMqttDisconnected, NotAsked, clientVars
  <2>4. CASE CaseTryConnection
    <3>1. attempts' \in {0, 1}
      BY <2>4 DEF CaseTryConnection, InCase, ConnectRefused, ConnectAsked, NotAsked, clientVars
    <3>2. QED
      BY <2>1, <2>4, <3>1 DEF CaseTryConnection, InCase
  <2>5. CASE CaseMqttWaitConnection
    BY <2>1, <2>5 DEF CaseMqttWaitConnection, InCase, NotAsked, clientVars
  <2>6. CASE CaseMqttConnected
    BY <2>1, <2>6 DEF CaseMqttConnected, InCase, NotAsked, clientVars
  <2>7. CASE CaseWaitRegister \/ CaseRegistered
    BY <2>1, <2>7 DEF CaseWaitRegister, CaseRegistered, InCase, NotAsked, clientVars
  <2>8. QED
    BY <1>3, <2>2, <2>3, <2>4, <2>5, <2>6, <2>7 DEF MqttThread
<1>4. CASE BrokerAccepts \/ BrokerLost
  BY <1>2, <1>4 DEF BrokerAccepts, BrokerLost, Network, fsmVars, aroundVars
<1>5. CASE MainReady \/ ServerResolved \/ SetBroker
  BY <1>2, <1>5 DEF MainReady, ServerResolved, SetBroker, Around, fsmVars, clientVars
<1>6. CASE Wifi \/ UNCHANGED <<vars, mqttVars>>
  BY <1>2, <1>6 DEF Wifi, mqttVars, fsmVars, clientVars, aroundVars
<1>7. QED
  BY <1>3, <1>4, <1>5, <1>6 DEF MqttNext

(* There is one attempt to connect, after the driver's reset, and CONNECTED  *)
(* is only reported if it was accepted (app-mqtt.cpp:61, 77-107, 117-156).   *)
THEOREM AttemptCorrect == MqttSpec => []OneAttempt
<1>1. MqttInit => MqttInv
  BY DEF MqttInit, MqttInv, OneAttempt
<1>2. MqttInv => OneAttempt
  BY DEF MqttInv
<1>3. QED
  BY <1>1, <1>2, ClientInitTypeOK, ClientNextTypeOK, MqttInvStep, WifiReportsCorrect, PTL DEF MqttSpec
=============================================================================
