------------------------------- MODULE AppMqtt -------------------------------
(***************************************************************************)
(* The MQTT client: app_mqtt::handle (hhg-app/src/app-mqtt.cpp) with       *)
(* pico_mqtt (hhg-driver/platform/pico/pico-mqtt.cpp), over the reports of *)
(* the Wi-Fi driver.                                                       *)
(*                                                                         *)
(* The client's thread runs one case of its switch per iteration, and      *)
(* sleeps a second inside the first.  lwIP's MQTT client, which calls back *)
(* in the network thread, and the broker are external.  The Wi-Fi driver   *)
(* runs as in PicoWifi, connect() at any moment included; the time between *)
(* the two threads' steps is left open.                                    *)
(*                                                                         *)
(* Nothing sets the states NONE and ERROR after init() (the branch that    *)
(* would is commented out, app-mqtt.cpp:123-135), so their cases never run.*)
(***************************************************************************)
EXTENDS PicoWifi

CONSTANT HasCertificates  \* MQTT_CA_CRT, MQTT_CLIENT_CRT and MQTT_CLIENT_KEY are defined

ASSUME AppMqttAssumption == HasCertificates \in BOOLEAN

VARIABLES
    mqtt_state,    \* fsm_state
    mqtt_asleep,   \* in the sleep of the DISCONNECTED case
    mqtt_events,   \* events, the bits that are set
    returned,      \* return_from_mqtt_connection
    mqtt_client,   \* lwIP's client: "none" when there was no memory for it
    configured,    \* serial and broker are not empty
    server_known,  \* is_ntp_synchronized(): the name of the time server is resolved
    main_ready,    \* get_fsm_state() & READY
    crashed        \* history: connect() was called with a null client

VARIABLES
    attempts,      \* history: how often the client was asked to connect (bound: 2)
    accepted       \* history: the broker has accepted a connection

clientVars == <<returned, mqtt_client, attempts, accepted>>
fsmVars == <<mqtt_state, mqtt_asleep, mqtt_events>>
aroundVars == <<configured, server_known, main_ready>>
mqttVars == <<fsmVars, clientVars, aroundVars, crashed>>

MqttState ==
    {"DISCONNECTED", "TRY_CONNECTION", "WAIT_CONNECTION", "CONNECTED",
     "WAIT_REGISTER_SUBSCRIPTION", "REGISTERED_SUBSCRIPTION"}

(* Every variable has its type, those of the Wi-Fi driver below the client   *)
(* as well; its timeout does not go below zero (pico-wifi.cpp:111-118).      *)
MqttTypeOK ==
    /\ TypeOK
    /\ mqtt_state \in MqttState /\ mqtt_asleep \in BOOLEAN
    /\ mqtt_events \subseteq MqttState
    /\ returned \in {"WAIT", "CONNECTED", "ERROR"}
    /\ mqtt_client \in {"none", "idle", "connecting", "connected"}
    /\ configured \in BOOLEAN /\ server_known \in BOOLEAN /\ main_ready \in BOOLEAN
    /\ crashed \in BOOLEAN
    /\ attempts \in 0 .. 2 /\ accepted \in BOOLEAN

MqttInit ==
    /\ Init
    /\ mqtt_state = "DISCONNECTED" /\ mqtt_asleep = FALSE /\ mqtt_events = {}
    /\ returned = "WAIT"
    /\ mqtt_client \in {"none", "idle"}
    /\ configured \in BOOLEAN
    /\ server_known = FALSE /\ main_ready = FALSE /\ crashed = FALSE
    /\ attempts = 0 /\ accepted = FALSE

-----------------------------------------------------------------------------
(* pico_mqtt::connect and lwIP's client. *)

NotAsked == UNCHANGED <<clientVars, crashed>>

\* An empty name or broker, or no TLS configuration: KO, and nobody looks at it.
ConnectRefused == (~configured \/ ~HasCertificates) /\ NotAsked

(* mqtt_client_connect: the connection begins, or fails at once without a    *)
(* callback; what it returns is dropped.  init() reports a missing client    *)
(* only if it is given an error to fill, which it is not.                    *)
ConnectAsked ==
    /\ configured /\ HasCertificates
    /\ attempts < 2
    /\ attempts' = attempts + 1
    /\ crashed' = (mqtt_client = "none")
    /\ mqtt_client' \in IF mqtt_client = "idle" THEN {"idle", "connecting"} ELSE {mqtt_client}
    /\ UNCHANGED <<returned, accepted>>

IsMqttConnected == TRUE

Network == UNCHANGED <<vars, fsmVars, aroundVars, crashed, attempts>>

BrokerAccepts ==
    /\ mqtt_client = "connecting" /\ mqtt_client' = "connected"
    /\ returned' = "CONNECTED"
    /\ accepted' = TRUE
    /\ Network

\* Refused, timed out, or lost after it was accepted.
BrokerLost ==
    /\ mqtt_client \in {"connecting", "connected"} /\ mqtt_client' = "idle"
    /\ returned' = "ERROR"
    /\ UNCHANGED accepted
    /\ Network

-----------------------------------------------------------------------------
(* The client's thread. *)

InCase(s) == mqtt_state = s /\ ~mqtt_asleep /\ UNCHANGED <<vars, aroundVars>>

CaseMqttDisconnected ==
    /\ InCase("DISCONNECTED")
    /\ IsConnected /\ server_known
    /\ mqtt_events' = {"DISCONNECTED"}
    /\ mqtt_asleep' = TRUE
    /\ UNCHANGED mqtt_state
    /\ NotAsked

\* After the second, whatever has become of the link.
ResumeMqttDisconnected ==
    /\ mqtt_asleep
    /\ mqtt_asleep' = FALSE
    /\ mqtt_state' = "TRY_CONNECTION"
    /\ UNCHANGED <<vars, aroundVars, mqtt_events>>
    /\ NotAsked

CaseTryConnection ==
    /\ InCase("TRY_CONNECTION")
    /\ ConnectRefused \/ ConnectAsked
    /\ mqtt_state' = "WAIT_CONNECTION"
    /\ UNCHANGED <<mqtt_asleep, mqtt_events>>

\* Mutated: an error leads to another attempt.
CaseMqttWaitConnectionRetries ==
    /\ InCase("WAIT_CONNECTION")
    /\ mqtt_state' = IF main_ready /\ returned = "CONNECTED" THEN "CONNECTED"
                     ELSE IF main_ready /\ returned = "ERROR" THEN "TRY_CONNECTION"
                     ELSE mqtt_state
    /\ mqtt_events' = IF main_ready THEN mqtt_events ELSE mqtt_events \cup {"WAIT_CONNECTION"}
    /\ UNCHANGED mqtt_asleep
    /\ NotAsked

CaseMqttWaitConnection ==
    /\ InCase("WAIT_CONNECTION")
    /\ mqtt_state' = IF main_ready /\ returned = "CONNECTED" THEN "CONNECTED" ELSE mqtt_state
    /\ mqtt_events' = IF main_ready THEN mqtt_events ELSE mqtt_events \cup {"WAIT_CONNECTION"}
    /\ UNCHANGED mqtt_asleep
    /\ NotAsked

\* Mutated: the wait is not taken back.
CaseMqttConnectedKeepsWait ==
    /\ InCase("CONNECTED")
    /\ mqtt_events' = mqtt_events \cup {"CONNECTED"}
    /\ mqtt_state' = IF main_ready THEN "WAIT_REGISTER_SUBSCRIPTION" ELSE "DISCONNECTED"
    /\ UNCHANGED mqtt_asleep
    /\ NotAsked

\* A client that is not connected sets DISCONNECTED, and goes on all the same.
CaseMqttConnected ==
    /\ InCase("CONNECTED")
    /\ mqtt_events' = IF main_ready /\ IsMqttConnected
                      THEN (mqtt_events \ {"WAIT_CONNECTION"}) \cup {"CONNECTED"}
                      ELSE mqtt_events
    /\ mqtt_state' = IF main_ready THEN "WAIT_REGISTER_SUBSCRIPTION" ELSE "DISCONNECTED"
    /\ UNCHANGED mqtt_asleep
    /\ NotAsked

CaseWaitRegister ==
    /\ InCase("WAIT_REGISTER_SUBSCRIPTION")
    /\ mqtt_events' = mqtt_events \cup {"WAIT_REGISTER_SUBSCRIPTION"}
    /\ mqtt_state' = "REGISTERED_SUBSCRIPTION"
    /\ UNCHANGED mqtt_asleep
    /\ NotAsked

CaseRegistered ==
    /\ InCase("REGISTERED_SUBSCRIPTION")
    /\ mqtt_events' = (mqtt_events \ {"WAIT_REGISTER_SUBSCRIPTION"}) \cup {"REGISTERED_SUBSCRIPTION"}
    /\ mqtt_state' = "CONNECTED"
    /\ UNCHANGED mqtt_asleep
    /\ NotAsked

MqttThread ==
    /\ ~crashed
    /\ \/ CaseMqttDisconnected \/ ResumeMqttDisconnected \/ CaseTryConnection
       \/ CaseMqttWaitConnection \/ CaseMqttConnected \/ CaseWaitRegister \/ CaseRegistered

-----------------------------------------------------------------------------
(* What is around the client. *)

Around == UNCHANGED <<vars, fsmVars, clientVars, crashed>>

\* app_main reports READY, and never takes it back (AppMain's ReadyIsForEver).
MainReady ==
    /\ ~main_ready /\ main_ready' = TRUE
    /\ UNCHANGED <<configured, server_known>>
    /\ Around

\* The resolver knows the time server, whose answer need not have come.
ServerResolved ==
    /\ ~server_known /\ server_known' = TRUE
    /\ UNCHANGED <<configured, main_ready>>
    /\ Around

\* $CONF 14.
SetBroker ==
    /\ configured' = ~configured
    /\ UNCHANGED <<server_known, main_ready>>
    /\ Around

Wifi == ~crashed /\ Next /\ UNCHANGED mqttVars

MqttNext ==
    \/ MqttThread
    \/ ~crashed /\ (BrokerAccepts \/ BrokerLost)
    \/ ~crashed /\ (MainReady \/ ServerResolved \/ SetBroker)
    \/ Wifi

MqttSpec == MqttInit /\ [][MqttNext]_<<vars, mqttVars>>

\* The thread has the priority HIGH under a scheduler with time slices.
MqttFairSpec == MqttSpec /\ WF_<<vars, mqttVars>>(MqttThread)

-----------------------------------------------------------------------------
(* Properties. *)

(* There is one attempt to connect for as long as the device runs: it comes  *)
(* after the driver has gone through its reset and has reported an address,  *)
(* lwIP's client is never asked again while it is busy, and CONNECTED is only*)
(* reported if that attempt was accepted (app-mqtt.cpp:61, 77-107, 117-156). *)
OneAttempt ==
    /\ attempts <= 1
    /\ attempts = 1 => "DISCONNECTED" \in wifi_events
    /\ "CONNECTED" \in mqtt_events => accepted

(* What makes it inductive: the state says what has been reported and asked. *)
MqttInv ==
    /\ OneAttempt
    /\ mqtt_asleep => mqtt_state = "DISCONNECTED"
    /\ mqtt_asleep \/ mqtt_state # "DISCONNECTED" => "DISCONNECTED" \in wifi_events
    /\ mqtt_state \in {"DISCONNECTED", "TRY_CONNECTION"} => attempts = 0
    /\ mqtt_state \in {"CONNECTED", "WAIT_REGISTER_SUBSCRIPTION", "REGISTERED_SUBSCRIPTION"} =>
           main_ready /\ accepted
    /\ returned = "CONNECTED" => accepted

(* A connection that stays accepted is reported, with its subscription and   *)
(* no longer as a wait, wherever the callback and READY find the thread      *)
(* (app-mqtt.cpp:84, 112-141, 153-197).                                      *)
AcceptedIsReported ==
    <>[](returned = "CONNECTED" /\ main_ready /\ ~crashed) =>
        <>[]( /\ {"CONNECTED", "REGISTERED_SUBSCRIPTION"} \subseteq mqtt_events
              /\ "WAIT_CONNECTION" \notin mqtt_events )
=============================================================================
