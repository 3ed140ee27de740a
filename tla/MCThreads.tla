------------------------------ MODULE MCThreads ------------------------------
(***************************************************************************)
(* Model-checking instance of two threads that share no state: the MQTT    *)
(* client, over the Wi-Fi driver, and the display.  A behaviour is one of  *)
(* the thread it has chosen; the other stays where it begins.              *)
(***************************************************************************)
EXTENDS AppMqtt, AppDisplay

VARIABLE part

mqttThreadVars == <<vars, mqttVars>>
mcVars == <<part, mqttThreadVars, displayVars>>

OfMqtt(A) == part = "mqtt" /\ A /\ UNCHANGED <<part, displayVars>>
OfDisplay(A) == part = "display" /\ A /\ UNCHANGED <<part, mqttThreadVars>>

\* The MQTT client begins in one of its initial states if it is not chosen.
MCInit ==
    /\ part \in {"mqtt", "display"}
    /\ MqttInit /\ (part # "mqtt" => configured /\ mqtt_client = "idle")
    /\ DisplayInit

MCNext == OfMqtt(MqttNext) \/ OfDisplay(DisplayNext)

(* The fairness of MqttFairSpec and DisplayFairSpec. *)
MCSpec ==
    /\ MCInit /\ [][MCNext]_mcVars
    /\ WF_mcVars(OfMqtt(MqttThread))
    /\ WF_mcVars(OfDisplay(Thread))
=============================================================================
