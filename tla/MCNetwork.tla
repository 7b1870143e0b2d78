------------------------------ MODULE MCNetwork ------------------------------
(* The three owners of the device's links: Wi-Fi, the MQTT session and the FRP  *)
(* endpoint.  Each model has its own environment, that is the part of the       *)
(* control task, the library and the peer around its owner, and they share no   *)
(* state, so a behaviour is one of a single part, named by `part'; the others   *)
(* stay in an initial state.                                                    *)
EXTENDS FrpEndpoint, TLC

CONSTANTS
    Networks, Capacity, MaxFailures, StopWait,     \* WifiRuntime
    Bad, Burst, MqttRetryWait, MaxLink, MaxQueue   \* MqttOwner, with Keys, NoKey, MaxRev

VARIABLES
    part,
    wifi_config, active, stopping, associated, wifi_ready, connecting, wifi_retry_in,
    stop_in, failures, state, wifi_pc, events, overflow, station, interface,
    owed,                                                        \* WifiRuntime
    mqtt_config, mqtt_revision, mqtt_network, mqtt_pc, taken, runtime, management_key,
    configured, started, ready, failed, network_ready, retry_in, session, queue,
    unacked, link, announced, torn, executed                         \* MqttOwner

\* Wi-Fi and MQTT come with the theorems about them.
Wifi == INSTANCE WifiRuntimeProofs WITH
    config <- wifi_config, ready <- wifi_ready, retry_in <- wifi_retry_in, pc <- wifi_pc,
    queue <- events, link <- station, network <- interface

Mqtt == INSTANCE MqttOwnerProofs WITH
    RetryWait <- MqttRetryWait,
    config <- mqtt_config, network <- mqtt_network, pc <- mqtt_pc

ASSUME OwnersAssumption ==
    Wifi!WifiRuntimeAssumption /\ Mqtt!MqttAssumption

wifiVars == <<wifi_config, active, stopping, associated, wifi_ready, connecting,
              wifi_retry_in, stop_in, failures, state, wifi_pc, events, overflow, station,
              interface, owed>>
mqttVars == <<mqtt_config, mqtt_revision, mqtt_network, mqtt_pc, taken, runtime,
              management_key, configured, started, ready, failed, network_ready, retry_in,
              session, queue, unacked, link, announced, torn, executed>>
MCvars == <<part, vars, wifiVars, mqttVars>>

MCInit ==
    /\ part \in {"frp", "wifi", "mqtt"}
    /\ Init /\ Wifi!Init /\ Mqtt!Init
    /\ part # "frp" => config = [rev |-> 1, key |-> NoKey]
    /\ part # "mqtt" => mqtt_config = [rev |-> 1, key |-> NoKey]

restOfFrp == <<part, wifiVars, mqttVars>>
restOfWifi == <<part, vars, mqttVars>>
restOfMqtt == <<part, vars, wifiVars>>

MCNext ==
    \/ part = "frp" /\ Next /\ UNCHANGED restOfFrp
    \/ part = "wifi" /\ Wifi!Next /\ UNCHANGED restOfWifi
    \/ part = "mqtt" /\ Mqtt!Next /\ UNCHANGED restOfMqtt

\* The fairness of each part, of its own steps.
WorkerStops == WorkerEnds /\ \E c \in client : c.worker = "stopping"

MCSpec ==
    /\ MCInit /\ [][MCNext]_MCvars
    /\ WF_MCvars(part = "frp" /\ ControlStep /\ UNCHANGED restOfFrp)
    /\ WF_MCvars(part = "frp" /\ WorkerStops /\ UNCHANGED restOfFrp)
    /\ WF_MCvars(part = "wifi" /\ Wifi!Poll /\ UNCHANGED restOfWifi)
    /\ SF_MCvars(part = "wifi" /\ Wifi!Tick /\ UNCHANGED restOfWifi)
    /\ WF_MCvars(part = "mqtt" /\ Mqtt!OwnerStep /\ UNCHANGED restOfMqtt)

-----------------------------------------------------------------------------

\* Wi-Fi: no stale or lost event leaves a dead link in use (esp_base_wifi.c).
ReadyLagsDriver == Wifi!ReadyLagsDriver

\* Wi-Fi: a station that idles is never forgotten (schedule_retry and its callers).
IdleLinkRetries == Wifi!IdleLinkRetries

\* Wi-Fi: the owner keeps the promises that the control task's model relies on.
ImplementsWifiSelection == Wifi!ImplementsWifiSelection

\* Wi-Fi: a device that stays disconnected tries again and again (poll).
RetryHappens == Wifi!RetryHappens

\* MQTT: a command has the key in force and the announced connection (poll).
CommandsCurrent == Mqtt!CommandsCurrent

\* MQTT: no session runs unknown to its owner (configure).
SessionsOwned == Mqtt!SessionsOwned

\* MQTT: no fault of the link is overlooked (poll).
ReadyLagsQueue == Mqtt!ReadyLagsQueue

\* MQTT: loss of the network ends the session (poll).
NetworkLossStops == Mqtt!NetworkLossStops

\* FRP: every revision is served in the end (control_task, lines 570-579); the
\* other parts leave the endpoint alone.
EveryRevisionServed == part = "frp" => RevisionServed
=============================================================================
