---------------------------- MODULE WifiSelection ---------------------------
(***************************************************************************)
(* The Wi-Fi owner as the control task sees it, esp_base_wifi.c: which     *)
(* network is selected, whether the driver is running or being stopped,    *)
(* and the reported state.  The retry timer, the back-off and the event    *)
(* queue are in WifiRuntime, which is checked to implement this view; a    *)
(* poll applies one driver event at a time, and the 2-second stop          *)
(* deadline, shorter than the clock tick of DeviceControl, may pass at any *)
(* poll while a stop is outstanding.                                       *)
(***************************************************************************)
EXTENDS RemoteConfig

WifiStates == {"unconfigured", "connecting", "connected", "disconnected", "failed"}

\* The statics before esp_base_wifi_start, and after a start that failed.
WifiOff == [initialized |-> FALSE, config |-> NoNetwork, active |-> FALSE,
            stopping |-> FALSE, ready |-> FALSE, state |-> "unconfigured"]

Failed(w) == [w EXCEPT !.state = "failed", !.ready = FALSE]

\* start_selected: set_config or start of the driver may fail.
StartSelected(w) ==
    LET v == [w EXCEPT !.ready = FALSE]
    IN  IF v.config = NoNetwork
        THEN {[ok |-> TRUE, wifi |-> [v EXCEPT !.state = "unconfigured"]]}
        ELSE {[ok |-> TRUE, wifi |-> [v EXCEPT !.active = TRUE, !.state = "connecting"]],
              [ok |-> FALSE, wifi |-> Failed(v)]}

\* esp_base_wifi_apply: every answer it can give and the state it leaves.
WifiApply(w, network) ==
    LET v == [w EXCEPT !.config = network, !.ready = FALSE]
    IN  IF ~w.initialized THEN {[ok |-> FALSE, wifi |-> w]}
        ELSE IF w.stopping THEN {[ok |-> TRUE, wifi |-> v]}
        ELSE IF ~w.active THEN StartSelected(v)
        ELSE {[ok |-> TRUE, wifi |-> [v EXCEPT !.stopping = TRUE, !.state = "connecting"]],
              [ok |-> FALSE, wifi |-> Failed(v)]}
             \cup StartSelected([v EXCEPT !.active = FALSE])

\* esp_base_wifi_start: a failed initialization, or the stored selection applied.
WifiStart(network) ==
    {Failed(WifiOff)}
    \cup {a.wifi : a \in WifiApply([WifiOff EXCEPT !.initialized = TRUE], network)}

\* Driver events a poll can take from its queue (external driver).
Stopped(w) ==
    LET v == [w EXCEPT !.active = FALSE, !.stopping = FALSE, !.ready = FALSE]
    IN  IF ~w.stopping THEN {}
        ELSE IF w.state = "failed" THEN {v}
        ELSE {a.wifi : a \in StartSelected(v)}

StopTimedOut(w) == IF w.stopping THEN {Failed(w)} ELSE {}

\* The queue overflowed: no event is trusted any more.  It may overflow while a poll
\* drains it, so that the owner learns of it when it is no longer active.
Overflowed(w) == {Failed(w)}

GotAddress(w) ==
    IF w.active /\ ~w.stopping /\ w.state # "failed"
    THEN {[w EXCEPT !.ready = TRUE, !.state = "connected"]} ELSE {}

Disconnected(w) ==
    IF w.active /\ ~w.stopping /\ w.state # "failed"
    THEN {[w EXCEPT !.ready = FALSE, !.state = "disconnected"]} ELSE {}

\* DHCP lost the address; the driver is told to disconnect (when it refuses, a
\* retry is scheduled as for a disconnection).
LostAddress(w) ==
    IF w.active /\ ~w.stopping /\ w.state # "failed" THEN {[w EXCEPT !.ready = FALSE]} ELSE {}

\* The retry timer of a lost connection fires and the driver accepts a connect.
Reconnecting(w) ==
    IF w.active /\ ~w.stopping /\ w.state = "disconnected"
    THEN {[w EXCEPT !.state = "connecting"]} ELSE {}

\* esp_base_wifi_poll, one event.
WifiPoll(w) ==
    IF ~w.initialized THEN {}
    ELSE Stopped(w) \cup StopTimedOut(w) \cup Overflowed(w)
         \cup GotAddress(w) \cup Disconnected(w) \cup LostAddress(w)
         \cup Reconnecting(w)

\* esp_base_wifi_ready
WifiReady(w) == w.ready /\ ~w.stopping
=============================================================================
