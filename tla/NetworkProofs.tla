---------------------------- MODULE NetworkProofs ---------------------------
(***************************************************************************)
(* The device's links.  The reconfiguration of the FRP endpoint, for any   *)
(* keys, limits and any number of revisions: no old key stays reachable,   *)
(* and no old client lives beside a new listener.  The composition         *)
(* MCNetwork, into which what WifiRuntimeProofs and MqttOwnerProofs show   *)
(* of their owners carries over.                                           *)
(***************************************************************************)
EXTENDS MCNetwork, TLAPS

\* What the listener serves is the configuration in force.
Current == endpoint \subseteq {config} /\ \A c \in conn : c.rev = config.rev

Connections == [age : Nat, left : Nat, calls : Nat, rev : Nat]
Clients == [rev : Nat, worker : {"running", "stopping", "ended"}]

Records ==
    /\ config \in Configurations
    /\ conn \subseteq Connections /\ client \subseteq Clients
    /\ endpoint \subseteq Configurations

\* The strengthening: a remembered revision is never ahead of the configuration, the
\* listener is current whenever that revision is the one in force, and an open
\* listener has the owner's configuration, from which every client came.
Strong ==
    /\ Records
    /\ \A r \in frp_revision : r \in Nat /\ r <= config.rev
    /\ frp_revision = {config.rev} \/ pc # "config" => Current
    /\ endpoint # {} => owned = endpoint
    /\ OneConfiguration

LEMMA StrongInit == Init => Strong
<1> SUFFICES ASSUME Init
             PROVE  Strong
  OBVIOUS
<1>1. Records /\ Current /\ OneConfiguration
  BY DEF Init, Records, Current, OneConfiguration
<1>2. frp_revision = {} /\ endpoint = {}
  BY DEF Init
<1> QED
  BY <1>1, <1>2 DEF Strong

\* A poll makes of a connection at most the same connection in another state.
LEMMA ServedKeeps ==
  ASSUME NEW c \in Connections, NEW cs \in Served(c), NEW d \in cs
  PROVE  d \in Connections /\ d.rev = c.rev
<1>1. \A e \in AfterReceive(c) : e \in Connections /\ e.rev = c.rev
  <2> DEFINE answered == [c EXCEPT !.left = Chunks]
             handled  == [c EXCEPT !.left = Chunks, !.calls = c.calls + 1]
  <2>1. answered \in Connections /\ answered.rev = c.rev
    BY FrpAssumption DEF Connections
  <2>2. c.calls + 1 \in Nat
    BY DEF Connections
  <2>3. handled \in Connections /\ handled.rev = c.rev
    BY <2>2, FrpAssumption DEF Connections
  <2> HIDE DEF answered, handled
  <2>4. AfterReceive(c) \subseteq {c, answered, handled}
    BY DEF AfterReceive, Received, answered, handled
  <2> QED
    BY <2>1, <2>3, <2>4
<1>2. \A e \in UNION {Sent(r) : r \in AfterReceive(c)} :
        e \in Connections /\ e.rev = c.rev
  <2>1. SUFFICES ASSUME NEW r \in AfterReceive(c), NEW e \in Sent(r)
                 PROVE  e \in Connections /\ e.rev = c.rev
    OBVIOUS
  <2>2. r \in Connections /\ r.rev = c.rev
    BY <1>1
  <2>3. PICK n \in 0 .. r.left : e = [r EXCEPT !.left = n]
    BY DEF Sent
  <2>4. n \in Nat
    BY <2>2 DEF Connections
  <2> QED
    BY <2>2, <2>3, <2>4 DEF Connections
<1> QED
  BY <1>1, <1>2 DEF Served

\* What is left of a client is the same client, stopping.
LEMMA DestroyKeeps ==
  ASSUME NEW cs \in SUBSET Clients, NEW d \in AfterDestroy(cs)
  PROVE  d \in Clients /\ \E c \in cs : d.rev = c.rev
<1>1. PICK c \in cs : d = [c EXCEPT !.worker = "stopping"]
  BY DEF AfterDestroy
<1> QED
  BY <1>1 DEF Clients

\* A step that only touches clients, each a successor of an older one.
LEMMA ClientsOnly ==
  ASSUME Strong,
         UNCHANGED <<config, frp_revision, endpoint, conn, owned>>,
         pc # "config" \/ UNCHANGED pc,
         \A d \in client' : d \in Clients /\ \E c \in client : d.rev = c.rev
  PROVE  Strong'
  BY DEF Strong, Records, Current, OneConfiguration

LEMMA StrongStep == Strong /\ [Next]_vars => Strong'
<1> SUFFICES ASSUME Strong, [Next]_vars
             PROVE  Strong'
  OBVIOUS
<1>1. CASE CommitConfiguration
  <2>1. /\ config' \in Configurations /\ config'.rev = config.rev + 1
        /\ config.rev \in Nat
    BY <1>1, FrpAssumption DEF CommitConfiguration, Configurations, Strong, Records
  <2>2. frp_revision # {config'.rev}
    BY <1>1, <2>1 DEF CommitConfiguration, Strong
  <2> QED
    BY <1>1, <2>1, <2>2
    DEF CommitConfiguration, listenerVars, ownerVars, Strong, Records, OneConfiguration
<1>2. CASE NetworkChanges
  BY <1>2 DEF NetworkChanges, listenerVars, ownerVars, Strong, Records, Current,
              OneConfiguration
<1>3. CASE WorkerEnds
  <2>1. \A d \in client' : d \in Clients /\ \E c \in client : d.rev = c.rev
    <3>1. PICK c \in client : client' = {[c EXCEPT !.worker = "ended"]}
      BY <1>3 DEF WorkerEnds
    <3>2. c \in Clients
      BY DEF Strong, Records
    <3> QED
      BY <3>1, <3>2 DEF Clients
  <2> QED
    BY <1>3, <2>1, ClientsOnly DEF WorkerEnds, taskVars, listenerVars
<1>4. CASE Reconfigure
  <2>1. conn' = {} /\ config' = config /\ config \in Configurations /\ config.rev \in Nat
    BY <1>4 DEF Reconfigure, Strong, Records, Configurations
  <2>2. \A d \in client' : d \in Clients
    BY <1>4, DestroyKeeps DEF Reconfigure, Strong, Records
  <2>3. CASE client' = {}
    <3>1. owned' = endpoint' /\ frp_revision' = {config.rev}
      BY <1>4, <2>3 DEF Reconfigure
    <3>2. endpoint' \subseteq {config}
      BY <1>4, <2>3 DEF Reconfigure, Configured
    <3>3. Records'
      BY <2>1, <2>3, <3>2 DEF Records
    <3>4. Current' /\ OneConfiguration'
      BY <2>1, <2>3, <3>2 DEF Current, OneConfiguration
    <3> QED
      BY <2>1, <3>1, <3>3, <3>4 DEF Strong
  <2>4. CASE client' # {}
    BY <1>4, <2>1, <2>2, <2>4
    DEF Reconfigure, Strong, Records, Current, OneConfiguration
  <2> QED
    BY <2>3, <2>4
<1>5. CASE SameRevision
  BY <1>5 DEF SameRevision, taskVars, listenerVars, ownerVars, Strong, Records, Current,
              OneConfiguration
<1>6. CASE BindFails \/ NotListening \/ AcceptFails
  BY <1>6 DEF BindFails, NotListening, AcceptFails, taskVars, listenerVars, ownerVars,
              Strong, Records, Current, OneConfiguration
<1>7. CASE Serve
  <2>1. Current
    BY <1>7 DEF Serve, Strong
  <2>2. \A c \in IF conn = {} THEN Accepted ELSE conn :
          c \in Connections /\ c.rev = config.rev
    BY <2>1 DEF Accepted, Current, Strong, Records, Connections, Configurations
  <2>3. \A d \in conn' : d \in Connections /\ d.rev = config.rev
    BY <1>7, <2>2, ServedKeeps DEF Serve
  <2> QED
    BY <1>7, <2>1, <2>3
    DEF Serve, taskVars, ownerVars, Strong, Records, Current, OneConfiguration
<1>8. CASE PollGated
  <2>1. \A d \in client' : d \in Clients /\ \E c \in client : d.rev = c.rev
    BY <1>8, DestroyKeeps DEF PollGated, Strong, Records
  <2> QED
    BY <1>8, <2>1, ClientsOnly DEF PollGated, taskVars, listenerVars
<1>9. CASE PollWaits
  <2>1. \A d \in client' : d \in Clients /\ \E c \in client : d.rev = c.rev
    BY <1>9, DestroyKeeps DEF PollWaits, StillThere, Strong, Records
  <2> QED
    BY <1>9, <2>1, ClientsOnly DEF PollWaits, taskVars, listenerVars
<1>10. CASE PollCreates
  <2>1. owned = endpoint /\ endpoint \subseteq Configurations /\ Current
    BY <1>10 DEF PollCreates, Gates, Strong, Records
  <2>2. \A d \in client' : d \in Clients /\ d.rev = config.rev
    BY <1>10, <2>1 DEF PollCreates, NewClient, Clients, Configurations, Current
  <2> QED
    BY <1>10, <2>1, <2>2
    DEF PollCreates, taskVars, listenerVars, Strong, Records, Current, OneConfiguration
<1>11. CASE NextPass
  <2>1. \A c \in conn' : c \in Connections /\ \E d \in conn : c.rev = d.rev
    <3>1. PICK n \in {1, 2} :
            conn' = {[c EXCEPT !.age = Total - Less(Total, c.age + n)] : c \in conn}
      BY <1>11 DEF NextPass
    <3>2. \A c \in conn : Total - Less(Total, c.age + n) \in Nat
      BY FrpAssumption DEF Strong, Records, Connections, Less
    <3> QED
      BY <3>1, <3>2 DEF Strong, Records, Connections
  <2> QED
    BY <1>11, <2>1 DEF NextPass, taskVars, Strong, Records, Current, OneConfiguration
<1>12. CASE UNCHANGED vars
  BY <1>12 DEF vars, taskVars, listenerVars, ownerVars, Strong, Records, Current,
               OneConfiguration
<1> QED
  BY <1>1, <1>2, <1>3, <1>4, <1>5, <1>6, <1>7, <1>8, <1>9, <1>10, <1>11, <1>12
  DEF Next, ControlStep

\* From the moment a pass has seen a new revision no request is served under an
\* older key, however long the old worker takes (control_task, lines 571-572).
THEOREM OldKeyRevoked == Spec => []NoStaleKey
<1>1. Strong => NoStaleKey
  BY DEF Strong, Current, NoStaleKey
<1> QED
  BY StrongInit, StrongStep, <1>1, PTL DEF Spec

\* No client of another configuration lives beside an open listener
\* (control_task, lines 570-579, with frp_owner.c).
THEOREM OldClientGone == Spec => []OneConfiguration
<1>1. Strong => OneConfiguration
  BY DEF Strong
<1> QED
  BY StrongInit, StrongStep, <1>1, PTL DEF Spec

-----------------------------------------------------------------------------
(* The three owners side by side.  A behaviour of the composition is one of   *)
(* each owner: it takes that owner's steps or leaves its variables alone, so  *)
(* what is proved of an owner holds in the composition.                       *)

LEMMA WifiInside == MCSpec => Wifi!Spec
<1>1. MCInit => Wifi!Init
  BY DEF MCInit
<1>2. [MCNext]_MCvars => [Wifi!Next]_(Wifi!vars)
  <2>1. CASE UNCHANGED wifiVars
    BY <2>1 DEF wifiVars, Wifi!vars, Wifi!flags, Wifi!events, Wifi!driver
  <2>2. CASE Wifi!Next
    BY <2>2
  <2> QED
    BY <2>1, <2>2 DEF MCNext, MCvars, restOfFrp, restOfMqtt
<1> QED
  BY <1>1, <1>2, PTL DEF MCSpec, Wifi!Spec

LEMMA MqttInside == MCSpec => Mqtt!Spec
<1>1. MCInit => Mqtt!Init
  BY DEF MCInit
<1>2. [MCNext]_MCvars => [Mqtt!Next]_(Mqtt!vars)
  <2>1. CASE UNCHANGED mqttVars
    BY <2>1 DEF mqttVars, Mqtt!vars, Mqtt!taskVars, Mqtt!pollVars, Mqtt!ownerVars,
       Mqtt!setup, Mqtt!emqttVars
  <2>2. CASE Mqtt!Next
    BY <2>2
  <2> QED
    BY <2>1, <2>2 DEF MCNext, MCvars, restOfFrp, restOfWifi
<1> QED
  BY <1>1, <1>2, PTL DEF MCSpec, Mqtt!Spec

\* The Wi-Fi owner never holds a link for usable that the driver no longer has unless the
\* report of its loss waits or the queue has overflowed (event_handler and poll in
\* esp_base_wifi.c).
THEOREM NoDeadLinkInUse == MCSpec => []ReadyLagsDriver
<1>1. Wifi!Spec => []Wifi!ReadyLagsDriver
  BY Wifi!NoDeadLink
<1> QED
  BY <1>1, WifiInside, PTL DEF ReadyLagsDriver

\* A started station at rest is never forgotten: a retry is armed, or an event or a noted
\* overflow will move it (schedule_retry and its callers in esp_base_wifi.c).
THEOREM NoStationForgotten == MCSpec => []IdleLinkRetries
<1>1. Wifi!Spec => []Wifi!IdleLinkRetries
  BY Wifi!NeverStranded
<1> QED
  BY <1>1, WifiInside, PTL DEF IdleLinkRetries

\* The event-driven Wi-Fi owner takes no step that the control task's view of it does not
\* allow (esp_base_wifi.c against its use in esp_base_protocol.c).
THEOREM WifiKeepsPromise == MCSpec => ImplementsWifiSelection
<1>1. Wifi!Spec => Wifi!ImplementsWifiSelection
  BY Wifi!KeepsSelection
<1> QED
  BY <1>1, WifiInside, PTL DEF ImplementsWifiSelection

\* Every command that reaches its handler has the key in force and came over the
\* connection last announced, or over the one after a session that was stopped between
\* the two looks at its state (poll in mqtt_owner.c).
THEOREM CommandsAreCurrent == MCSpec => []CommandsCurrent
<1>1. Mqtt!Spec => []Mqtt!CommandsCurrent
  BY Mqtt!NoStaleCommand
<1> QED
  BY <1>1, MqttInside, PTL DEF CommandsCurrent

\* No MQTT session runs that an owner in order did not start from the configuration last
\* handed over (configure in mqtt_owner.c).
THEOREM SessionsAreOwned == MCSpec => []SessionsOwned
<1>1. Mqtt!Spec => []Mqtt!SessionsOwned
  BY Mqtt!NoUnownedSession
<1> QED
  BY <1>1, MqttInside, PTL DEF SessionsOwned

\* The MQTT owner believes in a lost subscription only while an event that makes it look
\* again waits, or after a stop between the two looks at a failing session (poll in
\* mqtt_owner.c).
THEOREM FaultsAreNoticed == MCSpec => []ReadyLagsQueue
<1>1. Mqtt!Spec => []Mqtt!ReadyLagsQueue
  BY Mqtt!LossIsNoticed
<1> QED
  BY <1>1, MqttInside, PTL DEF ReadyLagsQueue
=============================================================================
