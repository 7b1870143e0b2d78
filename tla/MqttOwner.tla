------------------------------ MODULE MqttOwner -----------------------------
(***************************************************************************)
(* The MQTT session of the device: mqtt_owner.c, polled in the control     *)
(* task's pass, and the client library emqtt (external), whose own task    *)
(* moves the connection and queues events while the owner runs.  The owner *)
(* takes one event per step, and an ERROR, after which it reads the state  *)
(* of the session twice, in two; between two steps the link may do         *)
(* anything.  While a boot awaits verification the pass changes nothing    *)
(* here, so the model begins when that is over.                            *)
(*                                                                         *)
(* Assumed of emqtt, from its use here and in the owner's test: a stop or  *)
(* destroy that succeeds ends the session and drops the queued events, one *)
(* that fails changes nothing; a start that fails leaves it stopped; the   *)
(* state of the session changes together with the event that tells of it;  *)
(* and a session, also one that is ready, may be given up with an ERROR.   *)
(***************************************************************************)
EXTENDS Naturals, Sequences

CONSTANTS
    Keys,       \* management keys
    NoKey,      \* the key of a configuration without MQTT; the wiped key
    Bad,        \* the signer of a message that no key verifies
    Burst,      \* events taken in one poll (8 in the code)
    RetryWait,  \* ticks before the session is started again
    MaxRev,     \* bound: configuration revisions
    MaxLink,    \* bound: connections dialled
    MaxQueue    \* bound: events that wait

MqttAssumption ==
    /\ NoKey \notin Keys /\ Bad \notin Keys /\ Bad # NoKey
    /\ Burst \in Nat \ {0} /\ RetryWait \in Nat
    /\ MaxRev \in Nat /\ MaxLink \in Nat /\ MaxQueue \in Nat

VARIABLES
    \* the control task
    config,         \* s_context.config: its revision and MQTT management key
    mqtt_revision,  \* s_mqtt_revision: {} until set, then {revision}
    network,        \* Wi-Fi and trusted time, as esp_base_*_ready tell
    pc, taken,      \* where the task is in a pass; events taken in this poll
    \* mqtt_owner.c
    runtime,        \* s_runtime: {} or {the revision it was created for}
    management_key, \* s_management_key
    configured, started, ready, failed, network_ready,
    retry_in,       \* ticks until s_retry_after_ms
    \* emqtt
    session,        \* emqtt_state
    queue,          \* events for emqtt_poll
    unacked,        \* a publication waits for its acknowledgement
    \* history
    link,           \* connections dialled so far
    announced,      \* the connection on which `online` was last published
    torn,           \* the last connection stopped while the owner stayed ready
    executed        \* the command dispatched by the last step of the owner

taskVars == <<config, mqtt_revision, network>>
pollVars == <<pc, taken>>
setup == <<runtime, management_key, configured>>
ownerVars == <<setup, started, ready, failed, network_ready, retry_in>>
emqttVars == <<session, queue, unacked>>

vars == <<taskVars, pollVars, ownerVars, emqttVars, link, announced, torn,
          executed>>

Configurations == [rev : 1 .. MaxRev, key : Keys \cup {NoKey}]

Init ==
    /\ config \in Configurations
    /\ mqtt_revision = {}
    /\ network = FALSE
    /\ pc = "pass" /\ taken = 0
    /\ runtime = {} /\ management_key = NoKey
    /\ configured = FALSE /\ started = FALSE /\ ready = FALSE /\ failed = FALSE
    /\ network_ready = FALSE /\ retry_in = 0
    /\ session = "stopped" /\ queue = <<>> /\ unacked = FALSE
    /\ link = 0 /\ announced = 0 /\ torn = 0 /\ executed = {}

-----------------------------------------------------------------------------
(* The control task before it comes to MQTT *)

\* poll_configuration commits a new configuration.
CommitConfiguration ==
    /\ pc = "pass"
    /\ config.rev < MaxRev
    /\ \E key \in Keys \cup {NoKey} : config' = [rev |-> config.rev + 1, key |-> key]
    /\ UNCHANGED <<mqtt_revision, network, pollVars, ownerVars, emqttVars,
                   link, announced, torn, executed>>

NetworkChanges ==
    /\ network' = ~network
    /\ UNCHANGED <<config, mqtt_revision, pollVars, ownerVars, emqttVars,
                   link, announced, torn, executed>>

\* result and reported: published only while the owner is ready.
OwnerReady ==
    /\ configured /\ runtime # {} /\ started /\ ready /\ network_ready /\ ~failed
    /\ session = "ready"

Publish ==
    /\ pc = "pass"
    /\ OwnerReady
    /\ unacked' = TRUE
    /\ UNCHANGED <<taskVars, pollVars, ownerVars, session, queue, link, announced, torn,
                   executed>>

-----------------------------------------------------------------------------
(* configure *)

\* emqtt_destroy failed: the runtime stays and the owner closes.
KeepRuntime ==
    /\ runtime # {}
    /\ failed' = TRUE /\ configured' = FALSE
    /\ management_key' = NoKey
    /\ UNCHANGED <<runtime, started, retry_in, emqttVars>>

\* There is no runtime any more; emqtt_create may fail.
Replace ==
    /\ session' = "stopped" /\ queue' = <<>> /\ unacked' = FALSE
    /\ started' = FALSE /\ retry_in' = 0
    /\ \/ /\ config.key = NoKey
          /\ runtime' = {} /\ management_key' = NoKey
          /\ configured' = FALSE /\ failed' = FALSE
       \/ /\ config.key # NoKey
          /\ runtime' = {config.rev} /\ management_key' = config.key
          /\ configured' = TRUE /\ failed' = FALSE
       \/ /\ config.key # NoKey
          /\ runtime' = {} /\ management_key' = NoKey
          /\ configured' = FALSE /\ failed' = TRUE

\* Mutant: a runtime that cannot be destroyed goes on as before.
ConfigureGoesOn ==
    /\ pc = "pass"
    /\ mqtt_revision # {config.rev}
    /\ mqtt_revision' = {config.rev}
    /\ \/ Replace /\ ready' = FALSE /\ network_ready' = FALSE
       \/ runtime # {} /\ UNCHANGED <<ownerVars, emqttVars>>
    /\ UNCHANGED <<config, network, pollVars, link, announced, torn, executed>>

\* The revision is remembered whether or not the owner took the configuration.
Configure ==
    /\ pc = "pass"
    /\ mqtt_revision # {config.rev}
    /\ mqtt_revision' = {config.rev}
    /\ ready' = FALSE /\ network_ready' = FALSE
    /\ KeepRuntime \/ Replace
    /\ UNCHANGED <<config, network, pollVars, link, announced, torn, executed>>

-----------------------------------------------------------------------------
(* poll *)

\* emqtt_stop ends the session, or fails and leaves the rest of the queue.
StopSession(rest) ==
    \/ /\ session' = "stopped" /\ queue' = <<>> /\ unacked' = FALSE
       /\ started' = FALSE
       /\ UNCHANGED failed
    \/ /\ failed' = TRUE
       /\ queue' = rest
       /\ UNCHANGED <<session, unacked, started>>

PollDue ==
    /\ pc = "pass"
    /\ mqtt_revision = {config.rev}
    /\ configured /\ runtime # {} /\ ~failed

\* Without network the session is stopped.
PollOffline ==
    /\ PollDue
    /\ ~network
    /\ network_ready' = FALSE /\ ready' = FALSE
    /\ \/ started /\ StopSession(queue)
       \/ ~started /\ UNCHANGED <<emqttVars, started, failed>>
    /\ executed' = {}
    /\ UNCHANGED <<taskVars, pollVars, setup, retry_in, link, announced, torn>>

\* With network it is started when the retry delay is over, and then polled.
PollOnline ==
    /\ PollDue
    /\ network
    /\ network_ready' = TRUE
    /\ executed' = {}
    /\ \/ /\ started
          /\ pc' = "events" /\ taken' = 0
          /\ UNCHANGED <<started, retry_in, session, link>>
       \/ /\ ~started /\ retry_in = 0
          /\ link < MaxLink
          /\ session' = "connecting" /\ link' = link + 1
          /\ started' = TRUE
          /\ pc' = "events" /\ taken' = 0
          /\ UNCHANGED retry_in
       \/ /\ ~started /\ retry_in = 0
          /\ retry_in' = RetryWait
          /\ UNCHANGED <<started, session, link, pollVars>>
       \/ /\ ~started /\ retry_in > 0
          /\ UNCHANGED <<started, retry_in, session, link, pollVars>>
    /\ UNCHANGED <<taskVars, setup, ready, failed, queue, unacked, announced, torn>>

-----------------------------------------------------------------------------
(* The event loop of poll: at most Burst events *)

\* Mutant: the loop goes on until the queue is empty.
TakeUnbounded(kind) ==
    /\ pc = "events"
    /\ queue # <<>>
    /\ Head(queue).kind = kind
    /\ taken' = taken

\* The next event is of this kind, and is taken.
Take(kind) ==
    /\ pc = "events" /\ taken < Burst
    /\ queue # <<>>
    /\ Head(queue).kind = kind
    /\ taken' = taken + 1

\* A stop after a fault also starts the retry delay.
StopAfterFault(rest) ==
    /\ StopSession(rest)
    /\ retry_in' = IF session' = "stopped" THEN RetryWait ELSE retry_in

\* SUBACK approved: `online` is published, or the session ends.
TakeReady ==
    /\ Take("READY")
    /\ \/ /\ ready' = TRUE
          /\ announced' = Head(queue).link
          /\ unacked' = TRUE
          /\ queue' = Tail(queue)
          /\ UNCHANGED <<session, started, failed, retry_in>>
       \/ /\ ready' = FALSE
          /\ StopAfterFault(Tail(queue))
          /\ UNCHANGED announced
    /\ executed' = {}
    /\ UNCHANGED <<taskVars, pc, setup, network_ready, link, torn>>

\* Mutant: a lost connection leaves the owner ready.
TakeDisconnectedStaysReady ==
    /\ Take("DISCONNECTED")
    /\ queue' = Tail(queue)
    /\ executed' = {}
    /\ UNCHANGED <<taskVars, pc, ownerVars, session, unacked, link, announced, torn>>

TakeDisconnected ==
    /\ Take("DISCONNECTED")
    /\ ready' = FALSE
    /\ queue' = Tail(queue)
    /\ executed' = {}
    /\ UNCHANGED <<taskVars, pc, setup, started, failed,
                   network_ready, retry_in, session, unacked, link, announced, torn>>

\* A publication expired: the session ends and the poll with it.
TakeDeleted ==
    /\ Take("DELETED")
    /\ ready' = FALSE
    /\ StopAfterFault(Tail(queue))
    /\ pc' = "pass"
    /\ executed' = {}
    /\ UNCHANGED <<taskVars, setup, network_ready, link, announced, torn>>

\* The first look at the session: one that is not ready leaves the owner unready.
TakeError ==
    /\ Take("ERROR")
    /\ ready' = (ready /\ session = "ready")
    /\ queue' = Tail(queue)
    /\ pc' = "error"
    /\ executed' = {}
    /\ UNCHANGED <<taskVars, setup, started, failed, network_ready, retry_in, session,
                   unacked, link, announced, torn>>

\* The second look: one that emqtt gave up is stopped, whatever the first has shown.
StopIfFailed ==
    /\ pc = "error" /\ pc' = "events"
    /\ \/ /\ session = "failed"
          /\ StopAfterFault(queue)
          /\ torn' = IF ready /\ session' = "stopped" THEN link ELSE torn
       \/ /\ session # "failed"
          /\ UNCHANGED <<emqttVars, started, failed, retry_in, torn>>
    /\ executed' = {}
    /\ UNCHANGED <<taskVars, taken, setup, ready, network_ready, link, announced>>

\* Mutant: a message is dispatched whether or not the owner is ready.
TakeMessageUnready ==
    /\ Take("MESSAGE")
    /\ queue' = Tail(queue)
    /\ executed' = {m \in {Head(queue)} : m.key = management_key}
    /\ UNCHANGED <<taskVars, pc, ownerVars, session, unacked, link, announced, torn>>

\* A message is dispatched if the owner is ready and its tag verifies; the command's
\* handler may publish a result.
TakeMessage ==
    /\ Take("MESSAGE")
    /\ queue' = Tail(queue)
    /\ executed' = {m \in {Head(queue)} : ready /\ m.key = management_key}
    /\ unacked' \in {unacked, unacked \/ (executed' # {} /\ OwnerReady)}
    /\ UNCHANGED <<taskVars, pc, ownerVars, session, link, announced, torn>>

\* The queue is empty or the burst is over.
EndPoll ==
    /\ pc = "events"
    /\ taken = Burst \/ queue = <<>>
    /\ pc' = "pass" /\ taken' = 0
    /\ executed' = {}
    /\ UNCHANGED <<taskVars, ownerVars, emqttVars, link, announced, torn>>

TakeEvent ==
    \/ TakeReady \/ TakeDisconnected \/ TakeDeleted \/ TakeMessage
    \/ TakeError \/ StopIfFailed

-----------------------------------------------------------------------------
(* emqtt and the broker (external) *)

Event(kind) == [kind |-> kind, link |-> link, key |-> NoKey]

\* The link goes to a state and tells of it; the bound is on waiting events.
Tells(next, event) ==
    /\ Len(queue) < MaxQueue
    /\ session' = next
    /\ queue' = Append(queue, event)

Subscribed == session = "connecting" /\ Tells("ready", Event("READY")) /\ UNCHANGED unacked

\* The client gives the session up: credentials or a subscription are refused.
Fails ==
    /\ session \in {"connecting", "ready", "disconnected"}
    /\ Tells("failed", Event("ERROR"))
    /\ UNCHANGED unacked

Dropped ==
    /\ session \in {"connecting", "ready"}
    /\ Tells("disconnected", Event("DISCONNECTED"))
    /\ UNCHANGED unacked

\* An error of the transport, without a change of state.
Trouble ==
    /\ session \in {"connecting", "ready", "disconnected"}
    /\ Tells(session, Event("ERROR"))
    /\ UNCHANGED unacked

\* A message may also come before the subscription is acknowledged.
Deliver ==
    /\ session \in {"connecting", "ready"}
    /\ \E key \in Keys \cup {Bad} :
          Tells(session, [Event("MESSAGE") EXCEPT !.key = key])
    /\ UNCHANGED unacked

Expire ==
    /\ session # "stopped" /\ unacked
    /\ Tells(session, Event("DELETED"))
    /\ unacked' = FALSE

LinkStep ==
    /\ Subscribed \/ Fails \/ Dropped \/ Trouble \/ Deliver \/ Expire
    /\ UNCHANGED <<taskVars, pollVars, ownerVars, link, announced, torn, executed>>

Redial ==
    /\ session = "disconnected"
    /\ link < MaxLink
    /\ session' = "connecting" /\ link' = link + 1
    /\ UNCHANGED <<taskVars, pollVars, ownerVars, queue, unacked,
                   announced, torn, executed>>

\* Time passes, between two passes (a poll is short against the retry delay).
Tick ==
    /\ pc = "pass" /\ retry_in > 0
    /\ retry_in' = retry_in - 1
    /\ UNCHANGED <<taskVars, pollVars, setup, started,
                   ready, failed, network_ready, emqttVars,
                   link, announced, torn, executed>>

OwnerStep == Configure \/ PollOffline \/ PollOnline \/ TakeEvent \/ EndPoll

Next ==
    \/ CommitConfiguration \/ NetworkChanges \/ Publish
    \/ OwnerStep
    \/ LinkStep \/ Redial \/ Tick

Spec == Init /\ [][Next]_vars

\* The control task runs; nothing is assumed of the link, the broker or the clock.
FairSpec == Spec /\ WF_vars(OwnerStep)

-----------------------------------------------------------------------------

\* The owner was ready when it stopped a session, and has announced nothing since.
Overlooked == announced \in 1 .. torn

\* The connection that a ready owner takes itself to be on.
Heard == IF Overlooked THEN torn + 1 ELSE announced

\* A command is dispatched only if it is signed with the key of the configuration
\* in force and came over the connection on which the owner last announced itself;
\* only after a stop that left the owner ready (lines 137-139) over the next one, and
\* over no later: neither an older key nor an older connection reaches the command
\* handler (poll, lines 112-151, with configure).
CommandsCurrent ==
    \A m \in executed : m.key = config.key /\ m.link = Heard

\* What the documents promise: a command of a connection is dispatched only after the
\* SUBACK of that connection has come to the owner (poll, lines 114-118 and 144).
CommandAfterSuback ==
    \A m \in executed : m.link = announced

\* A session never runs unknown to the owner, and one that runs while the owner is
\* in order was created from the configuration that the control task last handed
\* over: whatever fails, an old session does not live on beside a new one.
SessionsOwned ==
    session # "stopped" =>
        \/ failed
        \/ started /\ runtime = mqtt_revision

\* The owner believes in a subscription that is gone only while an event that makes it
\* look again still waits, or after a stop that left it ready (lines 137-139), until the
\* next session is up or fails: no other fault of the link is overlooked, in whatever
\* order faults and events come, not even by an owner that has closed.
ReadyLagsQueue ==
    ready /\ session # "ready" =>
        \/ Overlooked /\ session \in {"stopped", "connecting"}
        \/ \E i \in DOMAIN queue : queue[i].kind \in {"DISCONNECTED", "ERROR"}

\* Loss of Wi-Fi or of trusted time ends the session, however many events the
\* broker sends meanwhile (the bound of the event loop, line 112), unless the
\* network comes back first or the owner has closed.
NetworkLossStops == ~network ~> (network \/ session = "stopped" \/ failed)
=============================================================================
