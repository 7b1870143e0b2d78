----------------------------- MODULE FrpEndpoint ----------------------------
(***************************************************************************)
(* The FRP part of the control task's pass: the loopback status listener   *)
(* (frp_status_listener.c), the owner of the FRP client (frp_owner.c) and  *)
(* the order in which the pass reconfigures and polls them.  The worker of *)
(* the client library efrp (external) ends in its own time.  Sockets are   *)
(* non-blocking, so what the peer of a connection does is a choice of the  *)
(* poll that meets it; a poll that receives a part of a request changes    *)
(* nothing that matters here.  A request is verified with s_key, so the    *)
(* configuration of `endpoint' tells which key it was signed with.         *)
(* s_error, s_endpoint_ready and s_network_ready only feed the snapshot    *)
(* and are left out.  While a boot awaits verification the pass changes    *)
(* nothing here, so the model begins when that is over.                    *)
(*                                                                         *)
(* Assumed of efrp, from its use here and in the owner's test: destroy     *)
(* with timeout 0 asks a worker to stop and fails until it has ended.      *)
(***************************************************************************)
EXTENDS Naturals

CONSTANTS
    Keys,       \* management keys
    NoKey,      \* the key of a configuration without FRP
    Total,      \* ticks a connection may last (FRP_HTTP_TOTAL_MS)
    RetryWait,  \* ticks before binding or creating is tried again
    Chunks,     \* sends a response may need
    MaxRev      \* bound: configuration revisions

ASSUME FrpAssumption ==
    /\ NoKey \notin Keys
    /\ Total \in Nat \ {0} /\ RetryWait \in Nat
    /\ Chunks \in Nat \ {0} /\ MaxRev \in Nat

VARIABLES
    \* the control task
    config,        \* s_context.config: its revision and FRP management key
    frp_revision,  \* s_frp_revision: {} until set, then {revision}
    network,       \* Wi-Fi and trusted time
    pc,            \* where the task is in its pass
    \* frp_status_listener.c
    endpoint,      \* s_configured and s_key: {} or {the configuration}
    listening,     \* s_listener >= 0
    bind_in,       \* ticks until its s_retry_at_ms
    conn,          \* s_client: {} or {connection}
    \* frp_owner.c
    owned,         \* s_config: {} or {the configuration}
    client,        \* s_client: {} or {[rev, worker]}
    draining, reconfiguring,
    create_in      \* ticks until its s_retry_at_ms

taskVars == <<config, frp_revision, network>>
listenerVars == <<endpoint, listening, bind_in, conn>>
ownerVars == <<owned, client, draining, reconfiguring, create_in>>

vars == <<taskVars, pc, listenerVars, ownerVars>>

Configurations == [rev : 1 .. MaxRev, key : Keys \cup {NoKey}]

Init ==
    /\ config \in Configurations
    /\ frp_revision = {}
    /\ network = FALSE
    /\ pc = "config"
    /\ endpoint = {} /\ listening = FALSE /\ bind_in = 0 /\ conn = {}
    /\ owned = {} /\ client = {}
    /\ draining = FALSE /\ reconfiguring = FALSE /\ create_in = 0

-----------------------------------------------------------------------------
(* What happens around the FRP part of a pass *)

CommitConfiguration ==
    /\ pc = "config"
    /\ config.rev < MaxRev
    /\ \E key \in Keys \cup {NoKey} : config' = [rev |-> config.rev + 1, key |-> key]
    /\ UNCHANGED <<frp_revision, network, pc, listenerVars, ownerVars>>

NetworkChanges ==
    /\ network' = ~network
    /\ UNCHANGED <<config, frp_revision, pc, listenerVars, ownerVars>>

\* The worker ends after it was asked to, or gives up by itself (external).
WorkerEnds ==
    /\ \E c \in client :
          /\ c.worker # "ended"
          /\ client' = {[c EXCEPT !.worker = "ended"]}
    /\ UNCHANGED <<taskVars, pc, listenerVars, owned, draining, reconfiguring, create_in>>

-----------------------------------------------------------------------------
(* Reconfiguration *)

\* release_client: what is left of the client after destroy with timeout 0.
AfterDestroy(cs) == {[c EXCEPT !.worker = "stopping"] : c \in {d \in cs : d.worker # "ended"}}

Configured(c) == {d \in {c} : d.key # NoKey}

\* Mutant: the listener stays as it is until the owner is ready for the change.
ReconfigureListenerLast ==
    /\ pc = "config"
    /\ frp_revision # {config.rev}
    /\ client' = AfterDestroy(client)
    /\ draining' = (client' # {}) /\ reconfiguring' = draining'
    /\ bind_in' = 0
    /\ \/ /\ client' = {}
          /\ owned' = Configured(config) /\ create_in' = 0
          /\ endpoint' = Configured(config) /\ listening' = FALSE /\ conn' = {}
          /\ frp_revision' = {config.rev}
       \/ client' # {} /\ UNCHANGED <<owned, create_in, frp_revision, endpoint, listening, conn>>
    /\ pc' = "listen"
    /\ UNCHANGED <<config, network>>

\* Mutant: the revision is remembered although the owner could not take it.
ReconfigureOnce ==
    /\ pc = "config"
    /\ frp_revision # {config.rev}
    /\ listening' = FALSE /\ conn' = {} /\ bind_in' = 0
    /\ client' = AfterDestroy(client)
    /\ draining' = (client' # {}) /\ reconfiguring' = draining'
    /\ frp_revision' = {config.rev}
    /\ \/ /\ client' = {}
          /\ owned' = Configured(config) /\ create_in' = 0
          /\ endpoint' = Configured(config)
       \/ client' # {} /\ endpoint' = {} /\ UNCHANGED <<owned, create_in>>
    /\ pc' = "listen"
    /\ UNCHANGED <<config, network>>

\* Mutant: the listener has the new key while the old client still drains.
ReconfigureListenerFirst ==
    /\ pc = "config"
    /\ frp_revision # {config.rev}
    /\ listening' = FALSE /\ conn' = {} /\ bind_in' = 0
    /\ client' = AfterDestroy(client)
    /\ draining' = (client' # {}) /\ reconfiguring' = draining'
    /\ endpoint' = Configured(config)
    /\ \/ /\ client' = {}
          /\ owned' = Configured(config) /\ create_in' = 0
          /\ frp_revision' = {config.rev}
       \/ client' # {} /\ UNCHANGED <<owned, create_in, frp_revision>>
    /\ pc' = "listen"
    /\ UNCHANGED <<config, network>>

\* A new revision: the listener is revoked first, and configured again when the old
\* client is gone; until then every pass tries again.
Reconfigure ==
    /\ pc = "config"
    /\ frp_revision # {config.rev}
    /\ listening' = FALSE /\ conn' = {} /\ bind_in' = 0
    /\ client' = AfterDestroy(client)
    /\ draining' = (client' # {}) /\ reconfiguring' = draining'
    /\ \/ /\ client' = {}
          /\ owned' = Configured(config) /\ create_in' = 0
          /\ endpoint' = Configured(config)
          /\ frp_revision' = {config.rev}
       \/ client' # {} /\ endpoint' = {} /\ UNCHANGED <<owned, create_in, frp_revision>>
    /\ pc' = "listen"
    /\ UNCHANGED <<config, network>>

SameRevision ==
    /\ pc = "config"
    /\ frp_revision = {config.rev}
    /\ pc' = "listen"
    /\ UNCHANGED <<taskVars, listenerVars, ownerVars>>

-----------------------------------------------------------------------------
(* The listener's poll *)

\* bind_listener fails.
BindFails ==
    /\ pc = "listen"
    /\ endpoint # {} /\ ~listening /\ bind_in = 0
    /\ bind_in' = RetryWait
    /\ pc' = "own"
    /\ UNCHANGED <<taskVars, endpoint, listening, conn, ownerVars>>

NotListening ==
    /\ pc = "listen"
    /\ ~listening
    /\ endpoint = {} \/ bind_in > 0
    /\ pc' = "own"
    /\ UNCHANGED <<taskVars, listenerVars, ownerVars>>

\* The listener listens, or bind_listener makes it.
Bound == listening \/ (endpoint # {} /\ bind_in = 0)

\* accept fails: the listener is closed.  This happens without a connection only.
AcceptFails ==
    /\ pc = "listen" /\ Bound
    /\ conn = {}
    /\ listening' = FALSE
    /\ bind_in' = RetryWait
    /\ pc' = "own"
    /\ UNCHANGED <<taskVars, endpoint, conn, ownerVars>>

\* A connection accepted in this poll: no response yet, no call of the handler.
Accepted == [age : {0}, left : {0}, calls : {0}, rev : {e.rev : e \in endpoint}]

\* receive_request: nothing complete yet; a wrong frame or a request that does not
\* verify, which gets an empty response; or one that the handler answers.
Received(c) ==
    {c, [c EXCEPT !.left = Chunks],
        [c EXCEPT !.left = Chunks, !.calls = c.calls + 1]}

\* send: a part of what is left, or nothing now.
Sent(c) == {[c EXCEPT !.left = n] : n \in 0 .. c.left}

AfterReceive(c) == IF c.left = 0 THEN Received(c) ELSE {c}

\* Mutant: the time limit is only for connections without a response.
TimeOverUnanswered(c) == c.age >= Total /\ c.left = 0

TimeOver(c) == c.age >= Total

\* What a poll makes of a connection: closed when its time is over, by the peer, by
\* an error or after the whole response; still receiving; or still sending.
Served(c) ==
    IF TimeOver(c) THEN {{}}
    ELSE {{}}
         \cup {{r} : r \in {d \in AfterReceive(c) : d.left = 0}}
         \cup {{s} : s \in {d \in UNION {Sent(r) : r \in AfterReceive(c)} : d.left > 0}}

Serve ==
    /\ pc = "listen" /\ Bound
    /\ listening' = TRUE
    /\ \E c \in IF conn = {} THEN Accepted ELSE conn : conn' \in Served(c)
    /\ pc' = "own"
    /\ UNCHANGED <<taskVars, endpoint, bind_in, ownerVars>>

-----------------------------------------------------------------------------
(* The owner's poll *)

\* Everything a client needs; `listening` is esp_base_frp_status_listener_ready.
Gates == ~reconfiguring /\ owned # {} /\ network /\ endpoint # {} /\ listening

\* Without the gates the client is released, in as many passes as it takes.
PollGated ==
    /\ pc = "own"
    /\ ~Gates
    /\ client' = AfterDestroy(client)
    /\ draining' = (client' # {})
    /\ pc' = "delay"
    /\ UNCHANGED <<taskVars, listenerVars, owned, reconfiguring, create_in>>

\* With the gates a draining client is still released first.
StillThere == IF draining THEN AfterDestroy(client) ELSE client

PollWaits ==
    /\ pc = "own"
    /\ Gates
    /\ StillThere # {} \/ create_in > 0
    /\ client' = StillThere
    /\ draining' = (draining /\ client' # {})
    /\ pc' = "delay"
    /\ UNCHANGED <<taskVars, listenerVars, owned, reconfiguring, create_in>>

NewClient(state) == {[rev |-> o.rev, worker |-> state] : o \in owned}

\* A client is created and started; or what there is of it is destroyed again, at once
\* or, if the destroy has to wait too, in the passes to come.
PollCreates ==
    /\ pc = "own"
    /\ Gates
    /\ StillThere = {} /\ create_in = 0
    /\ \/ /\ client' = NewClient("running") /\ draining' = FALSE
          /\ UNCHANGED create_in
       \/ /\ client' \in {{}, NewClient("stopping")} /\ draining' = (client' # {})
          /\ create_in' = RetryWait
    /\ pc' = "delay"
    /\ UNCHANGED <<taskVars, listenerVars, owned, reconfiguring>>

\* vTaskDelay and the rest of the pass: the next pass reads a later clock.
Less(n, d) == IF n > d THEN n - d ELSE 0

NextPass ==
    /\ pc = "delay"
    /\ \E d \in {1, 2} :
          /\ bind_in' = Less(bind_in, d)
          /\ create_in' = Less(create_in, d)
          /\ conn' = {[c EXCEPT !.age = Total - Less(Total, c.age + d)] : c \in conn}
    /\ pc' = "config"
    /\ UNCHANGED <<taskVars, endpoint, listening, owned, client, draining, reconfiguring>>

ControlStep ==
    \/ Reconfigure \/ SameRevision
    \/ BindFails \/ NotListening \/ AcceptFails \/ Serve
    \/ PollGated \/ PollWaits \/ PollCreates
    \/ NextPass

Next ==
    \/ CommitConfiguration \/ NetworkChanges \/ WorkerEnds
    \/ ControlStep

Spec == Init /\ [][Next]_vars

\* The control task runs, and a worker that was asked to stop ends.
FairSpec ==
    /\ Spec
    /\ WF_vars(ControlStep)
    /\ WF_vars(WorkerEnds /\ \E c \in client : c.worker = "stopping")

-----------------------------------------------------------------------------

\* From the moment a pass has seen a new revision, no request is received or
\* answered under an older key or on a connection of the older listener, however
\* long the old worker takes to end ("no stale management key remains reachable",
\* control_task, lines 571-572).
NoStaleKey ==
    pc # "config" =>
        /\ endpoint \subseteq {config}
        /\ \A c \in conn : c.rev = config.rev

\* The listener of a revision is opened only when the client of every older one is
\* gone, and a client only ever runs from the configuration of the open listener:
\* no request meets a worker of another configuration (control_task, lines 570-579).
OneConfiguration ==
    \A e \in endpoint : \A c \in client : c.rev = e.rev

\* Every revision is served in the end, whatever the old client was doing, even
\* though the first attempts fail: owner and listener have it (lines 570-579).
RevisionServed ==
    []<>(owned = Configured(config) /\ endpoint = Configured(config)
         /\ frp_revision = {config.rev})

\* The only connection slot is freed whatever its peer does: a peer that sends or
\* reads slowly does not keep the endpoint (FRP_HTTP_TOTAL_MS).
SlotFreed == conn # {} ~> conn = {}
=============================================================================
