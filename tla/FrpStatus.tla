------------------------------ MODULE FrpStatus -----------------------------
(***************************************************************************)
(* handle_frp_status of the control task: the table of answered status     *)
(* requests that makes a repeated request harmless.  Requests have passed  *)
(* the parser; a request names the device and boot it is meant for.        *)
(***************************************************************************)
EXTENDS Naturals, FiniteSetsExt

CONSTANTS
    Ids,       \* request identifiers
    NoId,      \* the identifier of a slot never used
    Statuses,  \* what snapshot() may read
    SlotCount, \* FRP_STATUS_REPLAY_SLOTS
    Window,    \* EBASE_REQUEST_WINDOW_MS
    MaxNow     \* bound: ticks of uptime

ASSUME StatusAssumption ==
    /\ NoId \notin Ids /\ Statuses # {}
    /\ SlotCount \in Nat \ {0} /\ Window \in Nat /\ MaxNow \in Nat

VARIABLES
    now,    \* uptime_ms
    slots,  \* s_frp_status_seen
    reply   \* the last reply: {} or {[request, status]}; {} is a refusal

vars == <<now, slots, reply>>

Slots == 1 .. SlotCount
Targets == {"here", "wrong_device", "wrong_boot"}

Requests == [id : Ids, target : Targets, expires : 0 .. MaxNow + Window + 1]

Init ==
    /\ now = 0
    /\ slots \in [Slots -> {[id |-> NoId, expires |-> 0, status |-> s] : s \in Statuses}]
    /\ reply = {}

\* The slots that may be reused.
Free == {i \in Slots : slots[i].expires <= now}

\* The slots that hold this identifier and whose deadline is not over.
Matching(r) == {i \in Slots \ Free : slots[i].id = r.id}

Same(r, i) == r.target = "here" /\ r.expires = slots[i].expires

\* The checks that a request of a new identifier passes; the first that fails gives
\* the error code (wrong_device, wrong_boot, expired, invalid_deadline).
Valid(r) ==
    /\ r.target = "here"
    /\ r.expires > now
    /\ r.expires - now <= Window

\* The same request again: the answer of the first time.
Cached(r) ==
    \E i \in Matching(r) :
        /\ Same(r, i)
        /\ Valid(r)
        /\ reply' = {[request |-> r, status |-> slots[i].status]}
        /\ UNCHANGED <<now, slots>>

\* Mutant: when the table is full the first slot is reused.
StoreOver(r) ==
    /\ Matching(r) = {} /\ Valid(r)
    /\ \E s \in Statuses :
          /\ slots' = [slots EXCEPT ![IF Free = {} THEN 1 ELSE Min(Free)] =
                          [id |-> r.id, expires |-> r.expires, status |-> s]]
          /\ reply' = {[request |-> r, status |-> s]}
    /\ UNCHANGED now

\* A new request: the first free slot keeps its answer.
Store(r) ==
    /\ Matching(r) = {} /\ Valid(r) /\ Free # {}
    /\ \E s \in Statuses :
          /\ slots' = [slots EXCEPT ![Min(Free)] =
                          [id |-> r.id, expires |-> r.expires, status |-> s]]
          /\ reply' = {[request |-> r, status |-> s]}
    /\ UNCHANGED now

\* request_conflict, one of Valid's errors, or capacity_exceeded.
Refused(r) ==
    /\ \/ \E i \in Matching(r) : ~(Same(r, i) /\ Valid(r))
       \/ Matching(r) = {} /\ (~Valid(r) \/ Free = {})
    /\ reply' = {}
    /\ UNCHANGED <<now, slots>>

Tick ==
    /\ now < MaxNow
    /\ now' = now + 1
    /\ UNCHANGED <<slots, reply>>

Next == Tick \/ \E r \in Requests : Cached(r) \/ Store(r) \/ Refused(r)

Spec == Init /\ [][Next]_vars

-----------------------------------------------------------------------------

Held == [id : Ids \cup {NoId}, expires : 0 .. MaxNow + Window, status : Statuses]

\* Types.
TypeOK ==
    /\ now \in 0 .. MaxNow
    /\ slots \in [Slots -> Held]
    /\ reply \in {{}} \cup {{a} : a \in [request : Requests, status : Statuses]}

\* No identifier holds two slots before its deadline: the search of the table, which
\* stops at the first slot that matches, sees all there is (lines 158-170).
OneSlotPerId ==
    \A i, j \in Slots \ Free : slots[i].id = slots[j].id => i = j

Here(request) ==
    [id |-> request.id, here |-> request.target = "here", expires |-> request.expires]

Answers == INSTANCE StatusAnswers WITH
    remembered <- [id \in Ids |->
        {[expires |-> slots[i].expires, status |-> slots[i].status] :
            i \in {j \in Slots \ Free : slots[j].id = id}}],
    reply <- {[request |-> Here(a.request), status |-> a.status] : a \in reply}

\* The table keeps the promise of the endpoint: a repeated request is answered with
\* the status of the first answer until the deadline, whatever other requests came
\* and went between, and an identifier is not taken for another request before
\* (handle_frp_status with its table of fixed size).
AnswersOnce == Answers!Init /\ [][Answers!Next]_(Answers!vars)
=============================================================================
