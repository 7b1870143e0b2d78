---------------------------- MODULE StorageOwner ----------------------------
(***************************************************************************)
(* The storage owner of esp_base_storage_owner.c, one action per atomic    *)
(* access, so that the steps of claim and release calls made by different  *)
(* tasks interleave as they do on the device.  A claim object is private   *)
(* to the task that passes it, so its two plain fields are written in one  *)
(* step; its owner field is non-null exactly when its token is not zero.   *)
(***************************************************************************)
EXTENDS Naturals

CONSTANTS
    Claimants,  \* the claim objects in use (boot task, OTA, container adapter)
    Nobody,     \* not a claimant: stands for "no holder" in the refinement
    UintMax     \* UINT_MAX, the value reserved while a claim is being made

ASSUME UintMaxAssumption == UintMax \in Nat /\ UintMax >= 2
ASSUME NobodyAssumption == Nobody \notin Claimants

VARIABLES
    next_token,    \* owner->next_token
    active_token,  \* owner->active_token
    claim,         \* claim[c]: the token in the claim object, 0 when empty
    previous,      \* previous[c]: the local of an unfinished claim call
    pc,            \* pc[c]: the next atomic access of the call in progress
    result,        \* result[c]: what the last finished call returned
    granted        \* history: every token a claim call has returned

vars == <<next_token, active_token, claim, previous, pc, result, granted>>

Tokens == 1 .. (UintMax - 1)

PCs == {"idle", "load", "give_up", "store_next", "publish", "adopt", "clear"}

TypeOK ==
    /\ next_token \in 0 .. (UintMax - 1)
    /\ active_token \in 0 .. UintMax
    /\ claim \in [Claimants -> 0 .. (UintMax - 1)]
    /\ previous \in [Claimants -> 0 .. (UintMax - 1)]
    /\ pc \in [Claimants -> PCs]
    /\ result \in [Claimants -> {"none", "true", "false"}]
    /\ granted \subseteq Tokens

Init ==
    /\ next_token = 0
    /\ active_token = 0
    /\ claim = [c \in Claimants |-> 0]
    /\ previous = [c \in Claimants |-> 0]
    /\ pc = [c \in Claimants |-> "idle"]
    /\ result = [c \in Claimants |-> "none"]
    /\ granted = {}

-----------------------------------------------------------------------------
(* esp_base_storage_claim *)

Return(c, value) ==
    /\ pc' = [pc EXCEPT ![c] = "idle"]
    /\ result' = [result EXCEPT ![c] = value]

\* The call is refused before any atomic access: the claim object is in use.
ClaimInUse(c) ==
    /\ pc[c] = "idle"
    /\ claim[c] # 0
    /\ Return(c, "false")
    /\ UNCHANGED <<next_token, active_token, claim, previous, granted>>

\* compare_exchange(active_token: 0 -> UINT_MAX)
ClaimReserve(c) ==
    /\ pc[c] = "idle"
    /\ claim[c] = 0
    /\ IF active_token = 0
       THEN /\ active_token' = UintMax
            /\ pc' = [pc EXCEPT ![c] = "load"]
            /\ UNCHANGED result
       ELSE /\ Return(c, "false")
            /\ UNCHANGED active_token
    /\ UNCHANGED <<next_token, claim, previous, granted>>

ClaimLoad(c) ==
    /\ pc[c] = "load"
    /\ previous' = [previous EXCEPT ![c] = next_token]
    /\ pc' = [pc EXCEPT ![c] = IF next_token >= UintMax - 1 THEN "give_up" ELSE "store_next"]
    /\ UNCHANGED <<next_token, active_token, claim, result, granted>>

\* Mutant: an exhausted owner returns without withdrawing its reservation.
ClaimGiveUpKeepsReservation(c) ==
    /\ pc[c] = "give_up"
    /\ Return(c, "false")
    /\ UNCHANGED <<next_token, active_token, claim, previous, granted>>

\* Every token has been spent: withdraw the reservation.
ClaimGiveUp(c) ==
    /\ pc[c] = "give_up"
    /\ active_token' = 0
    /\ Return(c, "false")
    /\ UNCHANGED <<next_token, claim, previous, granted>>

ClaimStoreNext(c) ==
    /\ pc[c] = "store_next"
    /\ next_token' = previous[c] + 1
    /\ pc' = [pc EXCEPT ![c] = "publish"]
    /\ UNCHANGED <<active_token, claim, previous, result, granted>>

ClaimPublish(c) ==
    /\ pc[c] = "publish"
    /\ active_token' = previous[c] + 1
    /\ pc' = [pc EXCEPT ![c] = "adopt"]
    /\ UNCHANGED <<next_token, claim, previous, result, granted>>

ClaimAdopt(c) ==
    /\ pc[c] = "adopt"
    /\ claim' = [claim EXCEPT ![c] = previous[c] + 1]
    /\ granted' = granted \cup {previous[c] + 1}
    /\ Return(c, "true")
    /\ UNCHANGED <<next_token, active_token, previous>>

-----------------------------------------------------------------------------
(* esp_base_storage_release *)

\* An empty claim object is refused.
ReleaseEmpty(c) ==
    /\ pc[c] = "idle"
    /\ claim[c] = 0
    /\ Return(c, "false")
    /\ UNCHANGED <<next_token, active_token, claim, previous, granted>>

\* compare_exchange(active_token: token -> 0)
Release(c) ==
    /\ pc[c] = "idle"
    /\ claim[c] # 0
    /\ IF active_token = claim[c]
       THEN /\ active_token' = 0
            /\ pc' = [pc EXCEPT ![c] = "clear"]
            /\ UNCHANGED result
       ELSE /\ Return(c, "false")
            /\ UNCHANGED active_token
    /\ UNCHANGED <<next_token, claim, previous, granted>>

ReleaseClear(c) ==
    /\ pc[c] = "clear"
    /\ claim' = [claim EXCEPT ![c] = 0]
    /\ Return(c, "true")
    /\ UNCHANGED <<next_token, active_token, previous, granted>>

\* Mutant: a release with any token the owner once granted frees it.
ReleaseStaleUnchecked(token) ==
    /\ active_token' = IF token # UintMax THEN 0 ELSE active_token
    /\ UNCHANGED <<next_token, claim, previous, pc, result, granted>>

\* A release through an outdated copy of a claim (its token was granted once
\* and is in no claim object now) or through a forged claim that carries the
\* reserved value: the situations of storage_owner_test.c.
ReleaseStale(token) ==
    /\ active_token' = IF token # UintMax /\ active_token = token THEN 0 ELSE active_token
    /\ UNCHANGED <<next_token, claim, previous, pc, result, granted>>

StaleTokens == {UintMax} \cup {t \in granted : \A c \in Claimants : claim[c] # t}

-----------------------------------------------------------------------------

Call(c) ==
    \/ ClaimInUse(c) \/ ClaimReserve(c)
    \/ ReleaseEmpty(c) \/ Release(c)

\* The steps that finish a call already begun.
Continue(c) ==
    \/ ClaimLoad(c) \/ ClaimGiveUp(c) \/ ClaimStoreNext(c)
    \/ ClaimPublish(c) \/ ClaimAdopt(c) \/ ReleaseClear(c)

Next ==
    \/ \E c \in Claimants : Call(c) \/ Continue(c)
    \/ \E t \in StaleTokens : ReleaseStale(t)

Spec == Init /\ [][Next]_vars

\* A task that has entered a call is scheduled until the call returns; nobody
\* is obliged to call.
FairSpec == Spec /\ \A c \in Claimants : WF_vars(Continue(c))

-----------------------------------------------------------------------------
(* Properties *)

\* c is making a claim, or owns one.
Inside(c) ==
    \/ pc[c] \in {"load", "give_up", "store_next", "publish", "adopt"}
    \/ pc[c] = "idle" /\ claim[c] # 0

\* At most one claim object is inside at any moment: between the reservation
\* of active_token and the compare-exchange of the release no second claim call
\* succeeds (header: "One owner for Base app/otadata changes and product
\* package operations").
MutualExclusion ==
    \A c, d \in Claimants : Inside(c) /\ Inside(d) => c = d

\* active_token always says who is inside: it is zero exactly when nobody is,
\* reserved while the claim is being made and the holder's own token afterwards,
\* so a holder's release can never be refused.
ActiveTokenAccurate ==
    /\ (active_token = 0) <=> (\A c \in Claimants : ~Inside(c))
    /\ \A c \in Claimants :
         /\ pc[c] \in {"load", "give_up", "store_next", "publish"} => active_token = UintMax
         /\ pc[c] = "adopt" => active_token = previous[c] + 1
         /\ pc[c] = "idle" /\ claim[c] # 0 => active_token = claim[c]

\* A token is granted once in a boot and the reserved value never is (comment
\* "Never wrap or publish the reserved value as a claim").
TokensUnique ==
    [][\A c \in Claimants :
         claim'[c] # claim[c] /\ claim'[c] # 0
           => claim'[c] \notin granted /\ claim'[c] < UintMax]_vars

\* Only the task that is inside frees the owner: a release through an outdated
\* copy or a forged claim never takes the storage from the current holder.
OnlyHolderFrees ==
    [][active_token # 0 /\ active_token' = 0
         => \E c \in Claimants : Inside(c) /\ pc'[c] # pc[c]]_vars

\* The reserved value is transient: a claim call always publishes a token or
\* withdraws, also when the counter is exhausted.
ReservationResolves == (active_token = UintMax) ~> (active_token # UintMax)

-----------------------------------------------------------------------------
(* Refinement of ExclusiveClaim *)

AbstractHolder ==
    IF \E c \in Claimants : Inside(c) THEN CHOOSE c \in Claimants : Inside(c) ELSE Nobody

AbstractCurrent ==
    IF \E c \in Claimants :
         \/ pc[c] \in {"publish", "adopt"}
         \/ pc[c] = "idle" /\ claim[c] # 0
    THEN next_token ELSE 0

Abstract == INSTANCE ExclusiveClaim WITH
    Limit <- UintMax - 1, holder <- AbstractHolder,
    last <- next_token, current <- AbstractCurrent

\* The atomic accesses implement the exclusive claim.
ImplementsExclusiveClaim == Abstract!Spec
=============================================================================
