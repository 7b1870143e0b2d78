------------------------------ MODULE MCStorage ------------------------------
(* What the device keeps and who may write it: the claim object, the firmware   *)
(* set that is observed under a claim, the identity in NVS, and the slot that   *)
(* app_main confirms or rejects.  They share no state, so a behaviour is one of *)
(* a single part, named by `part'; the others stay in an initial state.         *)
EXTENDS StorageOwner, TLC

CONSTANTS
    boot_task, ota_task, container_task,   \* StorageOwner: three claim objects
    BaseImages, ForeignImages, MaxBoots,   \* ContainerBinding
    Names, Bytes,                          \* Identity
    MaxStale, StartTimeout, Window, WindowPoll, ShortPoll, Late, MaxNow   \* PendingBoot

MCClaimants == {boot_task, ota_task, container_task}

VARIABLES
    part,
    image, entry, running, boot, holder, stage, step, seen, set, again,
    outcome, decision, bound, boots,               \* ContainerBinding
    stored, staged, output, id_pc, id_result, told, \* Identity
    now, last_progress, moved, observed, control, stamp, whole, wait, next, loaded,
    wake, since, silence, wholePass                \* PendingBoot

Container == INSTANCE ContainerBinding
Id == INSTANCE Identity WITH pc <- id_pc, result <- id_result

\* The window comes with the theorems about it.
Watch == INSTANCE PendingBootProofs WITH stage <- wait, step <- next, seen <- loaded

ASSUME PartsAssumption ==
    /\ Container!ContainerBindingAssumption /\ Id!IdentityAssumption
    /\ Watch!WindowAssumption /\ Watch!LimitsAssumption

containerVars == <<image, entry, running, boot, holder, stage, step, seen, set, again,
                   outcome, decision, bound, boots>>
identityVars == <<stored, staged, output, id_pc, id_result, told>>
windowVars == <<now, last_progress, moved, observed, control, stamp, whole, wait, next,
                loaded, wake, since, silence, wholePass>>
MCvars == <<part, vars, containerVars, identityVars, windowVars>>

MCInit ==
    /\ part \in {"owner", "container", "identity", "window"}
    /\ Init /\ Container!Init /\ Id!Init /\ Watch!Init
    /\ part # "container" =>
          image = [slot \in {0, 1} |-> "a"] /\ entry = [slot \in {0, 1} |-> "valid"] /\ boot = 0
    /\ part # "identity" => stored = Id!Nothing

restOfOwner == <<part, containerVars, identityVars, windowVars>>
restOfContainer == <<part, vars, identityVars, windowVars>>
restOfIdentity == <<part, vars, containerVars, windowVars>>
restOfWindow == <<part, vars, containerVars, identityVars>>

ContinueOwner(c) == part = "owner" /\ Continue(c) /\ UNCHANGED restOfOwner

MCNext ==
    \/ part = "owner" /\ Next /\ UNCHANGED restOfOwner
    \/ part = "container" /\ Container!Next /\ UNCHANGED restOfContainer
    \/ part = "identity" /\ Id!Next /\ UNCHANGED restOfIdentity
    \/ part = "window" /\ Watch!Next /\ UNCHANGED restOfWindow

\* StorageOwner's fairness; the other parts promise nothing that needs any.
MCSpec ==
    MCInit /\ [][MCNext]_MCvars /\ \A c \in Claimants : WF_MCvars(ContinueOwner(c))

-----------------------------------------------------------------------------

\* The set that the container's operation works with is all that can boot
\* (esp_base_container_binding.c, lines 44-105).
SetIsComplete == Container!SetIsComplete

\* An operation of unknown outcome freezes what can boot (the same, lines 88-105).
UnknownFreezes == Container!UnknownFreezes

\* The device has one identity for life (esp_base_identity.c, lines 40-123).
IdentityStable == Id!IdentityStable

\* A control task that fell silent is not confirmed (app_main, lines 173-211).
ConfirmedOnlyAlive == Watch!ConfirmedOnlyAlive

\* A control task that is quick enough is not rejected (the same).
LiveNotRejected == Watch!LiveNotRejected

\* app_main decides within the sum of its limits (the same).
DecidedInTime == Watch!DecidedInTime
=============================================================================
