---------------------------- MODULE ContainerBinding -------------------------
(***************************************************************************)
(* The firmware set that the container adapter acts on: observing the two  *)
(* slots (esp_base_ota_firmware.c), mapping the set, the container's       *)
(* operation and the second observation, all under the claim that startup  *)
(* and OTA also take (esp_base_container_binding.c, esp_base_main.c,       *)
(* esp_base_protocol.c).  That a claim excludes the others is what         *)
(* StorageOwner shows; here it is the variable holder.                     *)
(*                                                                         *)
(* Flash, otadata, the boot loader, the verification of signatures and the *)
(* container's operation are external.  An image is its digest; Forged is  *)
(* whatever does not verify, and a foreign image verifies (its signature   *)
(* is good) but belongs to another product or chip.  Every call into them  *)
(* may fail.                                                               *)
(***************************************************************************)
EXTENDS Naturals, FiniteSets

CONSTANTS
    BaseImages,     \* digests of signed images of this product
    ForeignImages,  \* digests of signed images of another product
    MaxBoots        \* bound of the model: restarts

Forged == "unverifiable"

ContainerBindingAssumption ==
    /\ BaseImages \cap ForeignImages = {}
    /\ Forged \notin BaseImages \cup ForeignImages
    /\ BaseImages # {} /\ MaxBoots \in Nat

Slots == {0, 1}
Signed == BaseImages \cup ForeignImages
EntryStates == {"valid", "untracked", "invalid", "aborted", "new", "pending"}

VARIABLES
    image, entry,   \* per slot: what flash holds, what otadata says of it
    running, boot,  \* the slot that runs, the slot that is selected
    holder,         \* who holds the storage claim
    stage,          \* where esp_base_container_with_firmware_set is
    step,           \* where the observation under way is
    seen,           \* its first look at the slots
    set, again,     \* the sets observed before and after the operation
    outcome,        \* the result so far
    decision,       \* what reconcile hands to its caller
    bound,          \* history: the bootable images that an operation ran for, until
                    \* its outcome is known; {} when there is none
    boots

flash == <<image, entry, boot>>
observation == <<step, seen, set, again>>
answer == <<outcome, decision>>
vars == <<flash, running, holder, stage, observation, answer, bound, boots>>

NoSet == [running |-> Forged, bootable |-> {}]
Target == 1 - running

\* The digests the boot loader could start, its fallback scan included.
Bootable == {image[slot] : slot \in Slots} \cap Signed

Here == [running |-> running, boot |-> boot, entry |-> entry]

Init ==
    /\ running \in Slots /\ boot = running
    /\ image \in [Slots -> Signed \cup {Forged}] /\ image[running] \in Signed
    /\ entry \in [Slots -> EntryStates \ {"new"}]
    /\ entry[running] \in {"valid", "pending", "untracked"}
    /\ entry[1 - running] # "pending"
    /\ holder = "boot"
    /\ stage = "idle" /\ step = "none" /\ seen = Here
    /\ set = NoSet /\ again = NoSet
    /\ outcome = "none" /\ decision = "blocked" /\ bound = {} /\ boots = 0

-----------------------------------------------------------------------------
(* Startup and OTA, the other two holders *)

\* Startup ends: a pending image has been confirmed before the claim is given
\* back, and startup that fails keeps it (no step).
BootReady ==
    /\ holder = "boot"
    /\ holder' = "nobody"
    /\ entry' = IF entry[running] = "pending" THEN [entry EXCEPT ![running] = "valid"]
                ELSE entry
    /\ UNCHANGED <<image, boot, running, stage, observation, answer, bound, boots>>

OtaClaims ==
    /\ holder = "nobody"
    /\ holder' = "ota"
    /\ UNCHANGED <<flash, running, stage, observation, answer, bound, boots>>

\* Preparing erases the target, with or without its entry, and writes it piece
\* by piece.
OtaErases ==
    /\ holder = "ota" /\ boot = running
    /\ image' = [image EXCEPT ![Target] = Forged]
    /\ entry' \in {entry, [entry EXCEPT ![Target] = "invalid"],
                   [entry EXCEPT ![Target] = "untracked"]}
    /\ UNCHANGED <<boot, running, holder, stage, observation, answer, bound, boots>>

OtaWrites ==
    /\ holder = "ota" /\ boot = running /\ image[Target] = Forged
    /\ \E digest \in Signed : image' = [image EXCEPT ![Target] = digest]
    /\ UNCHANGED <<entry, boot, running, holder, stage, observation, answer, bound, boots>>

OtaSelects ==
    /\ holder = "ota" /\ boot = running /\ image[Target] \in BaseImages
    /\ entry' = [entry EXCEPT ![Target] = "new"]
    /\ boot' = Target
    /\ UNCHANGED <<image, running, holder, stage, observation, answer, bound, boots>>

\* A failure that was recorded gives the claim back.
OtaFails ==
    /\ holder = "ota" /\ boot = running
    /\ holder' = "nobody"
    /\ UNCHANGED <<flash, running, stage, observation, answer, bound, boots>>

\* The device restarts, wanted or not.  The boot loader starts the selected
\* slot, a new one as pending; a slot still pending is given up for the other.
Restart ==
    /\ boots < MaxBoots
    /\ boots' = boots + 1
    /\ LET given == entry[boot] = "pending"
           next == IF given THEN 1 - boot ELSE boot
       IN /\ image[next] \in Signed
          /\ running' = next /\ boot' = next
          /\ entry' = IF given THEN [entry EXCEPT ![boot] = "aborted"]
                      ELSE IF entry[boot] = "new" THEN [entry EXCEPT ![boot] = "pending"]
                      ELSE entry
    /\ holder' = "boot"
    /\ stage' = "idle" /\ step' = "none"
    /\ seen' = [running |-> running', boot |-> boot', entry |-> entry']
    /\ set' = NoSet /\ again' = NoSet
    /\ outcome' = "none" /\ decision' = "blocked" /\ bound' = {}
    /\ UNCHANGED image

-----------------------------------------------------------------------------
(* esp_base_ota_observe_firmware_set, once before and once after *)

Observing == stage \in {"before", "after"}

\* The result of an observation, taken by with_firmware_set.
Observed(what) ==
    \/ /\ stage = "before"
       /\ stage' = "mapped" /\ set' = what /\ UNCHANGED again
    \/ /\ stage = "after"
       /\ stage' = "leave" /\ again' = what /\ UNCHANGED set

\* Any failed call, any slot that is not settled: no set.
Unsure ==
    /\ Observing
    /\ step' = "none"
    /\ Observed(NoSet)
    /\ UNCHANGED <<flash, running, holder, seen, answer, bound, boots>>

HasRollback == seen.entry[1 - seen.running] = "valid"

LookFirst ==
    /\ Observing /\ step = "slots"
    /\ running = boot /\ entry[running] = "valid"
    /\ entry[Target] \in {"valid", "untracked", "invalid", "aborted"}
    /\ seen' = Here
    /\ step' = "running"
    /\ UNCHANGED <<flash, running, holder, stage, set, again, answer, bound, boots>>

\* matching_base_image
Matching(digest) == digest \in BaseImages

VerifyRunning ==
    /\ Observing /\ step = "running"
    /\ image[seen.running] \in Signed /\ Matching(image[seen.running])
    /\ step' = "target"
    /\ UNCHANGED <<flash, running, holder, stage, seen, set, again, answer, bound, boots>>

\* Mutant: without a rollback image the target is not read.
VerifyTargetSkips ==
    /\ Observing /\ step = "target"
    /\ HasRollback => Matching(image[1 - seen.running])
    /\ step' = "again"
    /\ UNCHANGED <<flash, running, holder, stage, seen, set, again, answer, bound, boots>>

\* A target that can be rolled back to is a Base image; any other does not
\* verify, for the boot loader's fallback might start it.
VerifyTarget ==
    /\ Observing /\ step = "target"
    /\ IF HasRollback THEN Matching(image[1 - seen.running])
       ELSE image[1 - seen.running] \notin Signed
    /\ step' = "again"
    /\ UNCHANGED <<flash, running, holder, stage, seen, set, again, answer, bound, boots>>

\* same_slots; two slots with one image are one member.
LookAgain ==
    /\ Observing /\ step = "again"
    /\ Here = seen
    /\ step' = "none"
    /\ Observed([running |-> image[seen.running],
                 bootable |-> {image[seen.running]} \cup
                              (IF HasRollback THEN {image[1 - seen.running]} ELSE {})])
    /\ UNCHANGED <<flash, running, holder, seen, answer, bound, boots>>

-----------------------------------------------------------------------------
(* esp_base_container_with_firmware_set, called by esp_base_container_reconcile *)

Reconcile ==
    /\ stage = "idle"
    /\ decision' = "blocked"
    /\ IF holder = "nobody"
       THEN /\ holder' = "container"
            /\ stage' = "before" /\ step' = "slots" /\ outcome' = "uncertain"
            /\ set' = NoSet /\ again' = NoSet
       ELSE /\ outcome' = "busy"
            /\ UNCHANGED <<holder, stage, step, set, again>>
    /\ UNCHANGED <<flash, running, seen, bound, boots>>

\* map_firmware_set takes every set that an observation yields; the operation
\* may store its record and still report that it does not know.
Operate ==
    /\ stage = "mapped" /\ set # NoSet
    /\ bound' = Bootable
    /\ \E result \in {"ok", "refused", "uncertain"} :
          /\ outcome' = result
          /\ decision' = IF result = "ok" THEN "boot" ELSE "blocked"
    /\ stage' = "after" /\ step' = "slots"
    /\ UNCHANGED <<flash, running, holder, seen, set, again, boots>>

OperateNot ==
    /\ stage = "mapped" /\ set = NoSet
    /\ stage' = "leave"
    /\ UNCHANGED <<flash, running, holder, observation, answer, bound, boots>>

Known == outcome # "uncertain" /\ set = again

\* Mutant: the claim is given back whatever came out.
LeaveReleases ==
    /\ stage = "leave"
    /\ stage' = "idle" /\ holder' = "nobody"
    /\ IF set = NoSet \/ ~ Known
       THEN outcome' = "uncertain" /\ decision' = "blocked"
       ELSE UNCHANGED answer
    /\ bound' = IF Known THEN {} ELSE bound
    /\ UNCHANGED <<flash, running, observation, boots>>

\* An operation that has run and whose outcome is not known keeps the claim
\* until the device restarts.
Leave ==
    /\ stage = "leave"
    /\ stage' = "idle"
    /\ IF set = NoSet \/ ~ Known
       THEN outcome' = "uncertain" /\ decision' = "blocked"
       ELSE UNCHANGED answer
    /\ holder' = IF set # NoSet /\ ~ Known THEN holder ELSE "nobody"
    /\ bound' = IF Known THEN {} ELSE bound
    /\ UNCHANGED <<flash, running, observation, boots>>

Next ==
    \/ BootReady \/ OtaClaims \/ OtaErases \/ OtaWrites \/ OtaSelects \/ OtaFails
    \/ Restart
    \/ Unsure \/ LookFirst \/ VerifyRunning \/ VerifyTarget \/ LookAgain
    \/ Reconcile \/ Operate \/ OperateNot \/ Leave

Spec == Init /\ [][Next]_vars

-----------------------------------------------------------------------------
(* Properties *)

\* While the operation has a set, that set is the truth: its first member
\* runs, its members are all that the boot loader could start, its fallback
\* scan included, and each is an image of this product (esp_base_ota_firmware.h:
\* "the complete set of independently bootable signed Base images").
SetIsComplete ==
    stage \in {"mapped", "after"} /\ set # NoSet =>
        /\ set.running = image[running]
        /\ set.bootable = Bootable
        /\ Bootable \subseteq BaseImages

\* After an operation whose outcome is not known, nothing that can be booted
\* changes before the restart, and nobody is told to start the package: the
\* record it may have left names the firmware that is still there.
UnknownFreezes ==
    bound # {} /\ stage = "idle" =>
        Bootable = bound /\ decision = "blocked"
=============================================================================
