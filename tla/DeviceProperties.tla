-------------------------- MODULE DeviceProperties --------------------------
(***************************************************************************)
(* What makes DeviceControl correct.                                       *)
(***************************************************************************)
EXTENDS DeviceControl

-----------------------------------------------------------------------------
(* Commands *)

\* A request takes effect at most once, over all boots, however often and in
\* whatever order it is delivered; and two different bodies under one identifier
\* never both take effect in one boot (command_guard.c, boot binding and replay).
ExecutedAtMostOnce ==
    /\ \A r \in Requests : executions[r] <= 1
    /\ \A r, q \in Requests :
         r.id = q.id /\ r.boot = q.boot /\ executions[r] > 0 /\ executions[q] > 0 => r = q

\* Each admitted request has exactly one outcome in the bounded history (handle_line
\* indexes s_outcomes by the slot that ebase_admit returned), and an outcome is "running"
\* exactly while one unfinished trial or download stands behind it: no command
\* stays running for ever after its work is gone, and no work goes unreported.
RunningIsOwned ==
    /\ Len(outcomes) = Len(guard) /\ Len(guard) <= RequestSlots
    /\ \A i \in DOMAIN outcomes :
         (outcomes[i].state = "running")
           <=> (trial.active /\ trial.slot = i) \/ (ota.active /\ ota.slot = i)

-----------------------------------------------------------------------------
(* Configuration and OTA *)

\* A configuration trial and an OTA download never overlap, and neither runs
\* while the boot awaits verification: the gates of handle_line.
ActivitiesExclusive ==
    /\ ~(trial.active /\ ota.active)
    /\ trial.active \/ ota.active => ~pending
    /\ download_active = ota.active

\* Once a configuration was reported "succeeded" no crash, failed write or later
\* trial loses it: the store holds it, or a later revision.
AckedConfigDurable ==
    /\ nvs_config.revision >= acked.revision
    /\ nvs_config.revision = acked.revision => nvs_config = acked

\* The configuration in memory is the stored one unless the device has declared
\* the store uncertain.
MemoryMatchesStore ==
    ControlUp /\ ~config_uncertain => config = nvs_config

\* Outside a trial the Wi-Fi owner is set to the committed selection, whatever
\* sequence of failed trials went before (restore_committed).
SelectionMatchesConfig ==
    ControlUp /\ ~trial.active /\ ~config_uncertain /\ wifi.initialized
      => wifi.config = config.wifi

-----------------------------------------------------------------------------
(* OTA *)

\* As long as the worker can write, the storage claim is held, the control state
\* says a download is active, and the durable receipt names the operation, the
\* image and the slot being written (header: "Commit and exact readback precede
\* the first target-slot write").
WriterIsRegistered ==
    worker \in {"started", "writing", "prepared"} =>
        /\ ota.active
        /\ holder = "ota"
        /\ receipt = [status |-> "prepared", device |-> "self", op |-> ota.op,
                      image |-> ota.image, source |-> running, target |-> Other(running)]

\* An image that is selected but not verified is always the complete image of the
\* latest receipt, in its target slot, with no failure recorded for it: across
\* resets the device can tell which operation it is verifying.
SelectedImageIsAccounted ==
    \A s \in Slots : ota_state[s] \in {"new", "pending_verify"} =>
        /\ receipt.status = "prepared"
        /\ receipt.target = s
        /\ slot_image[s] = receipt.image
        /\ receipt.op \in selected

\* At every moment, also between any two steps of a download, the next reset
\* finds a complete image, and while an image is unverified the slot to fall
\* back to is complete and accepted.
AlwaysBootable ==
    /\ slot_image[running] # Partial
    /\ slot_image[BootsFrom(ota_state, boot_slot)] # Partial
    /\ ota_state[running] \notin {"aborted", "invalid", "new"}
    /\ \A s \in Slots : ota_state[s] \in {"new", "pending_verify"} =>
         /\ slot_image[Other(s)] # Partial
         /\ ota_state[Other(s)] \in {"valid", "undefined"}

Verdict == Evaluate(receipt, ota.active /\ ota.op = receipt.op, Observe(TRUE, TRUE))

\* What ota.result reports as final for the latest operation stays: no later
\* step, reset or rollback turns a success into a failure or back
\* (esp_base_ota_receipt.c, evaluate).
VerdictsAreFinal ==
    [][receipt # NoReceipt /\ receipt' = receipt /\ Verdict.state \in {"succeeded", "failed"}
         => Verdict' = Verdict]_vars

-----------------------------------------------------------------------------
(* Liveness, under Fairness *)

\* A configuration trial ends: committed, restored or cut off by a reset.
TrialEnds == trial.active ~> ~trial.active

\* A download ends: selected and reset, failed, or uncertain, and the command
\* that asked for it does not stay active for ever.
DownloadEnds == ota.active ~> ~ota.active

-----------------------------------------------------------------------------
(* Statements of the documentation that the code does not meet *)

\* "the same ID never downloads twice" (esp_base_ota_receipt.h).
SameIdNeverDownloadsTwice == \A o \in Ops : started[o] <= 1

\* A rollback is reported only for an operation whose image was selected: the
\* state "failed" needs definite evidence (ota_operation/README.md).
RollbackOnlyAfterSelection ==
    receipt # NoReceipt /\ Verdict.error = "ota_rolled_back" => receipt.op \in selected

\* Writes are refused as "storage_uncertain" only after a storage call failed
\* (remote_config/README.md).
UncertainOnlyAfterStorageFault == config_uncertain => storage_fault
=============================================================================
