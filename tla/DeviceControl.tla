--------------------------- MODULE DeviceControl ----------------------------
(***************************************************************************)
(* One ESP Base device over several boots: the startup sequence of         *)
(* app_main, the control task (write commands, configuration trial, OTA    *)
(* supervision), the OTA worker task, the durable stores and the slots.    *)
(* Actions are the handlers and the steps of the tasks; they interleave    *)
(* freely, and power may be lost between any two of them.  The bootloader, *)
(* the otadata partition and the esp-ota library are external and are      *)
(* modelled from how the sources use them.                                 *)
(***************************************************************************)
EXTENDS CommandGuard, WifiSelection, OtaReceipt

CONSTANTS
    Requests,       \* the write commands the host may send, in any order
    TrialTicks,     \* the 20 s a configuration trial may take, in ticks
    MaxNow,         \* bound: ticks of one boot
    MaxBoots,       \* bound: no power loss in this boot or a later one
    EotaAvailable,  \* eota_available(): the build carries an OTA trust anchor
    FactoryImage,   \* the image the device was flashed with
    FirstConfigs,   \* configurations the store may hold when the model begins
    FirstReceipts   \* receipts the store may hold when the model begins

ASSUME DeviceAssumption ==
    /\ TrialTicks \in Nat
    /\ MaxNow \in Nat
    /\ MaxBoots \in Nat
    /\ EotaAvailable \in BOOLEAN
    /\ FactoryImage \in Images
    /\ FirstConfigs \subseteq Configs
    /\ FirstReceipts \subseteq Receipts \cup {NoReceipt}

VARIABLES
    \* durable
    nvs_config,      \* the configuration blob in NVS
    receipt,         \* the OTA receipt blob in NVS
    slot_image,      \* what each application slot holds
    ota_state,       \* the otadata state of each slot
    boot_slot,       \* the slot otadata selects
    \* volatile: app_main
    boot,            \* the boot identifier
    now,             \* uptime in ticks
    running,         \* the slot this boot runs from
    phase,           \* how far app_main has come
    pending,         \* ota_verification_pending
    holder,          \* who holds the storage owner
    \* volatile: control task
    guard,           \* s_guard, the admitted requests
    outcomes,        \* s_outcomes, by slot
    config,          \* s_context.config
    config_uncertain,\* s_config_uncertain
    boot_uncertain,  \* s_ota_boot_uncertain
    trial,           \* s_trial_active, s_trial_slot, s_candidate, s_trial_deadline
    ota,             \* s_ota_active, s_ota_slot, s_ota_request
    download_active, \* ota_download_active
    wifi,            \* the Wi-Fi owner
    \* volatile: OTA worker
    worker,          \* how far ota_task has come; s_ota_done is set once it is "done"
    worker_result,   \* s_ota_result, which stays until the next worker stores its own
    \* history
    acked,           \* the last configuration reported as "succeeded"
    executions,      \* executions[r]: how often the effect of r was begun
    storage_fault,   \* a storage call failed in this boot
    started,         \* started[op]: how many downloads of op were begun
    selected         \* operations whose image was ever selected for booting

durable == <<nvs_config, receipt, slot_image, ota_state, boot_slot>>
appVars == <<boot, now, running, phase, pending>>
requestVars == <<guard, outcomes>>
controlFlags == <<config, config_uncertain, boot_uncertain>>
workerVars == <<worker, worker_result>>
history == <<acked, executions, storage_fault, started, selected>>

vars == <<durable, appVars, holder, requestVars, controlFlags, trial, ota,
          download_active, wifi, workerVars, history>>

Partial == "partial"   \* a slot whose image is missing or incomplete

ASSUME PartialAssumption == Partial \notin Images

\* What the decoder lets through: one of the three write commands, with a 32-bit
\* revision and a selection, or with an operation and its image (see CommandDecoder).
ASSUME BodiesAssumption ==
    \A r \in Requests :
        /\ r.body.kind \in {"config.set", "ota.start", "restart"}
        /\ r.body.kind = "config.set" => r.body.config \in Configs
        /\ r.body.kind = "ota.start" => r.body.op \in Ops /\ r.body.image \in Images

NoTrial == [active |-> FALSE, slot |-> 0, candidate |-> EmptyConfig, deadline |-> 0]
NoOta == [active |-> FALSE, slot |-> 0, op |-> "none", image |-> "none"]

\* The control task exists: app_main got past esp_base_protocol_start.
ControlUp == phase \notin {"starting", "down"}

-----------------------------------------------------------------------------
(* Slots and boots *)

\* eota_observe_slots and, for the image of the running slot, eota_sha256_running;
\* either may fail.
Observe(ok, digested) ==
    [ok |-> ok, running |-> running, boot |-> boot_slot,
     running_state |-> ota_state[running], target_state |-> ota_state[Other(running)],
     digested |-> digested, running_image |-> slot_image[running]]

\* The bootloader: a new image gets one boot to be verified in; one that was
\* not verified in that boot is given up for the other slot.
BootsFrom(states, slot) ==
    IF states[slot] = "pending_verify" THEN Other(slot) ELSE slot

StatesAfterBoot(states, slot) ==
    CASE states[slot] = "new" -> [states EXCEPT ![slot] = "pending_verify"]
      [] states[slot] = "pending_verify" -> [states EXCEPT ![slot] = "aborted"]
      [] OTHER -> states

\* A reset for any reason, with these otadata contents: every task and every
\* static starts afresh, and app_main claims the storage owner, inspects the
\* running slot and raises the gate when it awaits verification.
Reset(states, slot) ==
    LET slot2 == BootsFrom(states, slot)
        states2 == StatesAfterBoot(states, slot)
    IN  /\ boot_slot' = slot2
        /\ ota_state' = states2
        /\ running' = slot2
        /\ boot' = boot + 1
        /\ now' = 0
        /\ phase' = "starting"
        /\ pending' = (states2[slot2] = "pending_verify")
        /\ holder' = "boot"
        /\ guard' = <<>>
        /\ outcomes' = <<>>
        /\ config' = EmptyConfig
        /\ config_uncertain' = FALSE
        /\ boot_uncertain' = FALSE
        /\ trial' = NoTrial
        /\ ota' = NoOta
        /\ download_active' = FALSE
        /\ wifi' = WifiOff
        /\ worker' = "none"
        /\ worker_result' = "ok"
        /\ storage_fault' = FALSE

Init ==
    /\ nvs_config \in FirstConfigs
    /\ receipt \in FirstReceipts
    /\ slot_image = [s \in Slots |-> IF s = 0 THEN FactoryImage ELSE Partial]
    /\ ota_state \in {[s \in Slots |-> IF s = 0 THEN st ELSE "untracked"] :
                         st \in {"valid", "undefined"}}
    /\ boot_slot = 0
    /\ boot = 1
    /\ now = 0
    /\ running = 0
    /\ phase = "starting"
    /\ pending = FALSE
    /\ holder = "boot"
    /\ guard = <<>>
    /\ outcomes = <<>>
    /\ config = EmptyConfig
    /\ config_uncertain = FALSE
    /\ boot_uncertain = FALSE
    /\ trial = NoTrial
    /\ ota = NoOta
    /\ download_active = FALSE
    /\ wifi = WifiOff
    /\ worker = "none"
    /\ worker_result = "ok"
    /\ acked = nvs_config
    /\ executions = [r \in Requests |-> 0]
    /\ storage_fault = FALSE
    /\ started = [o \in Ops |-> 0]
    /\ selected = {}

-----------------------------------------------------------------------------
(* app_main *)

\* Local checks passed, the stored configuration was read and the control task
\* was created.  A Wi-Fi owner that cannot start does not stop the device.
StartControl ==
    /\ phase = "starting"
    /\ config' = nvs_config
    /\ wifi' \in WifiStart(nvs_config.wifi)
    /\ phase' = IF pending THEN "selftest" ELSE "confirmed"
    /\ UNCHANGED <<durable, boot, now, running, pending, holder, requestVars,
                   config_uncertain, boot_uncertain, trial, ota, download_active,
                   workerVars, history>>

\* A local check failed before the control task existed and the boot cannot be
\* rejected: app_main returns and only a reset helps.
StopBeforeControl ==
    /\ phase = "starting"
    /\ phase' = "down"
    /\ UNCHANGED <<durable, boot, now, running, pending, holder, requestVars,
                   controlFlags, trial, ota, download_active, wifi, workerVars, history>>

\* stop_after_local_failure in a boot that awaits verification: the running
\* slot is marked invalid and the device resets into the other slot.
RejectPending ==
    /\ phase \in {"starting", "selftest"}
    /\ pending
    /\ ota_state[running] = "pending_verify"
    /\ Reset([ota_state EXCEPT ![running] = "invalid"], Other(running))
    /\ UNCHANGED <<nvs_config, receipt, slot_image, acked, executions, started, selected>>

\* The rollback request itself failed and returned: the boot is preserved with
\* the gate raised and the storage claim kept.
RejectFails ==
    /\ phase = "selftest"
    /\ phase' = "stuck"
    /\ UNCHANGED <<durable, boot, now, running, pending, holder, requestVars,
                   controlFlags, trial, ota, download_active, wifi, workerVars, history>>

\* The stability window passed and eota_confirm_pending succeeded.
ConfirmPending ==
    /\ phase = "selftest"
    /\ ota_state' = [ota_state EXCEPT ![running] = "valid"]
    /\ phase' = "confirmed"
    /\ UNCHANGED <<nvs_config, receipt, slot_image, boot_slot, boot, now, running, pending,
                   holder, requestVars, controlFlags, trial, ota, download_active, wifi,
                   workerVars, history>>

\* app_main gives the storage claim back ...
ReleaseBootClaim ==
    /\ phase = "confirmed"
    /\ IF holder = "boot"
       THEN holder' = "free" /\ phase' = "released"
       ELSE UNCHANGED holder /\ phase' = "stuck"
    /\ UNCHANGED <<durable, boot, now, running, pending, requestVars, controlFlags,
                   trial, ota, download_active, wifi, workerVars, history>>

\* ... and only then lowers the gate.
ClearPending ==
    /\ phase = "released"
    /\ pending' = FALSE
    /\ phase' = "ready"
    /\ UNCHANGED <<durable, boot, now, running, holder, requestVars, controlFlags,
                   trial, ota, download_active, wifi, workerVars, history>>

-----------------------------------------------------------------------------
(* Outcomes of admitted requests *)

\* The request takes the next slot of the guard with this first outcome.
Admitted(r, via_mqtt, state, error) ==
    /\ guard' = Append(guard, r)
    /\ outcomes' = Append(outcomes, [state |-> state, error |-> error, via_mqtt |-> via_mqtt])

\* Mutant: an outcome that is already final can be overwritten by another slot.
SaveOutcomeLast(slot, state, error) ==
    /\ outcomes' = [outcomes EXCEPT ![Len(outcomes)] = [@ EXCEPT !.state = state, !.error = error]]
    /\ UNCHANGED guard

\* save_outcome: the route the request came by is kept.
SaveOutcome(slot, state, error) ==
    /\ outcomes' = [outcomes EXCEPT ![slot] = [@ EXCEPT !.state = state, !.error = error]]
    /\ UNCHANGED guard

Executed(r) == executions' = [executions EXCEPT ![r] = @ + 1]

-----------------------------------------------------------------------------
(* handle_line: write commands *)

\* esp_base_control_state_config_write_error
ConfigWriteError ==
    IF pending THEN "ota_verification_pending"
    ELSE IF download_active THEN "ota_in_progress" ELSE "none"

\* Mutant: a running download does not refuse a configuration change.
ConfigRefusalIgnoresOta(candidate, via_mqtt) ==
    IF via_mqtt THEN "physical_usb_required"
    ELSE IF pending THEN "ota_verification_pending"
    ELSE IF boot_uncertain THEN "ota_boot_state_unknown"
    ELSE IF trial.active THEN "configuration_busy"
    ELSE IF config_uncertain THEN "storage_uncertain"
    ELSE IF candidate.revision # config.revision THEN "revision_conflict"
    ELSE IF candidate.revision = MaxRevision THEN "revision_exhausted"
    ELSE "none"

\* Refusals of config.set, in the order of the early returns.
ConfigRefusal(candidate, via_mqtt) ==
    IF via_mqtt THEN "physical_usb_required"
    ELSE IF ConfigWriteError # "none" THEN ConfigWriteError
    ELSE IF ota.active THEN "ota_in_progress"
    ELSE IF boot_uncertain THEN "ota_boot_state_unknown"
    ELSE IF trial.active THEN "configuration_busy"
    ELSE IF config_uncertain THEN "storage_uncertain"
    ELSE IF candidate.revision # config.revision THEN "revision_conflict"
    ELSE IF candidate.revision = MaxRevision THEN "revision_exhausted"
    ELSE "none"

\* Refusals of ota.start up to the storage claim.
OtaRefusal(time_ready) ==
    IF ~EotaAvailable THEN "ota_signing_unavailable"
    ELSE IF pending THEN "ota_verification_pending"
    ELSE IF ota.active THEN "ota_in_progress"
    ELSE IF trial.active THEN "configuration_busy"
    ELSE IF config_uncertain THEN "storage_uncertain"
    ELSE IF boot_uncertain THEN "ota_boot_state_unknown"
    ELSE IF ~WifiReady(wifi) THEN "network_unavailable"
    ELSE IF ~time_ready THEN "time_unavailable"
    ELSE IF holder # "free" THEN "operation_busy"
    ELSE "none"

\* Refusals of restart.
RestartRefusal ==
    IF ota.active THEN "ota_in_progress"
    ELSE IF boot_uncertain THEN "ota_boot_state_unknown"
    ELSE IF trial.active THEN "configuration_busy"
    ELSE IF config_uncertain THEN "storage_uncertain"
    ELSE "none"

Admits(r) ==
    /\ ControlUp
    /\ Admit(guard, r, "self", boot, now) = "accept"

\* A replay repeats the stored outcome on the asking channel; every other
\* decision is answered with an error.  Nothing changes.
NotAdmitted(r) ==
    /\ ControlUp
    /\ Admit(guard, r, "self", boot, now) # "accept"
    /\ UNCHANGED vars

Refuse(r, via_mqtt, time_ready) ==
    LET error == CASE r.body.kind = "config.set" -> ConfigRefusal(r.body.config, via_mqtt)
                   [] r.body.kind = "ota.start" -> OtaRefusal(time_ready)
                   [] r.body.kind = "restart" -> RestartRefusal
    IN  /\ Admits(r)
        /\ error # "none"
        /\ Admitted(r, via_mqtt, "failed", error)
        /\ UNCHANGED <<durable, appVars, holder, controlFlags, trial, ota,
                       download_active, wifi, workerVars, history>>

\* config.set: the candidate is selected and its trial begins.
StartTrial(r, via_mqtt) ==
    /\ Admits(r)
    /\ r.body.kind = "config.set"
    /\ ConfigRefusal(r.body.config, via_mqtt) = "none"
    /\ Admitted(r, via_mqtt, "running", "none")
    /\ \E a \in WifiApply(wifi, r.body.config.wifi) : a.ok /\ wifi' = a.wifi
    /\ trial' = [active |-> TRUE, slot |-> Len(guard) + 1, candidate |-> r.body.config,
                 deadline |-> now + TrialTicks]
    /\ Executed(r)
    /\ UNCHANGED <<durable, appVars, holder, controlFlags, ota, download_active,
                   workerVars, acked, storage_fault, started, selected>>

\* Mutant: the committed selection is not restored after a failed trial.
RestoreNothing(w, network) == {[ok |-> TRUE, wifi |-> w]}

\* restore_committed: a selection that cannot be applied makes the
\* configuration uncertain.
RestoreCommitted(w, network) == WifiApply(w, network)

\* config.set: the candidate cannot even be selected; the committed selection is
\* applied again.
StartTrialFails(r, via_mqtt) ==
    /\ Admits(r)
    /\ r.body.kind = "config.set"
    /\ ConfigRefusal(r.body.config, via_mqtt) = "none"
    /\ Admitted(r, via_mqtt, "failed", "connection_proof_failed")
    /\ \E a \in WifiApply(wifi, r.body.config.wifi) :
         /\ ~a.ok
         /\ \E b \in RestoreCommitted(a.wifi, config.wifi) :
              /\ wifi' = b.wifi
              /\ config_uncertain' = ~b.ok
    /\ Executed(r)
    /\ UNCHANGED <<durable, appVars, holder, config, boot_uncertain, trial, ota,
                   download_active, workerVars, acked, storage_fault, started, selected>>

\* restart: the outcome is reported and the device resets.
Restart(r) ==
    /\ Admits(r)
    /\ r.body.kind = "restart"
    /\ RestartRefusal = "none"
    /\ Executed(r)
    /\ Reset(ota_state, boot_slot)
    /\ UNCHANGED <<nvs_config, receipt, slot_image, acked, started, selected>>

-----------------------------------------------------------------------------
(* handle_line: ota.start after the refusals; the storage claim succeeds *)

AdmitsOta(r, time_ready) ==
    /\ Admits(r)
    /\ r.body.kind = "ota.start"
    /\ OtaRefusal(time_ready) = "none"

\* Every answer esp_base_ota_receipt_register can give; nobody changes the slots while it
\* holds the claim, but each of its calls may fail on its own.
Registrations(op, image) ==
    UNION {Register(receipt, op, image, Observe(c.observed, TRUE), Observe(c.again, c.digested),
                    c.fits, c.preflight, c.load) :
             c \in [observed : BOOLEAN, again : BOOLEAN, digested : BOOLEAN, fits : BOOLEAN,
                    preflight : BOOLEAN, load : LoadReceipt(receipt)]}

StorageTrouble(result) == result \in {"uncertain", "storage_failure", "not_found"}

\* The receipt was not made durable: the claim is given back, unless the store is
\* in doubt.
OtaNotRegistered(r, via_mqtt, time_ready) ==
    /\ AdmitsOta(r, time_ready)
    /\ \E reg \in Registrations(r.body.op, r.body.image) :
         /\ reg.result # "ok"
         /\ receipt' = reg.receipt
         /\ storage_fault' = (storage_fault \/ StorageTrouble(reg.result))
         /\ IF reg.result = "uncertain"
            THEN /\ holder' = "ota"
                 /\ config_uncertain' = TRUE
                 /\ Admitted(r, via_mqtt, "unknown", "storage_uncertain")
            ELSE /\ holder' = "free"
                 /\ UNCHANGED config_uncertain
                 /\ Admitted(r, via_mqtt, "failed", reg.result)
    /\ Executed(r)
    /\ UNCHANGED <<nvs_config, slot_image, ota_state, boot_slot, appVars, config,
                   boot_uncertain, trial, ota, download_active, wifi, workerVars,
                   acked, started, selected>>

\* Mutant: the worker is started although the receipt is not known durable.
StartOtaUnregistered(r, via_mqtt, time_ready) ==
    /\ AdmitsOta(r, time_ready)
    /\ holder' = "ota"
    /\ ota' = [active |-> TRUE, slot |-> Len(guard) + 1, op |-> r.body.op, image |-> r.body.image]
    /\ download_active' = TRUE
    /\ worker' = "started"
    /\ started' = [started EXCEPT ![r.body.op] = @ + 1]
    /\ Admitted(r, via_mqtt, "running", "none")
    /\ Executed(r)
    /\ UNCHANGED <<durable, appVars, controlFlags, trial, wifi, worker_result,
                   acked, storage_fault, selected>>

\* The receipt is durable and the worker task exists.
StartOta(r, via_mqtt, time_ready) ==
    /\ AdmitsOta(r, time_ready)
    /\ \E reg \in Registrations(r.body.op, r.body.image) :
         reg.result = "ok" /\ receipt' = reg.receipt
    /\ holder' = "ota"
    /\ ota' = [active |-> TRUE, slot |-> Len(guard) + 1, op |-> r.body.op, image |-> r.body.image]
    /\ download_active' = TRUE
    /\ worker' = "started"
    /\ started' = [started EXCEPT ![r.body.op] = @ + 1]
    /\ Admitted(r, via_mqtt, "running", "none")
    /\ Executed(r)
    /\ UNCHANGED <<nvs_config, slot_image, ota_state, boot_slot, appVars, controlFlags, trial,
                   wifi, worker_result, acked, storage_fault, selected>>

\* The receipt is durable but the worker task could not be created: the failure
\* is recorded and the claim given back, or the store is in doubt.
OtaTaskFails(r, via_mqtt, time_ready) ==
    /\ AdmitsOta(r, time_ready)
    /\ \E reg \in Registrations(r.body.op, r.body.image) :
         /\ reg.result = "ok"
         /\ \E load \in LoadReceipt(reg.receipt) :
            \E f \in RecordFailure(reg.receipt, r.body.op, load) :
              /\ receipt' = f.receipt
              /\ storage_fault' = (storage_fault \/ StorageTrouble(f.result))
              /\ IF f.result = "ok"
                 THEN /\ holder' = "free"
                      /\ UNCHANGED config_uncertain
                      /\ Admitted(r, via_mqtt, "failed", "resource_failure")
                 ELSE /\ holder' = "ota"
                      /\ config_uncertain' = TRUE
                      /\ Admitted(r, via_mqtt, "unknown", "storage_uncertain")
    /\ Executed(r)
    /\ UNCHANGED <<nvs_config, slot_image, ota_state, boot_slot, appVars, config,
                   boot_uncertain, trial, ota, download_active, wifi, workerVars,
                   acked, started, selected>>

-----------------------------------------------------------------------------
(* ota_task: eota_prepare, then eota_select (external library) *)

\* The download begins to overwrite the slot this boot does not run from.
WorkerWrites ==
    /\ worker = "started"
    /\ worker' = "writing"
    /\ slot_image' = [slot_image EXCEPT ![Other(running)] = Partial]
    /\ UNCHANGED <<nvs_config, receipt, ota_state, boot_slot, appVars, holder, requestVars,
                   controlFlags, trial, ota, download_active, wifi, worker_result, history>>

\* eota_prepare returns with the requested size and digest verified.
WorkerPrepared ==
    /\ worker = "writing"
    /\ worker' = "prepared"
    /\ slot_image' = [slot_image EXCEPT ![Other(running)] = ota.image]
    /\ UNCHANGED <<nvs_config, receipt, ota_state, boot_slot, appVars, holder, requestVars,
                   controlFlags, trial, ota, download_active, wifi, worker_result, history>>

\* Mutant: the flag is raised first, so that the control task may read what an earlier
\* worker left.
WorkerStoresLate(result) ==
    /\ worker' = "done"
    /\ worker_result' \in {worker_result, result}

\* The result is stored before the flag that lets the control task read it.
WorkerStores(result) ==
    /\ worker' = "stored"
    /\ worker_result' = result

WorkerDone ==
    /\ worker = "stored"
    /\ worker' = "done"
    /\ UNCHANGED <<durable, appVars, holder, requestVars, controlFlags, trial, ota,
                   download_active, wifi, worker_result, history>>

\* eota_prepare or eota_select reports a definite error; nothing is selected.
WorkerFails ==
    /\ worker \in {"started", "writing", "prepared"}
    /\ WorkerStores("error")
    /\ UNCHANGED <<durable, appVars, holder, requestVars, controlFlags, trial, ota,
                   download_active, wifi, history>>

\* Mutant: the image is selected without having been prepared.
WorkerSelectsEarly ==
    /\ worker \in {"writing", "prepared"}
    /\ boot_slot' = Other(running)
    /\ ota_state' = [ota_state EXCEPT ![Other(running)] = "new"]
    /\ selected' = selected \cup {ota.op}
    /\ WorkerStores("ok")
    /\ UNCHANGED <<nvs_config, receipt, slot_image, appVars, holder, requestVars,
                   controlFlags, trial, ota, download_active, wifi,
                   acked, executions, storage_fault, started>>

\* eota_select makes the prepared slot the next one to boot; its readback may be
\* unavailable after the fact.
WorkerSelects ==
    /\ worker = "prepared"
    /\ boot_slot' = Other(running)
    /\ ota_state' = [ota_state EXCEPT ![Other(running)] = "new"]
    /\ selected' = selected \cup {ota.op}
    /\ \E result \in {"ok", "boot_state_unknown"} : WorkerStores(result)
    /\ UNCHANGED <<nvs_config, receipt, slot_image, appVars, holder, requestVars,
                   controlFlags, trial, ota, download_active, wifi,
                   acked, executions, storage_fault, started>>

\* The selection had no effect, and its readback was unavailable as well.
WorkerSelectLost ==
    /\ worker = "prepared"
    /\ WorkerStores("boot_state_unknown")
    /\ UNCHANGED <<durable, appVars, holder, requestVars, controlFlags, trial, ota,
                   download_active, wifi, history>>

WorkerStep ==
    WorkerWrites \/ WorkerPrepared \/ WorkerFails \/ WorkerSelects \/ WorkerSelectLost \/ WorkerDone

-----------------------------------------------------------------------------
(* poll_ota *)

\* Control up, the worker task has published its result.
WorkerReported(results) ==
    /\ ControlUp
    /\ ota.active
    /\ worker = "done"
    /\ worker_result \in results

\* Mutant: the operation is reported but stays active.
EndOtaStaysActive ==
    /\ download_active' = FALSE
    /\ worker' = "none"
    /\ UNCHANGED <<ota, worker_result>>

EndOta ==
    /\ ota' = NoOta
    /\ download_active' = FALSE
    /\ worker' = "none"
    /\ UNCHANGED worker_result

\* The new image is selected: the device resets into it.
PollOtaRestarts ==
    /\ WorkerReported({"ok"})
    /\ Reset(ota_state, boot_slot)
    /\ UNCHANGED <<nvs_config, receipt, slot_image, acked, executions, started, selected>>

\* Mutant: an unknown selection is recorded as a failure.
PollOtaBootUnknownRecorded ==
    /\ WorkerReported({"boot_state_unknown"})
    /\ boot_uncertain' = TRUE
    /\ receipt' = [receipt EXCEPT !.status = "failed"]
    /\ EndOta
    /\ SaveOutcome(ota.slot, "unknown", "ota_boot_state_unknown")
    /\ UNCHANGED <<nvs_config, slot_image, ota_state, boot_slot, appVars, holder, config,
                   config_uncertain, trial, wifi, history>>

\* The selector is unknown: the claim is kept and writes stay refused until a
\* reset.
PollOtaBootUnknown ==
    /\ WorkerReported({"boot_state_unknown"})
    /\ boot_uncertain' = TRUE
    /\ EndOta
    /\ SaveOutcome(ota.slot, "unknown", "ota_boot_state_unknown")
    /\ UNCHANGED <<durable, appVars, holder, config, config_uncertain, trial, wifi, history>>

\* A definite failure is recorded; only a durable record frees the storage.
PollOtaFails ==
    /\ WorkerReported({"error"})
    /\ EndOta
    /\ \E load \in LoadReceipt(receipt) : \E f \in RecordFailure(receipt, ota.op, load) :
         /\ receipt' = f.receipt
         /\ storage_fault' = (storage_fault \/ StorageTrouble(f.result))
         /\ IF f.result # "ok"
            THEN /\ config_uncertain' = TRUE
                 /\ SaveOutcome(ota.slot, "unknown", "storage_uncertain")
                 /\ UNCHANGED <<holder, boot_uncertain>>
            ELSE IF holder = "ota"
            THEN /\ holder' = "free"
                 /\ SaveOutcome(ota.slot, "failed", "ota_error")
                 /\ UNCHANGED <<config_uncertain, boot_uncertain>>
            ELSE /\ boot_uncertain' = TRUE
                 /\ SaveOutcome(ota.slot, "unknown", "storage_uncertain")
                 /\ UNCHANGED <<holder, config_uncertain>>
    /\ UNCHANGED <<nvs_config, slot_image, ota_state, boot_slot, appVars, config, trial, wifi,
                   acked, executions, started, selected>>

PollOta == PollOtaRestarts \/ PollOtaBootUnknown \/ PollOtaFails

-----------------------------------------------------------------------------
(* poll_configuration *)

TrialReady ==
    IF trial.candidate.wifi # NoNetwork THEN WifiReady(wifi) ELSE wifi.state = "unconfigured"

\* The candidate proved its connection in time: commit it, and report what the
\* store says.
CommitTrial ==
    /\ ControlUp
    /\ trial.active
    /\ TrialReady
    /\ now < trial.deadline
    /\ trial' = NoTrial
    /\ \E c \in CommitVerified(nvs_config, trial.candidate) :
         /\ nvs_config' = c.nvs
         /\ storage_fault' = (storage_fault \/ c.result \in {"error", "uncertain"})
         /\ \/ /\ c.result = "ok"
               /\ config' = c.committed
               /\ acked' = c.committed
               /\ SaveOutcome(trial.slot, "succeeded", "none")
               /\ UNCHANGED <<config_uncertain, wifi>>
            \/ /\ c.result = "uncertain"
               /\ config_uncertain' = TRUE
               /\ \E l \in Load(c.nvs) :
                    /\ config' = IF l.ok THEN l.config ELSE config
                    /\ \E a \in IF l.ok THEN RestoreCommitted(wifi, l.config.wifi)
                                ELSE WifiApply(wifi, NoNetwork) : wifi' = a.wifi
               /\ SaveOutcome(trial.slot, "unknown", "storage_uncertain")
               /\ UNCHANGED acked
            \/ /\ c.result \in {"error", "conflict", "exhausted"}
               /\ \E a \in RestoreCommitted(wifi, config.wifi) :
                    /\ wifi' = a.wifi
                    /\ config_uncertain' = (config_uncertain \/ ~a.ok)
               /\ SaveOutcome(trial.slot, "failed", "storage_failure")
               /\ UNCHANGED <<config, acked>>
    /\ UNCHANGED <<receipt, slot_image, ota_state, boot_slot, appVars, holder, boot_uncertain,
                   ota, download_active, workerVars, executions, started, selected>>

\* Mutant: only the Wi-Fi owner giving up ends a trial.
TrialFailsWithoutDeadline ==
    /\ ControlUp
    /\ trial.active
    /\ wifi.state = "failed"
    /\ trial' = NoTrial
    /\ \E a \in RestoreCommitted(wifi, config.wifi) :
         /\ wifi' = a.wifi
         /\ config_uncertain' = (config_uncertain \/ ~a.ok)
    /\ SaveOutcome(trial.slot, "failed", "connection_proof_failed")
    /\ UNCHANGED <<durable, appVars, holder, config, boot_uncertain, ota, download_active,
                   workerVars, history>>

\* The trial ran out of time or the Wi-Fi owner gave up: restore the committed
\* selection.
TrialFails ==
    /\ ControlUp
    /\ trial.active
    /\ ~(TrialReady /\ now < trial.deadline)
    /\ now >= trial.deadline \/ wifi.state = "failed"
    /\ trial' = NoTrial
    /\ \E a \in RestoreCommitted(wifi, config.wifi) :
         /\ wifi' = a.wifi
         /\ config_uncertain' = (config_uncertain \/ ~a.ok)
    /\ SaveOutcome(trial.slot, "failed", "connection_proof_failed")
    /\ UNCHANGED <<durable, appVars, holder, config, boot_uncertain, ota, download_active,
                   workerVars, history>>

PollConfiguration == CommitTrial \/ TrialFails

-----------------------------------------------------------------------------
(* Environment *)

\* The control task polls the Wi-Fi owner and one driver event is applied.
PollWifi ==
    /\ ControlUp
    /\ wifi' \in WifiPoll(wifi)
    /\ UNCHANGED <<durable, appVars, holder, requestVars, controlFlags, trial, ota,
                   download_active, workerVars, history>>

Tick ==
    /\ ControlUp
    /\ now < MaxNow
    /\ now' = now + 1
    /\ UNCHANGED <<durable, boot, running, phase, pending, holder, requestVars, controlFlags,
                   trial, ota, download_active, wifi, workerVars, history>>

PowerLoss ==
    /\ boot < MaxBoots
    /\ Reset(ota_state, boot_slot)
    /\ UNCHANGED <<nvs_config, receipt, slot_image, acked, executions, started, selected>>

AppMain ==
    \/ StartControl \/ StopBeforeControl \/ RejectPending \/ RejectFails
    \/ ConfirmPending \/ ReleaseBootClaim \/ ClearPending

HandleLine ==
    \E r \in Requests :
        \/ NotAdmitted(r)
        \/ Restart(r)
        \/ \E via_mqtt \in BOOLEAN :
             \/ StartTrial(r, via_mqtt)
             \/ StartTrialFails(r, via_mqtt)
             \/ \E time_ready \in BOOLEAN :
                  \/ Refuse(r, via_mqtt, time_ready)
                  \/ OtaNotRegistered(r, via_mqtt, time_ready)
                  \/ StartOta(r, via_mqtt, time_ready)
                  \/ OtaTaskFails(r, via_mqtt, time_ready)

Next == AppMain \/ HandleLine \/ PollConfiguration \/ PollOta \/ WorkerStep
        \/ PollWifi \/ Tick \/ PowerLoss

Spec == Init /\ [][Next]_vars

\* The control task loops for ever, so each of its polls is reached again; the
\* worker task is scheduled and eota_prepare and eota_select return; time passes.
Fairness == WF_vars(PollConfiguration) /\ WF_vars(PollOta) /\ WF_vars(WorkerStep) /\ WF_vars(Tick)

FairSpec == Spec /\ Fairness
=============================================================================
