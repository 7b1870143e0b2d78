---------------------------- MODULE DeviceProofs ----------------------------
(***************************************************************************)
(* Theorems about DeviceControl, for every set of requests, every limit of *)
(* the guard, every number of boots and every initial configuration.       *)
(***************************************************************************)
EXTENDS DeviceProperties, TLAPS

(***************************************************************************)
(* The variables ActivitiesExclusive reads.                                *)
(***************************************************************************)
activityVars == <<trial, ota, download_active, pending>>

\* A step that leaves the activities and the gate alone preserves the exclusion.
LEMMA Untouched ==
    ASSUME ActivitiesExclusive, UNCHANGED activityVars
    PROVE  ActivitiesExclusive'
  BY DEF ActivitiesExclusive, activityVars

\* After a reset neither activity runs (the statics of the control task).
LEMMA ResetQuiet ==
    ASSUME NEW states, NEW slot, Reset(states, slot)
    PROVE  ActivitiesExclusive'
  BY DEF Reset, ActivitiesExclusive, NoTrial, NoOta

\* The end of a download leaves only the trial.
LEMMA EndQuiet ==
    ASSUME ActivitiesExclusive, EndOta, UNCHANGED <<trial, pending>>
    PROVE  ActivitiesExclusive'
  BY DEF EndOta, ActivitiesExclusive, NoOta

\* The end of a trial leaves only the download.
LEMMA EndTrialQuiet ==
    ASSUME ActivitiesExclusive, trial' = NoTrial, UNCHANGED <<ota, download_active, pending>>
    PROVE  ActivitiesExclusive'
  BY DEF ActivitiesExclusive, NoTrial

\* Each step of app_main: only ClearPending touches the gate, and lowers it.
LEMMA AppMainStep ==
    ASSUME ActivitiesExclusive, AppMain
    PROVE  ActivitiesExclusive'
<1>1. CASE StartControl
  BY <1>1, Untouched DEF StartControl, activityVars
<1>2. CASE StopBeforeControl
  BY <1>2, Untouched DEF StopBeforeControl, activityVars
<1>3. CASE RejectPending
  BY <1>3, ResetQuiet DEF RejectPending
<1>4. CASE RejectFails
  BY <1>4, Untouched DEF RejectFails, activityVars
<1>5. CASE ConfirmPending
  BY <1>5, Untouched DEF ConfirmPending, activityVars
<1>6. CASE ReleaseBootClaim
  BY <1>6, Untouched DEF ReleaseBootClaim, activityVars
<1>7. CASE ClearPending
  BY <1>7 DEF ClearPending, ActivitiesExclusive
<1> QED
  BY <1>1, <1>2, <1>3, <1>4, <1>5, <1>6, <1>7 DEF AppMain

\* A trial starts only when neither gate is raised and nothing else is active:
\* the refusals of config.set are passed in order.
LEMMA StartTrialStep ==
    ASSUME ActivitiesExclusive, NEW r \in Requests, NEW via_mqtt, StartTrial(r, via_mqtt)
    PROVE  ActivitiesExclusive'
<1>1. ~pending /\ ~ota.active
  BY DEF StartTrial, ConfigRefusal, ConfigWriteError
<1>2. UNCHANGED <<ota, download_active, pending>>
  BY DEF StartTrial, appVars
<1> QED
  BY <1>1, <1>2 DEF ActivitiesExclusive

\* A download starts only when the gate is down and no trial is active.
LEMMA StartOtaStep ==
    ASSUME ActivitiesExclusive, NEW r \in Requests, NEW via_mqtt, NEW time_ready,
           StartOta(r, via_mqtt, time_ready)
    PROVE  ActivitiesExclusive'
<1>1. ~pending /\ ~trial.active
  BY DEF StartOta, AdmitsOta, OtaRefusal
<1>2. UNCHANGED <<trial, pending>>
  BY DEF StartOta, appVars
<1>3. ota'.active = TRUE /\ download_active' = TRUE
  BY DEF StartOta
<1> QED
  BY <1>1, <1>2, <1>3 DEF ActivitiesExclusive

\* Each answer to a write command.
LEMMA HandleLineStep ==
    ASSUME ActivitiesExclusive, HandleLine
    PROVE  ActivitiesExclusive'
<1>1. PICK r \in Requests :
        \/ NotAdmitted(r)
        \/ Restart(r)
        \/ \E via_mqtt \in BOOLEAN :
             \/ StartTrial(r, via_mqtt)
             \/ StartTrialFails(r, via_mqtt)
             \/ \E time_ready \in BOOLEAN :
                  \/ Refuse(r, via_mqtt, time_ready)
                  \/ OtaNotRegistered(r, via_mqtt, time_ready)
                  \/ StartOta(r, via_mqtt, time_ready)
                  \/ OtaTaskFails(r, via_mqtt, time_ready)
  BY DEF HandleLine
<1>2. CASE NotAdmitted(r)
  BY <1>2, Untouched DEF NotAdmitted, vars, appVars, activityVars
<1>3. CASE Restart(r)
  BY <1>3, ResetQuiet DEF Restart
<1>4. ASSUME NEW via_mqtt \in BOOLEAN, StartTrial(r, via_mqtt)
      PROVE  ActivitiesExclusive'
  BY <1>4, StartTrialStep
<1>5. ASSUME NEW via_mqtt \in BOOLEAN, StartTrialFails(r, via_mqtt)
      PROVE  ActivitiesExclusive'
  BY <1>5, Untouched DEF StartTrialFails, appVars, activityVars
<1>6. ASSUME NEW via_mqtt \in BOOLEAN, NEW time_ready \in BOOLEAN,
             Refuse(r, via_mqtt, time_ready)
      PROVE  ActivitiesExclusive'
  BY <1>6, Untouched DEF Refuse, appVars, activityVars
<1>7. ASSUME NEW via_mqtt \in BOOLEAN, NEW time_ready \in BOOLEAN,
             OtaNotRegistered(r, via_mqtt, time_ready)
      PROVE  ActivitiesExclusive'
  BY <1>7, Untouched DEF OtaNotRegistered, appVars, activityVars
<1>8. ASSUME NEW via_mqtt \in BOOLEAN, NEW time_ready \in BOOLEAN,
             StartOta(r, via_mqtt, time_ready)
      PROVE  ActivitiesExclusive'
  BY <1>8, StartOtaStep
<1>9. ASSUME NEW via_mqtt \in BOOLEAN, NEW time_ready \in BOOLEAN,
             OtaTaskFails(r, via_mqtt, time_ready)
      PROVE  ActivitiesExclusive'
  BY <1>9, Untouched DEF OtaTaskFails, appVars, activityVars
<1> QED
  BY <1>1, <1>2, <1>3, <1>4, <1>5, <1>6, <1>7, <1>8, <1>9

\* The supervision of the trial and of the download, and the worker.
LEMMA PollStep ==
    ASSUME ActivitiesExclusive, PollConfiguration \/ PollOta \/ WorkerStep
    PROVE  ActivitiesExclusive'
<1>1. CASE CommitTrial
  BY <1>1, EndTrialQuiet DEF CommitTrial, appVars
<1>2. CASE TrialFails
  BY <1>2, EndTrialQuiet DEF TrialFails, appVars
<1>3. CASE PollOtaRestarts
  BY <1>3, ResetQuiet DEF PollOtaRestarts
<1>4. CASE PollOtaBootUnknown
  BY <1>4, EndQuiet DEF PollOtaBootUnknown, appVars
<1>5. CASE PollOtaFails
  BY <1>5, EndQuiet DEF PollOtaFails, appVars
<1>6. CASE WorkerStep
  BY <1>6, Untouched DEF WorkerStep, WorkerWrites, WorkerPrepared, WorkerFails, WorkerSelects,
     WorkerSelectLost, WorkerDone, appVars, activityVars
<1> QED
  BY <1>1, <1>2, <1>3, <1>4, <1>5, <1>6 DEF PollConfiguration, PollOta

\* A configuration trial and a download never overlap, and neither runs in a boot
\* that awaits verification: the gates of handle_line suffice, whatever the
\* startup, the worker, the driver and the power supply do in between.
THEOREM ActivitiesExclude == Spec => []ActivitiesExclusive
<1>1. Init => ActivitiesExclusive
  <2> SUFFICES ASSUME Init PROVE ActivitiesExclusive
    OBVIOUS
  <2>1. trial = NoTrial /\ ota = NoOta /\ download_active = FALSE
    BY DEF Init
  <2>2. trial.active = FALSE /\ ota.active = FALSE
    BY <2>1 DEF NoTrial, NoOta
  <2> QED
    BY <2>1, <2>2 DEF ActivitiesExclusive
<1>2. ActivitiesExclusive /\ [Next]_vars => ActivitiesExclusive'
  <2> SUFFICES ASSUME ActivitiesExclusive, [Next]_vars
               PROVE  ActivitiesExclusive'
    OBVIOUS
  <2>1. CASE AppMain
    BY <2>1, AppMainStep
  <2>2. CASE HandleLine
    BY <2>2, HandleLineStep
  <2>3. CASE PollConfiguration \/ PollOta \/ WorkerStep
    BY <2>3, PollStep
  <2>4. CASE PollWifi
    BY <2>4, Untouched DEF PollWifi, appVars, activityVars
  <2>5. CASE Tick
    BY <2>5, Untouched DEF Tick, activityVars
  <2>6. CASE PowerLoss
    BY <2>6, ResetQuiet DEF PowerLoss
  <2>7. CASE UNCHANGED vars
    BY <2>7, Untouched DEF vars, appVars, activityVars
  <2> QED
    BY <2>1, <2>2, <2>3, <2>4, <2>5, <2>6, <2>7 DEF Next
<1> QED
  BY <1>1, <1>2, PTL DEF Spec
-----------------------------------------------------------------------------
(* The slots, the receipt and the worker                                     *)

\* A slot whose image was selected and is not verified yet.
Unverified(s) == ota_state[s] \in {"new", "pending_verify"}

\* The receipt of an operation that was begun from the running slot.
Prepared(op, image) ==
    [status |-> "prepared", device |-> "self", op |-> op, image |-> image,
     source |-> running, target |-> Other(running)]

OtaTypes ==
    /\ receipt \in Receipts \cup {NoReceipt}
    /\ slot_image \in [Slots -> Images \cup {Partial}]
    /\ ota_state \in [Slots -> SlotStates]
    /\ boot_slot \in Slots /\ running \in Slots
    /\ worker \in {"none", "started", "writing", "prepared", "stored", "done"}
    /\ ota.active \in BOOLEAN
    /\ ota.active => ota.op \in Ops /\ ota.image \in Images

\* A worker exists exactly while an operation is active; from its start to its
\* report nobody else can change the claim, the receipt or the running slot.
WorkerOwned ==
    /\ ota.active <=> worker # "none"
    /\ ota.active =>
         /\ ~pending
         /\ holder = "ota"
         /\ receipt = Prepared(ota.op, ota.image)
         /\ ota_state[running] = "valid"
    /\ worker = "prepared" => slot_image[Other(running)] = ota.image

\* Until the worker selects its image no slot awaits verification.
NothingSelectedYet ==
    \/ worker \in {"started", "writing", "prepared"}
    \/ worker \in {"stored", "done"} /\ worker_result = "error"
    => \A s \in Slots : ~Unverified(s)

\* The selector points away from the running slot only to a new image, and only the
\* slot it points to awaits verification.
SelectorFollows ==
    /\ boot_slot # running => ota_state[boot_slot] = "new"
    /\ \A s \in Slots :
         /\ ota_state[s] = "new" => s = boot_slot /\ s # running
         /\ ota_state[s] = "pending_verify" => s = boot_slot /\ s = running

\* The running slot is complete and accepted, and so is the one behind an image
\* that awaits verification.
RunningIsSound ==
    /\ slot_image[running] # Partial
    /\ ota_state[running] \notin {"aborted", "invalid", "new"}
    /\ \A s \in Slots : Unverified(s) =>
         slot_image[Other(s)] # Partial /\ ota_state[Other(s)] \in {"valid", "undefined"}

OtaInv ==
    /\ OtaTypes
    /\ WorkerOwned
    /\ NothingSelectedYet
    /\ SelectorFollows
    /\ RunningIsSound
    /\ SelectedImageIsAccounted

\* The variables OtaInv reads.
otaVars == <<receipt, slot_image, ota_state, boot_slot, running, pending, holder, ota,
             worker, worker_result, selected>>

\* There are two slots, and each is the other's other.
LEMMA TwoSlots ==
    ASSUME NEW s \in Slots
    PROVE  /\ Other(s) \in Slots /\ Other(s) # s /\ Other(Other(s)) = s
           /\ \A t \in Slots : t = s \/ t = Other(s)
  BY DEF Slots, Other

\* A step that leaves those variables alone preserves the invariant.
LEMMA OtaUntouched ==
    ASSUME OtaInv, UNCHANGED otaVars
    PROVE  OtaInv'
<1>1. OtaTypes'
  BY DEF OtaInv, OtaTypes, otaVars
<1>2. WorkerOwned'
  BY DEF OtaInv, WorkerOwned, otaVars, Prepared
<1>3. NothingSelectedYet'
  BY DEF OtaInv, NothingSelectedYet, otaVars, Unverified
<1>4. SelectorFollows'
  BY DEF OtaInv, SelectorFollows, otaVars
<1>5. RunningIsSound'
  BY DEF OtaInv, RunningIsSound, otaVars, Unverified
<1>6. SelectedImageIsAccounted'
  BY DEF OtaInv, SelectedImageIsAccounted, otaVars
<1> QED
  BY <1>1, <1>2, <1>3, <1>4, <1>5, <1>6 DEF OtaInv

\* What esp_base_ota_receipt_register and record_failure can report.
RegisterResults ==
    {"ok", "target_state_unknown", "slot_unavailable", "selector_mismatch", "source_not_valid",
     "target_not_safe", "uncertain", "exists", "conflict", "busy", "storage_failure",
     "not_found"}

\* The answers of esp_base_ota_receipt_register: either the receipt stays, or it now
\* names the operation; then the running slot is the selected and verified one, the
\* other slot is free, and no earlier receipt named the same operation.
LEMMA RegisterAnswers ==
    ASSUME NEW op, NEW image, NEW reg \in Registrations(op, image)
    PROVE  /\ reg.result \in RegisterResults
           /\ \/ reg.receipt = receipt /\ reg.result # "ok"
              \/ /\ reg.receipt = Prepared(op, image)
                 /\ reg.result \in {"ok", "uncertain"}
                 /\ running = boot_slot
                 /\ ota_state[running] = "valid"
                 /\ ~Unverified(Other(running))
                 /\ receipt # NoReceipt => receipt.op # op
<1>1. PICK c \in [observed : BOOLEAN, again : BOOLEAN, digested : BOOLEAN, fits : BOOLEAN,
                  preflight : BOOLEAN, load : LoadReceipt(receipt)] :
        reg \in Register(receipt, op, image, Observe(c.observed, TRUE),
                         Observe(c.again, c.digested), c.fits, c.preflight, c.load)
  BY DEF Registrations
<1> DEFINE s == Observe(c.observed, TRUE)
<1>2. /\ s.ok = c.observed /\ s.running = running /\ s.boot = boot_slot
      /\ s.running_state = ota_state[running]
      /\ s.target_state = ota_state[Other(running)]
  BY DEF Observe
<1>3. c.load = "not_found" => receipt = NoReceipt
  BY DEF LoadReceipt
<1>4. ASSUME NEW x \in Store(receipt, Prepared(op, image))
      PROVE  /\ x.result \in RegisterResults
             /\ \/ x.receipt = receipt /\ x.result # "ok"
                \/ x.receipt = Prepared(op, image) /\ x.result \in {"ok", "uncertain"}
  BY <1>4 DEF Store, RegisterResults
<1> HIDE DEF s
<1>5. CASE reg \in Store(receipt, Prepared(op, image)) /\ running = boot_slot
           /\ ota_state[running] = "valid" /\ ~Unverified(Other(running))
           /\ (receipt # NoReceipt => receipt.op # op)
  BY <1>4, <1>5
<1>6. CASE \E result \in {"target_state_unknown", "slot_unavailable", "selector_mismatch",
                          "source_not_valid", "target_not_safe", "uncertain", "exists",
                          "conflict", "busy"} :
             reg = [result |-> result, receipt |-> receipt]
  BY <1>6 DEF RegisterResults
<1> QED
  BY <1>1, <1>2, <1>3, <1>5, <1>6 DEF Register, Prepared, Unverified, s

\* The answers of esp_base_ota_receipt_record_failure for a decoded receipt.
LEMMA RecordAnswers ==
    ASSUME NEW old \in Receipts \cup {NoReceipt}, NEW op, NEW load \in LoadReceipt(old),
           NEW f \in RecordFailure(old, op, load)
    PROVE  /\ f.receipt \in Receipts \cup {NoReceipt}
           /\ f.receipt = old \/ f.receipt = [old EXCEPT !.status = "failed"]
<1>1. CASE load # "ok" \/ old.device # "self" \/ old.op # op
  BY <1>1 DEF RecordFailure
<1>2. CASE load = "ok" /\ old.device = "self" /\ old.op = op
  <2>1. old \in Receipts
    BY <1>2 DEF LoadReceipt
  <2> DEFINE new == [old EXCEPT !.status = "failed"]
  <2>2. new \in Receipts
    BY <2>1 DEF Receipts
  <2> HIDE DEF new
  <2>3. f \in Store(old, new)
    BY <1>2 DEF RecordFailure, new
  <2>4. f.receipt = old \/ f.receipt = new
    BY <2>3 DEF Store
  <2> QED
    BY <2>1, <2>2, <2>4 DEF new
<1> QED
  BY <1>1, <1>2

\* A registered receipt is one the decoder accepts.
LEMMA PreparedDecodes ==
    ASSUME OtaInv, NEW op \in Ops, NEW image \in Images
    PROVE  Prepared(op, image) \in Receipts
  BY TwoSlots DEF OtaInv, OtaTypes, Prepared, Receipts

\* While no worker exists and no slot awaits verification the receipt may be replaced
\* and the claim may change hands.
LEMMA ReceiptReplaced ==
    ASSUME OtaInv, ~ota.active, \A s \in Slots : ~Unverified(s),
           receipt' \in Receipts \cup {NoReceipt},
           UNCHANGED <<slot_image, ota_state, boot_slot, running, ota, worker, worker_result>>
    PROVE  OtaInv'
<1>1. OtaTypes'
  BY DEF OtaInv, OtaTypes
<1>2. WorkerOwned'
  <2>1. worker = "none"
    BY DEF OtaInv, WorkerOwned
  <2> QED
    BY <2>1 DEF WorkerOwned
<1>3. NothingSelectedYet' /\ SelectedImageIsAccounted'
  BY DEF NothingSelectedYet, SelectedImageIsAccounted, Unverified
<1>4. SelectorFollows' /\ RunningIsSound'
  BY DEF OtaInv, SelectorFollows, RunningIsSound, Unverified
<1> QED
  BY <1>1, <1>2, <1>3, <1>4 DEF OtaInv

\* The claim and the gate may change while no worker exists.
LEMMA ClaimMoves ==
    ASSUME OtaInv, ~ota.active,
           UNCHANGED <<receipt, slot_image, ota_state, boot_slot, running, ota, worker,
                       worker_result, selected>>
    PROVE  OtaInv'
<1>1. WorkerOwned'
  <2>1. worker = "none"
    BY DEF OtaInv, WorkerOwned
  <2> QED
    BY <2>1 DEF WorkerOwned
<1>2. OtaTypes'
  BY DEF OtaInv, OtaTypes
<1>3. NothingSelectedYet' /\ SelectorFollows' /\ RunningIsSound'
  BY DEF OtaInv, NothingSelectedYet, SelectorFollows, RunningIsSound, Unverified
<1>4. SelectedImageIsAccounted'
  BY DEF OtaInv, SelectedImageIsAccounted
<1> QED
  BY <1>1, <1>2, <1>3, <1>4 DEF OtaInv

\* What a reset leaves of the invariant, once the states of the slots are known.
LEMMA BootedInv ==
    ASSUME OtaInv, UNCHANGED <<receipt, slot_image, selected>>,
           ota'.active = FALSE, worker' = "none",
           boot_slot' = running', running' \in Slots,
           ota_state' \in [Slots -> SlotStates],
           slot_image[running'] # Partial,
           ota_state'[running'] \notin {"aborted", "invalid", "new"},
           ota_state'[Other(running')] \notin {"new", "pending_verify"},
           ota_state'[running'] = "pending_verify" =>
             /\ Unverified(running')
             /\ slot_image[Other(running')] # Partial
             /\ ota_state'[Other(running')] \in {"valid", "undefined"}
    PROVE  OtaInv'
<1> DEFINE r == running'
<1>1. \A s \in Slots : s = r \/ s = Other(r)
  BY TwoSlots
<1>2. \A s \in Slots : ota_state'[s] \in {"new", "pending_verify"} => s = r
  BY <1>1
<1>3. OtaTypes'
  BY DEF OtaInv, OtaTypes
<1>4. WorkerOwned'
  BY DEF WorkerOwned
<1>5. NothingSelectedYet'
  BY DEF NothingSelectedYet
<1>6. SelectorFollows'
  BY <1>2 DEF SelectorFollows
<1>7. RunningIsSound'
  BY <1>2 DEF RunningIsSound, Unverified
<1>8. SelectedImageIsAccounted'
  BY <1>2 DEF OtaInv, SelectedImageIsAccounted, Unverified
<1> QED
  BY <1>3, <1>4, <1>5, <1>6, <1>7, <1>8 DEF OtaInv

\* A restart, a power loss or the restart after a selection: the bootloader follows the
\* selector, and gives an image up that was not verified in its one boot.
LEMMA ResetKeepsOta ==
    ASSUME OtaInv, Reset(ota_state, boot_slot), UNCHANGED <<receipt, slot_image, selected>>
    PROVE  OtaInv'
<1>1. /\ ota'.active = FALSE /\ worker' = "none"
      /\ boot_slot' = running' /\ running' = BootsFrom(ota_state, boot_slot)
      /\ ota_state' = StatesAfterBoot(ota_state, boot_slot)
  BY DEF Reset, NoOta
<1>2. /\ boot_slot \in Slots /\ running \in Slots /\ ota_state \in [Slots -> SlotStates]
      /\ slot_image \in [Slots -> Images \cup {Partial}]
      /\ receipt \in Receipts \cup {NoReceipt}
  BY DEF OtaInv, OtaTypes
<1>3. CASE boot_slot = running /\ ota_state[running] = "pending_verify"
  <2>1. running' = Other(running) /\ ota_state' = [ota_state EXCEPT ![running] = "aborted"]
    BY <1>1, <1>3 DEF BootsFrom, StatesAfterBoot
  <2>2. /\ running' \in Slots /\ Other(running') = running /\ running' # running
        /\ slot_image[running'] # Partial
        /\ ota_state[running'] \in {"valid", "undefined"}
    BY <1>2, <1>3, <2>1, TwoSlots DEF OtaInv, RunningIsSound, Unverified
  <2>3. /\ ota_state' \in [Slots -> SlotStates]
        /\ ota_state'[running'] = ota_state[running'] /\ ota_state'[running] = "aborted"
    BY <1>2, <2>1, <2>2 DEF SlotStates
  <2> QED
    BY <1>1, <2>2, <2>3, BootedInv
<1>4. CASE boot_slot = running /\ ota_state[running] # "pending_verify"
  <2>1. ota_state[running] # "new" /\ slot_image[running] # Partial
        /\ ota_state[running] \notin {"aborted", "invalid"}
    BY DEF OtaInv, RunningIsSound
  <2>2. running' = running /\ ota_state' = ota_state
    BY <1>1, <1>4, <2>1 DEF BootsFrom, StatesAfterBoot
  <2>3. ~Unverified(Other(running))
    BY <1>2, <1>4, TwoSlots DEF OtaInv, SelectorFollows, Unverified
  <2> QED
    BY <1>1, <1>2, <1>4, <2>1, <2>2, <2>3, BootedInv DEF Unverified
<1>5. CASE boot_slot # running
  <2>1. boot_slot = Other(running) /\ ota_state[boot_slot] = "new" /\ Other(boot_slot) = running
    BY <1>2, <1>5, TwoSlots DEF OtaInv, SelectorFollows
  <2>2. running' = boot_slot /\ ota_state' = [ota_state EXCEPT ![boot_slot] = "pending_verify"]
    BY <1>1, <2>1 DEF BootsFrom, StatesAfterBoot
  <2>3. /\ ota_state' \in [Slots -> SlotStates] /\ ota_state'[boot_slot] = "pending_verify"
        /\ ota_state'[running] = ota_state[running]
    BY <1>2, <1>5, <2>2 DEF SlotStates
  <2>4. /\ Unverified(boot_slot) /\ slot_image[running] # Partial
        /\ ota_state[running] \in {"valid", "undefined"}
    BY <1>2, <2>1 DEF OtaInv, RunningIsSound, Unverified
  <2>5. slot_image[boot_slot] # Partial
    <3>1. receipt.status = "prepared" /\ slot_image[boot_slot] = receipt.image
      BY <1>2, <2>4 DEF OtaInv, SelectedImageIsAccounted, Unverified
    <3>2. receipt \in Receipts
      BY <1>2, <3>1 DEF NoReceipt
    <3> QED
      BY <3>1, <3>2, PartialAssumption DEF Receipts
  <2> QED
    BY <1>1, <1>2, <2>1, <2>2, <2>3, <2>4, <2>5, BootedInv
<1> QED
  BY <1>3, <1>4, <1>5

\* The running image is rejected: the device falls back to the other slot.
LEMMA RejectKeepsOta ==
    ASSUME OtaInv, RejectPending
    PROVE  OtaInv'
<1> DEFINE rejected == [ota_state EXCEPT ![running] = "invalid"]
<1>1. /\ boot_slot \in Slots /\ running \in Slots /\ ota_state \in [Slots -> SlotStates]
      /\ ota_state[running] = "pending_verify"
      /\ UNCHANGED <<receipt, slot_image, selected>>
  BY DEF OtaInv, OtaTypes, RejectPending
<1>2. /\ Other(running) \in Slots /\ Other(running) # running /\ Other(Other(running)) = running
      /\ slot_image[Other(running)] # Partial
      /\ ota_state[Other(running)] \in {"valid", "undefined"}
  BY <1>1, TwoSlots DEF OtaInv, RunningIsSound, Unverified
<1>3. /\ rejected \in [Slots -> SlotStates] /\ rejected[running] = "invalid"
      /\ rejected[Other(running)] = ota_state[Other(running)]
  BY <1>1, <1>2 DEF SlotStates
<1>4. Reset(rejected, Other(running))
  BY DEF RejectPending
<1> HIDE DEF rejected
<1>5. /\ ota'.active = FALSE /\ worker' = "none"
      /\ boot_slot' = running' /\ running' = Other(running) /\ ota_state' = rejected
  <2>1. /\ BootsFrom(rejected, Other(running)) = Other(running)
        /\ StatesAfterBoot(rejected, Other(running)) = rejected
    BY <1>2, <1>3 DEF BootsFrom, StatesAfterBoot
  <2> QED
    BY <1>4, <2>1 DEF Reset, NoOta
<1> QED
  BY <1>1, <1>2, <1>3, <1>5, BootedInv

\* Each step of app_main.
LEMMA AppMainKeepsOta ==
    ASSUME OtaInv, AppMain
    PROVE  OtaInv'
<1>1. CASE StartControl
  BY <1>1, OtaUntouched DEF StartControl, durable, workerVars, history, otaVars
<1>2. CASE StopBeforeControl
  BY <1>2, OtaUntouched DEF StopBeforeControl, durable, workerVars, history, otaVars
<1>3. CASE RejectPending
  BY <1>3, RejectKeepsOta
<1>4. CASE RejectFails
  BY <1>4, OtaUntouched DEF RejectFails, durable, workerVars, history, otaVars
<1>5. CASE ConfirmPending
  <2>1. /\ UNCHANGED <<receipt, slot_image, boot_slot, running, pending, holder, ota, worker,
                       worker_result, selected>>
        /\ ota_state' = [ota_state EXCEPT ![running] = "valid"]
    BY <1>5 DEF ConfirmPending, workerVars, history
  <2>2. /\ boot_slot \in Slots /\ running \in Slots /\ ota_state \in [Slots -> SlotStates]
    BY DEF OtaInv, OtaTypes
  <2>3. /\ ota_state' \in [Slots -> SlotStates] /\ ota_state'[running] = "valid"
        /\ \A s \in Slots \ {running} : ota_state'[s] = ota_state[s]
    BY <2>1, <2>2 DEF SlotStates
  <2>4. \A s \in Slots : ota_state'[s] \in {"new", "pending_verify"}
                           => ota_state'[s] = ota_state[s] /\ s # running
    BY <2>3
  <2>5. OtaTypes'
    BY <2>1, <2>3 DEF OtaInv, OtaTypes
  <2>6. WorkerOwned'
    BY <2>1, <2>3 DEF OtaInv, WorkerOwned, Prepared
  <2>7. NothingSelectedYet'
    BY <2>1, <2>4 DEF OtaInv, NothingSelectedYet, Unverified
  <2>8. SelectorFollows'
    BY <2>1, <2>2, <2>3, <2>4 DEF OtaInv, SelectorFollows
  <2>9. RunningIsSound'
    BY <2>1, <2>2, <2>3, <2>4, TwoSlots DEF OtaInv, RunningIsSound, Unverified
  <2>10. SelectedImageIsAccounted'
    BY <2>1, <2>4 DEF OtaInv, SelectedImageIsAccounted
  <2> QED
    BY <2>5, <2>6, <2>7, <2>8, <2>9, <2>10 DEF OtaInv
<1>6. CASE ReleaseBootClaim
  <2>1. CASE ota.active
    BY <1>6, <2>1, OtaUntouched DEF ReleaseBootClaim, durable, workerVars, history, otaVars,
       OtaInv, WorkerOwned
  <2>2. CASE ~ota.active
    BY <1>6, <2>2, ClaimMoves DEF ReleaseBootClaim, durable, workerVars, history
  <2> QED
    BY <2>1, <2>2
<1>7. CASE ClearPending
  <2>1. /\ pending' = FALSE
        /\ UNCHANGED <<receipt, slot_image, ota_state, boot_slot, running, holder, ota,
                       worker, worker_result, selected>>
    BY <1>7 DEF ClearPending, durable, workerVars, history
  <2>2. WorkerOwned'
    BY <2>1 DEF OtaInv, WorkerOwned, Prepared
  <2>3. OtaTypes' /\ SelectedImageIsAccounted'
    BY <2>1 DEF OtaInv, OtaTypes, SelectedImageIsAccounted
  <2>4. NothingSelectedYet' /\ SelectorFollows' /\ RunningIsSound'
    BY <2>1 DEF OtaInv, NothingSelectedYet, SelectorFollows, RunningIsSound, Unverified
  <2> QED
    BY <2>2, <2>3, <2>4 DEF OtaInv
<1> QED
  BY <1>1, <1>2, <1>3, <1>4, <1>5, <1>6, <1>7 DEF AppMain

\* The receipt is durable and the worker starts: nothing awaits verification then.
LEMMA StartKeepsOta ==
    ASSUME OtaInv, NEW r \in Requests, NEW via_mqtt, NEW time_ready,
           StartOta(r, via_mqtt, time_ready)
    PROVE  OtaInv'
<1>1. /\ r.body.op \in Ops /\ r.body.image \in Images
      /\ ~pending /\ ~ota.active
  BY BodiesAssumption DEF StartOta, AdmitsOta, OtaRefusal
<1>2. PICK reg \in Registrations(r.body.op, r.body.image) :
        reg.result = "ok" /\ receipt' = reg.receipt
  BY DEF StartOta
<1>3. /\ receipt' = Prepared(r.body.op, r.body.image)
      /\ running = boot_slot /\ ota_state[running] = "valid" /\ ~Unverified(Other(running))
  BY <1>2, RegisterAnswers
<1>4. /\ UNCHANGED <<slot_image, ota_state, boot_slot, running, pending, selected>>
      /\ holder' = "ota" /\ worker' = "started"
      /\ ota'.active = TRUE /\ ota'.op = r.body.op /\ ota'.image = r.body.image
  BY DEF StartOta, appVars
<1>5. receipt' \in Receipts
  BY <1>1, <1>3, PreparedDecodes
<1>6. running \in Slots /\ \A s \in Slots : ~Unverified(s)
  BY <1>3, TwoSlots DEF OtaInv, OtaTypes, Unverified
<1>7. OtaTypes'
  BY <1>1, <1>4, <1>5 DEF OtaInv, OtaTypes
<1>8. WorkerOwned'
  BY <1>1, <1>3, <1>4 DEF WorkerOwned, Prepared
<1>9. NothingSelectedYet' /\ SelectedImageIsAccounted'
  BY <1>4, <1>6 DEF NothingSelectedYet, SelectedImageIsAccounted, Unverified
<1>10. SelectorFollows' /\ RunningIsSound'
  BY <1>4, <1>6 DEF OtaInv, SelectorFollows, RunningIsSound, Unverified
<1> QED
  BY <1>7, <1>8, <1>9, <1>10 DEF OtaInv

\* The receipt is not durable, or nobody knows: no worker starts.
LEMMA NotRegisteredKeepsOta ==
    ASSUME OtaInv, NEW r \in Requests, NEW via_mqtt, NEW time_ready,
           OtaNotRegistered(r, via_mqtt, time_ready)
    PROVE  OtaInv'
<1>1. r.body.op \in Ops /\ r.body.image \in Images /\ ~ota.active
  BY BodiesAssumption DEF OtaNotRegistered, AdmitsOta, OtaRefusal
<1>2. PICK reg \in Registrations(r.body.op, r.body.image) : receipt' = reg.receipt
  BY DEF OtaNotRegistered
<1>3. UNCHANGED <<slot_image, ota_state, boot_slot, running, ota, worker, worker_result, selected>>
  BY DEF OtaNotRegistered, appVars, workerVars
<1>4. CASE receipt' = receipt
  BY <1>1, <1>3, <1>4, ClaimMoves
<1>5. CASE receipt' # receipt
  <2>1. /\ receipt' = Prepared(r.body.op, r.body.image)
        /\ ota_state[running] = "valid" /\ ~Unverified(Other(running))
    BY <1>2, <1>5, RegisterAnswers
  <2>2. receipt' \in Receipts
    BY <1>1, <2>1, PreparedDecodes
  <2>3. \A s \in Slots : ~Unverified(s)
    BY <2>1, TwoSlots DEF OtaInv, OtaTypes, Unverified
  <2> QED
    BY <1>1, <1>3, <2>2, <2>3, ReceiptReplaced
<1> QED
  BY <1>4, <1>5

\* The worker could not be created: the failure is recorded, or nobody knows.
LEMMA TaskFailsKeepsOta ==
    ASSUME OtaInv, NEW r \in Requests, NEW via_mqtt, NEW time_ready,
           OtaTaskFails(r, via_mqtt, time_ready)
    PROVE  OtaInv'
<1>1. r.body.op \in Ops /\ r.body.image \in Images /\ ~ota.active
  BY BodiesAssumption DEF OtaTaskFails, AdmitsOta, OtaRefusal
<1>2. PICK reg \in Registrations(r.body.op, r.body.image) :
        /\ reg.result = "ok"
        /\ \E load \in LoadReceipt(reg.receipt) :
             \E f \in RecordFailure(reg.receipt, r.body.op, load) : receipt' = f.receipt
  BY DEF OtaTaskFails
<1> DEFINE old == reg.receipt
<1>3. /\ reg.receipt = Prepared(r.body.op, r.body.image)
      /\ ota_state[running] = "valid" /\ ~Unverified(Other(running))
  BY <1>2, RegisterAnswers
<1>4. old \in Receipts
  BY <1>1, <1>3, PreparedDecodes
<1> HIDE DEF old
<1>5. receipt' \in Receipts \cup {NoReceipt}
  <2>1. PICK load \in LoadReceipt(old) :
          \E f \in RecordFailure(old, r.body.op, load) : receipt' = f.receipt
    BY <1>2 DEF old
  <2>2. PICK f \in RecordFailure(old, r.body.op, load) : receipt' = f.receipt
    BY <2>1
  <2> QED
    BY <1>4, <2>2, RecordAnswers
<1>6. \A s \in Slots : ~Unverified(s)
  BY <1>3, TwoSlots DEF OtaInv, OtaTypes, Unverified
<1>7. UNCHANGED <<slot_image, ota_state, boot_slot, running, ota, worker, worker_result>>
  BY DEF OtaTaskFails, appVars, workerVars
<1> QED
  BY <1>1, <1>5, <1>6, <1>7, ReceiptReplaced

\* Each answer to a write command.
LEMMA HandleLineKeepsOta ==
    ASSUME OtaInv, HandleLine
    PROVE  OtaInv'
<1>1. PICK r \in Requests :
        \/ NotAdmitted(r)
        \/ Restart(r)
        \/ \E via_mqtt \in BOOLEAN :
             \/ StartTrial(r, via_mqtt)
             \/ StartTrialFails(r, via_mqtt)
             \/ \E time_ready \in BOOLEAN :
                  \/ Refuse(r, via_mqtt, time_ready)
                  \/ OtaNotRegistered(r, via_mqtt, time_ready)
                  \/ StartOta(r, via_mqtt, time_ready)
                  \/ OtaTaskFails(r, via_mqtt, time_ready)
  BY DEF HandleLine
<1>2. CASE NotAdmitted(r)
  BY <1>2, OtaUntouched DEF NotAdmitted, vars, durable, appVars, workerVars, history, otaVars
<1>3. CASE Restart(r)
  BY <1>3, ResetKeepsOta DEF Restart
<1>4. ASSUME NEW via_mqtt \in BOOLEAN, StartTrial(r, via_mqtt)
      PROVE  OtaInv'
  BY <1>4, OtaUntouched DEF StartTrial, durable, appVars, workerVars, otaVars
<1>5. ASSUME NEW via_mqtt \in BOOLEAN, StartTrialFails(r, via_mqtt)
      PROVE  OtaInv'
  BY <1>5, OtaUntouched DEF StartTrialFails, durable, appVars, workerVars, otaVars
<1>6. ASSUME NEW via_mqtt \in BOOLEAN, NEW time_ready \in BOOLEAN,
             Refuse(r, via_mqtt, time_ready)
      PROVE  OtaInv'
  BY <1>6, OtaUntouched DEF Refuse, durable, appVars, workerVars, history, otaVars
<1>7. ASSUME NEW via_mqtt \in BOOLEAN, NEW time_ready \in BOOLEAN,
             OtaNotRegistered(r, via_mqtt, time_ready)
      PROVE  OtaInv'
  BY <1>7, NotRegisteredKeepsOta
<1>8. ASSUME NEW via_mqtt \in BOOLEAN, NEW time_ready \in BOOLEAN,
             StartOta(r, via_mqtt, time_ready)
      PROVE  OtaInv'
  BY <1>8, StartKeepsOta
<1>9. ASSUME NEW via_mqtt \in BOOLEAN, NEW time_ready \in BOOLEAN,
             OtaTaskFails(r, via_mqtt, time_ready)
      PROVE  OtaInv'
  BY <1>9, TaskFailsKeepsOta
<1> QED
  BY <1>1, <1>2, <1>3, <1>4, <1>5, <1>6, <1>7, <1>8, <1>9

\* The steps of ota_task that write, select and store the result.
LEMMA WorkingKeepsOta ==
    ASSUME OtaInv,
           WorkerWrites \/ WorkerPrepared \/ WorkerFails \/ WorkerSelects \/ WorkerSelectLost
    PROVE  OtaInv'
<1> DEFINE target == Other(running)
<1>1. /\ worker \in {"started", "writing", "prepared"} /\ ota.active
      /\ ota.op \in Ops /\ ota.image \in Images
      /\ receipt = Prepared(ota.op, ota.image) /\ ota_state[running] = "valid"
      /\ boot_slot \in Slots /\ running \in Slots /\ ota_state \in [Slots -> SlotStates]
      /\ slot_image \in [Slots -> Images \cup {Partial}]
      /\ UNCHANGED <<receipt, running, pending, holder, ota>>
  BY DEF OtaInv, OtaTypes, WorkerOwned, WorkerWrites, WorkerPrepared, WorkerFails,
         WorkerSelects, WorkerSelectLost, durable, appVars
<1>2. /\ target \in Slots /\ target # running /\ Other(target) = running
      /\ \A s \in Slots : s = running \/ s = target
  BY <1>1, TwoSlots
<1>3. \A s \in Slots : ~Unverified(s)
  BY <1>1 DEF OtaInv, NothingSelectedYet
<1>4. boot_slot = running
  BY <1>1, <1>3 DEF OtaInv, SelectorFollows, Unverified
<1>5. ASSUME NEW image \in Images \cup {Partial},
             slot_image' = [slot_image EXCEPT ![target] = image],
             worker' \in {"writing", "prepared"},
             worker' = "prepared" => image = ota.image,
             UNCHANGED <<ota_state, boot_slot, worker_result, selected>>
      PROVE  OtaInv'
  <2>1. /\ slot_image' \in [Slots -> Images \cup {Partial}]
        /\ slot_image'[running] = slot_image[running] /\ slot_image'[target] = image
    BY <1>1, <1>2, <1>5
  <2>2. OtaTypes'
    BY <1>1, <1>5, <2>1 DEF OtaInv, OtaTypes
  <2>3. WorkerOwned'
    BY <1>1, <1>5, <2>1 DEF OtaInv, WorkerOwned, Prepared
  <2>4. NothingSelectedYet' /\ SelectedImageIsAccounted'
    BY <1>3, <1>5 DEF NothingSelectedYet, SelectedImageIsAccounted, Unverified
  <2>5. SelectorFollows'
    BY <1>1, <1>5 DEF OtaInv, SelectorFollows
  <2>6. RunningIsSound'
    BY <1>1, <1>3, <1>5, <2>1 DEF OtaInv, RunningIsSound, Unverified
  <2> QED
    BY <2>2, <2>3, <2>4, <2>5, <2>6 DEF OtaInv
<1>6. ASSUME worker' = "stored", UNCHANGED <<slot_image, ota_state, boot_slot, selected>>
      PROVE  OtaInv'
  <2>1. OtaTypes'
    BY <1>1, <1>6 DEF OtaInv, OtaTypes
  <2>2. WorkerOwned'
    BY <1>1, <1>6 DEF OtaInv, WorkerOwned, Prepared
  <2>3. NothingSelectedYet' /\ SelectedImageIsAccounted'
    BY <1>3, <1>6 DEF NothingSelectedYet, SelectedImageIsAccounted, Unverified
  <2>4. SelectorFollows' /\ RunningIsSound'
    BY <1>1, <1>6 DEF OtaInv, SelectorFollows, RunningIsSound, Unverified
  <2> QED
    BY <2>1, <2>2, <2>3, <2>4 DEF OtaInv
<1>7. CASE WorkerWrites
  BY <1>5, <1>7 DEF WorkerWrites, history
<1>8. CASE WorkerPrepared
  BY <1>1, <1>5, <1>8 DEF WorkerPrepared, history
<1>9. CASE WorkerFails \/ WorkerSelectLost
  BY <1>6, <1>9 DEF WorkerFails, WorkerSelectLost, WorkerStores, durable, history
<1>10. CASE WorkerSelects
  <2>1. /\ worker = "prepared" /\ boot_slot' = target
        /\ ota_state' = [ota_state EXCEPT ![target] = "new"]
        /\ selected' = selected \cup {ota.op} /\ UNCHANGED slot_image
        /\ worker' = "stored" /\ worker_result' \in {"ok", "boot_state_unknown"}
    BY <1>10 DEF WorkerSelects, WorkerStores
  <2>2. /\ ota_state' \in [Slots -> SlotStates] /\ ota_state'[target] = "new"
        /\ ota_state'[running] = "valid"
    BY <1>1, <1>2, <2>1 DEF SlotStates
  <2>3. slot_image[target] = ota.image /\ slot_image[running] # Partial
    BY <2>1 DEF OtaInv, WorkerOwned, RunningIsSound
  <2>4. \A s \in Slots : ota_state'[s] \in {"new", "pending_verify"} => s = target
    BY <1>2, <2>2
  <2>5. OtaTypes'
    BY <1>1, <1>2, <2>1, <2>2 DEF OtaInv, OtaTypes
  <2>6. WorkerOwned'
    BY <1>1, <2>1, <2>2 DEF OtaInv, WorkerOwned, Prepared
  <2>7. NothingSelectedYet'
    BY <2>1 DEF NothingSelectedYet
  <2>8. SelectorFollows'
    BY <1>1, <1>2, <2>1, <2>2, <2>4 DEF SelectorFollows
  <2>9. RunningIsSound'
    BY <1>1, <1>2, <2>1, <2>2, <2>3, <2>4 DEF RunningIsSound, Unverified
  <2>10. SelectedImageIsAccounted'
    BY <1>1, <2>1, <2>3, <2>4 DEF SelectedImageIsAccounted, Prepared
  <2> QED
    BY <2>5, <2>6, <2>7, <2>8, <2>9, <2>10 DEF OtaInv
<1> QED
  BY <1>7, <1>8, <1>9, <1>10

\* The step that tells the control task of the result changes nothing else.
LEMMA WorkerKeepsOta ==
    ASSUME OtaInv, WorkerStep
    PROVE  OtaInv'
<1>1. CASE WorkerDone
  <2>1. /\ worker = "stored" /\ worker' = "done"
        /\ UNCHANGED <<receipt, slot_image, ota_state, boot_slot, running, pending, holder, ota,
                       worker_result, selected>>
    BY <1>1 DEF WorkerDone, durable, appVars, history
  <2>2. OtaTypes' /\ NothingSelectedYet'
    BY <2>1 DEF OtaInv, OtaTypes, NothingSelectedYet, Unverified
  <2>3. WorkerOwned'
    BY <2>1 DEF OtaInv, WorkerOwned, Prepared
  <2>4. SelectorFollows' /\ RunningIsSound' /\ SelectedImageIsAccounted'
    BY <2>1 DEF OtaInv, SelectorFollows, RunningIsSound, SelectedImageIsAccounted, Unverified
  <2> QED
    BY <2>2, <2>3, <2>4 DEF OtaInv
<1> QED
  BY <1>1, WorkingKeepsOta DEF WorkerStep

\* The worker's report is taken: a failure is recorded only when nothing was selected.
LEMMA PollKeepsOta ==
    ASSUME OtaInv, PollOta
    PROVE  OtaInv'
<1>1. CASE PollOtaRestarts
  BY <1>1, ResetKeepsOta DEF PollOtaRestarts
<1>2. ASSUME ota' = NoOta, worker' = "none",
             receipt' \in Receipts \cup {NoReceipt},
             UNCHANGED <<slot_image, ota_state, boot_slot, running, selected>>,
             receipt' = receipt \/ \A s \in Slots : ~Unverified(s)
      PROVE  OtaInv'
  <2>1. OtaTypes'
    BY <1>2 DEF OtaInv, OtaTypes, NoOta
  <2>2. WorkerOwned'
    BY <1>2 DEF WorkerOwned, NoOta
  <2>3. NothingSelectedYet'
    BY <1>2 DEF NothingSelectedYet
  <2>4. SelectorFollows' /\ RunningIsSound'
    BY <1>2 DEF OtaInv, SelectorFollows, RunningIsSound, Unverified
  <2>5. SelectedImageIsAccounted'
    BY <1>2 DEF OtaInv, SelectedImageIsAccounted, Unverified
  <2> QED
    BY <2>1, <2>2, <2>3, <2>4, <2>5 DEF OtaInv
<1>3. CASE PollOtaBootUnknown
  BY <1>2, <1>3 DEF PollOtaBootUnknown, EndOta, durable, appVars, history, OtaInv, OtaTypes
<1>4. CASE PollOtaFails
  <2>1. \A s \in Slots : ~Unverified(s)
    BY <1>4 DEF PollOtaFails, WorkerReported, OtaInv, NothingSelectedYet
  <2>2. receipt' \in Receipts \cup {NoReceipt}
    <3>1. PICK load \in LoadReceipt(receipt) :
            \E f \in RecordFailure(receipt, ota.op, load) : receipt' = f.receipt
      BY <1>4 DEF PollOtaFails
    <3>2. PICK f \in RecordFailure(receipt, ota.op, load) : receipt' = f.receipt
      BY <3>1
    <3> QED
      BY <3>2, RecordAnswers DEF OtaInv, OtaTypes
  <2> QED
    BY <1>2, <1>4, <2>1, <2>2 DEF PollOtaFails, EndOta, appVars
<1> QED
  BY <1>1, <1>3, <1>4 DEF PollOta

LEMMA OtaInvInit == Init => OtaInv
<1> SUFFICES ASSUME Init PROVE OtaInv
  OBVIOUS
<1>1. /\ running = 0 /\ boot_slot = 0 /\ worker = "none"
      /\ ota = NoOta /\ receipt \in Receipts \cup {NoReceipt}
      /\ slot_image = [s \in Slots |-> IF s = 0 THEN FactoryImage ELSE Partial]
      /\ FactoryImage \in Images
  BY DeviceAssumption DEF Init
<1>2. PICK st \in {"valid", "undefined"} :
        ota_state = [s \in Slots |-> IF s = 0 THEN st ELSE "untracked"]
  BY DEF Init
<1>3. /\ ota.active = FALSE /\ slot_image \in [Slots -> Images \cup {Partial}]
      /\ ota_state \in [Slots -> SlotStates] /\ running \in Slots /\ boot_slot \in Slots
      /\ slot_image[running] # Partial /\ ota_state[running] \in {"valid", "undefined"}
  BY <1>1, <1>2, PartialAssumption DEF NoOta, Slots, SlotStates
<1>4. \A s \in Slots : ~Unverified(s)
  BY <1>2 DEF Unverified
<1>5. OtaTypes
  BY <1>1, <1>3 DEF OtaTypes
<1>6. WorkerOwned /\ NothingSelectedYet
  BY <1>1, <1>3 DEF WorkerOwned, NothingSelectedYet
<1>7. SelectorFollows /\ RunningIsSound /\ SelectedImageIsAccounted
  BY <1>1, <1>3, <1>4 DEF SelectorFollows, RunningIsSound, SelectedImageIsAccounted, Unverified
<1> QED
  BY <1>5, <1>6, <1>7 DEF OtaInv

LEMMA OtaInvStep == OtaInv /\ [Next]_vars => OtaInv'
<1> SUFFICES ASSUME OtaInv, [Next]_vars
             PROVE  OtaInv'
  OBVIOUS
<1>1. CASE AppMain
  BY <1>1, AppMainKeepsOta
<1>2. CASE HandleLine
  BY <1>2, HandleLineKeepsOta
<1>3. CASE PollConfiguration
  BY <1>3, OtaUntouched DEF PollConfiguration, CommitTrial, TrialFails, durable, appVars,
     workerVars, history, otaVars
<1>4. CASE PollOta
  BY <1>4, PollKeepsOta
<1>5. CASE WorkerStep
  BY <1>5, WorkerKeepsOta
<1>6. CASE PollWifi \/ Tick
  BY <1>6, OtaUntouched DEF PollWifi, Tick, durable, appVars, workerVars, history, otaVars
<1>7. CASE PowerLoss
  BY <1>7, ResetKeepsOta DEF PowerLoss
<1>8. CASE UNCHANGED vars
  BY <1>8, OtaUntouched DEF vars, durable, appVars, workerVars, history, otaVars
<1> QED
  BY <1>1, <1>2, <1>3, <1>4, <1>5, <1>6, <1>7, <1>8 DEF Next

LEMMA OtaInvAlways == Spec => []OtaInv
BY OtaInvInit, OtaInvStep, PTL DEF Spec

\* The worker never writes outside its registered operation: from the start of the
\* download to its report the claim is held and the durable receipt names what is being
\* written (esp_base_ota_receipt_register before the first write, ota_task).
THEOREM WritersAreRegistered == Spec => []WriterIsRegistered
<1>1. OtaInv => WriterIsRegistered
  BY DEF OtaInv, WorkerOwned, WriterIsRegistered, Prepared
<1> QED
  BY <1>1, OtaInvAlways, PTL

\* An image that is selected and not verified is the complete image of the receipt, in
\* its target slot, whatever resets and rollbacks came before (evaluate, eota_select).
THEOREM SelectionsAreAccounted == Spec => []SelectedImageIsAccounted
<1>1. OtaInv => SelectedImageIsAccounted
  BY DEF OtaInv
<1> QED
  BY <1>1, OtaInvAlways, PTL

\* Power may be lost between any two steps: the next boot finds a complete image, and
\* the slot behind an unverified one is complete and accepted.
THEOREM AlwaysBoots == Spec => []AlwaysBootable
<1>1. OtaInv => AlwaysBootable
  <2> SUFFICES ASSUME OtaInv PROVE AlwaysBootable
    OBVIOUS
  <2>1. /\ running \in Slots /\ boot_slot \in Slots
        /\ receipt \in Receipts \cup {NoReceipt}
    BY DEF OtaInv, OtaTypes
  <2>2. slot_image[BootsFrom(ota_state, boot_slot)] # Partial
    <3>1. CASE ota_state[boot_slot] = "pending_verify"
      BY <2>1, <3>1 DEF OtaInv, RunningIsSound, Unverified, BootsFrom
    <3>2. CASE ota_state[boot_slot] # "pending_verify" /\ boot_slot = running
      BY <3>2 DEF OtaInv, RunningIsSound, BootsFrom
    <3>3. CASE ota_state[boot_slot] # "pending_verify" /\ boot_slot # running
      <4>1. ota_state[boot_slot] = "new"
        BY <3>3 DEF OtaInv, SelectorFollows
      <4>2. receipt.status = "prepared" /\ slot_image[boot_slot] = receipt.image
        BY <2>1, <4>1 DEF OtaInv, SelectedImageIsAccounted
      <4>3. receipt.image \in Images
        BY <2>1, <4>2 DEF NoReceipt, Receipts
      <4> QED
        BY <3>3, <4>2, <4>3, PartialAssumption DEF BootsFrom
    <3> QED
      BY <3>1, <3>2, <3>3
  <2> QED
    BY <2>2 DEF OtaInv, RunningIsSound, AlwaysBootable, Unverified
<1> QED
  BY <1>1, OtaInvAlways, PTL

\* A final verdict is given only while no worker exists, on the selected slot, verified.
LEMMA FinalVerdict ==
    ASSUME OtaInv, Verdict.state \in {"succeeded", "failed"}
    PROVE  /\ ~ota.active /\ worker = "none"
           /\ running = boot_slot /\ ota_state[running] = "valid"
<1>1. ~(ota.active /\ ota.op = receipt.op)
  BY DEF Verdict, Evaluate
<1>2. ~ota.active
  BY <1>1 DEF OtaInv, WorkerOwned, Prepared
<1>3. running = boot_slot /\ ota_state[running] = "valid"
  BY <1>1 DEF Verdict, Evaluate, Observe
<1> QED
  BY <1>2, <1>3 DEF OtaInv, WorkerOwned

\* While no worker exists the verdict depends on the receipt and the slots only.
LEMMA SameVerdict ==
    ASSUME ~ota.active, ~ota'.active,
           UNCHANGED <<receipt, running, boot_slot, ota_state, slot_image>>
    PROVE  Verdict' = Verdict
  BY DEF Verdict, Evaluate, Observe

\* A reset on a verified and selected slot comes back to it.
LEMMA ResetIntoVerified ==
    ASSUME Reset(ota_state, boot_slot), running = boot_slot, ota_state[running] = "valid"
    PROVE  ~ota'.active /\ UNCHANGED <<running, boot_slot, ota_state>>
  BY DEF Reset, NoOta, BootsFrom, StatesAfterBoot

\* What ota.result once called "succeeded" or "failed" for an operation it never calls
\* otherwise while the receipt stays (evaluate, esp_base_ota_receipt.c).
THEOREM VerdictsStay == Spec => VerdictsAreFinal
<1> DEFINE Final == receipt # NoReceipt /\ receipt' = receipt
                    /\ Verdict.state \in {"succeeded", "failed"}
<1>1. ASSUME OtaInv, Next, Final
      PROVE  Verdict' = Verdict
  <2>1. /\ ~ota.active /\ worker = "none"
        /\ running = boot_slot /\ ota_state[running] = "valid"
        /\ running \in Slots /\ ota_state \in [Slots -> SlotStates]
        /\ receipt # NoReceipt /\ receipt' = receipt
    BY <1>1, FinalVerdict DEF OtaInv, OtaTypes
  <2>2. CASE UNCHANGED <<running, boot_slot, ota_state, slot_image, ota>>
    BY <2>1, <2>2, SameVerdict
  <2>3. CASE Reset(ota_state, boot_slot) /\ UNCHANGED slot_image
    BY <2>1, <2>3, ResetIntoVerified, SameVerdict
  <2>4. CASE AppMain
    <3>1. CASE ConfirmPending
      <4>1. ota_state' = ota_state
        BY <2>1, <3>1 DEF ConfirmPending
      <4> QED
        BY <2>2, <3>1, <4>1 DEF ConfirmPending
    <3>2. CASE RejectPending
      BY <2>1, <3>2 DEF RejectPending
    <3> QED
      BY <2>2, <2>4, <3>1, <3>2 DEF AppMain, StartControl, StopBeforeControl, RejectFails,
         ReleaseBootClaim, ClearPending, durable
  <2>5. CASE HandleLine
    <3>1. PICK r \in Requests :
            \/ NotAdmitted(r)
            \/ Restart(r)
            \/ \E via_mqtt \in BOOLEAN :
                 \/ StartTrial(r, via_mqtt)
                 \/ StartTrialFails(r, via_mqtt)
                 \/ \E time_ready \in BOOLEAN :
                      \/ Refuse(r, via_mqtt, time_ready)
                      \/ OtaNotRegistered(r, via_mqtt, time_ready)
                      \/ StartOta(r, via_mqtt, time_ready)
                      \/ OtaTaskFails(r, via_mqtt, time_ready)
      BY <2>5 DEF HandleLine
    <3>2. CASE NotAdmitted(r)
      BY <2>2, <3>2 DEF NotAdmitted, vars, durable, appVars
    <3>3. CASE Restart(r)
      BY <2>3, <3>3 DEF Restart
    <3>4. ASSUME NEW via_mqtt \in BOOLEAN,
                 StartTrial(r, via_mqtt) \/ StartTrialFails(r, via_mqtt)
          PROVE  Verdict' = Verdict
      BY <2>2, <3>4 DEF StartTrial, StartTrialFails, durable, appVars
    <3>5. ASSUME NEW via_mqtt \in BOOLEAN, NEW time_ready \in BOOLEAN,
                 StartOta(r, via_mqtt, time_ready)
          PROVE  FALSE
      <4>1. PICK reg \in Registrations(r.body.op, r.body.image) :
              reg.result = "ok" /\ receipt' = reg.receipt
        BY <3>5 DEF StartOta
      <4>2. receipt' = Prepared(r.body.op, r.body.image) /\ receipt.op # r.body.op
        BY <2>1, <4>1, RegisterAnswers
      <4> QED
        BY <2>1, <4>2 DEF Prepared
    <3>6. ASSUME NEW via_mqtt \in BOOLEAN, NEW time_ready \in BOOLEAN,
                 \/ Refuse(r, via_mqtt, time_ready)
                 \/ OtaNotRegistered(r, via_mqtt, time_ready)
                 \/ OtaTaskFails(r, via_mqtt, time_ready)
          PROVE  Verdict' = Verdict
      BY <2>2, <3>6 DEF Refuse, OtaNotRegistered, OtaTaskFails, durable, appVars
    <3> QED
      BY <3>1, <3>2, <3>3, <3>4, <3>5, <3>6
  <2>6. CASE PollConfiguration
    BY <2>2, <2>6 DEF PollConfiguration, CommitTrial, TrialFails, durable, appVars
  <2>7. CASE PollOta \/ WorkerStep
    BY <2>1, <2>7 DEF PollOta, PollOtaRestarts, PollOtaBootUnknown, PollOtaFails, WorkerReported,
       WorkerStep, WorkerWrites, WorkerPrepared, WorkerFails, WorkerSelects, WorkerSelectLost, WorkerDone
  <2>8. CASE PollWifi \/ Tick
    BY <2>2, <2>8 DEF PollWifi, Tick, durable, appVars
  <2>9. CASE PowerLoss
    BY <2>3, <2>9 DEF PowerLoss
  <2> QED
    BY <1>1, <2>4, <2>5, <2>6, <2>7, <2>8, <2>9 DEF Next
<1>2. OtaInv /\ [Next]_vars => [Final => Verdict' = Verdict]_vars
  BY <1>1
<1> QED
  BY <1>2, OtaInvAlways, PTL DEF Spec, VerdictsAreFinal
-----------------------------------------------------------------------------
(* The configuration, its store and the Wi-Fi selection                      *)

WifiOwners ==
    [initialized : BOOLEAN, config : Networks \cup {NoNetwork}, active : BOOLEAN,
     stopping : BOOLEAN, ready : BOOLEAN, state : WifiStates]

ControlTypes ==
    /\ nvs_config \in Configs /\ acked \in Configs /\ config \in Configs
    /\ trial.candidate \in Configs
    /\ wifi \in WifiOwners

\* The candidate on trial is the one the Wi-Fi owner is set to, so that what is
\* committed is what was tried.
CandidateIsSelected ==
    trial.active => ControlUp /\ wifi.initialized /\ wifi.config = trial.candidate.wifi

ControlInv ==
    /\ ControlTypes
    /\ CandidateIsSelected
    /\ AckedConfigDurable
    /\ MemoryMatchesStore
    /\ SelectionMatchesConfig

\* The variables ControlInv reads.
controlVars == <<nvs_config, acked, config, config_uncertain, trial, wifi, phase>>

\* A step that leaves those variables alone preserves the invariant.
LEMMA ControlUntouched ==
    ASSUME ControlInv, UNCHANGED controlVars
    PROVE  ControlInv'
  BY DEF ControlInv, ControlTypes, CandidateIsSelected, AckedConfigDurable, MemoryMatchesStore,
         SelectionMatchesConfig, ControlUp, controlVars

\* The configuration a blank device starts with.
LEMMA EmptyIsConfig == EmptyConfig \in Configs /\ EmptyConfig.wifi = NoNetwork
  BY RevisionAssumption DEF EmptyConfig, Configs

LEMMA OffIsOwner == WifiOff \in WifiOwners /\ WifiOff.initialized = FALSE
  BY DEF WifiOff, WifiOwners, WifiStates

\* start_selected keeps the selection, whether the driver starts or not.
LEMMA StartAnswers ==
    ASSUME NEW w \in WifiOwners, NEW a \in StartSelected(w)
    PROVE  /\ a.wifi \in WifiOwners
           /\ a.wifi.initialized = w.initialized /\ a.wifi.config = w.config
<1> DEFINE v == [w EXCEPT !.ready = FALSE]
<1>1. v \in WifiOwners /\ v.initialized = w.initialized /\ v.config = w.config
  BY DEF WifiOwners
<1>2. \/ a.wifi = [v EXCEPT !.state = "unconfigured"]
      \/ a.wifi = [v EXCEPT !.active = TRUE, !.state = "connecting"]
      \/ a.wifi = [v EXCEPT !.state = "failed", !.ready = FALSE]
  BY DEF StartSelected, Failed
<1> HIDE DEF v
<1> QED
  BY <1>1, <1>2 DEF WifiOwners, WifiStates

\* esp_base_wifi_apply: whatever it answers, an initialized owner is set to the network;
\* one that is not initialized refuses.
LEMMA ApplyAnswers ==
    ASSUME NEW w \in WifiOwners, NEW network \in Networks \cup {NoNetwork},
           NEW a \in WifiApply(w, network)
    PROVE  /\ a.wifi \in WifiOwners
           /\ a.wifi.initialized = w.initialized
           /\ w.initialized => a.wifi.config = network
           /\ a.ok => w.initialized
<1> DEFINE v == [w EXCEPT !.config = network, !.ready = FALSE]
           halted == [v EXCEPT !.active = FALSE]
<1>1. /\ v \in WifiOwners /\ v.initialized = w.initialized /\ v.config = network
      /\ halted \in WifiOwners /\ halted.initialized = w.initialized
      /\ halted.config = network
  BY DEF WifiOwners
<1>2. CASE ~w.initialized
  BY <1>2 DEF WifiApply
<1>3. CASE w.initialized
  <2>1. \/ a.wifi = v
        \/ a \in StartSelected(v)
        \/ a.wifi = [v EXCEPT !.stopping = TRUE, !.state = "connecting"]
        \/ a.wifi = [v EXCEPT !.state = "failed", !.ready = FALSE]
        \/ a \in StartSelected(halted)
    BY <1>3 DEF WifiApply, Failed
  <2> HIDE DEF v, halted
  <2>2. CASE a \in StartSelected(v) \/ a \in StartSelected(halted)
    BY <1>1, <1>3, <2>2, StartAnswers
  <2>3. CASE a.wifi = v
    BY <1>1, <1>3, <2>3
  <2>4. CASE a.wifi = [v EXCEPT !.stopping = TRUE, !.state = "connecting"]
    BY <1>1, <1>3, <2>4 DEF WifiOwners, WifiStates
  <2>5. CASE a.wifi = [v EXCEPT !.state = "failed", !.ready = FALSE]
    BY <1>1, <1>3, <2>5 DEF WifiOwners, WifiStates
  <2> QED
    BY <2>1, <2>2, <2>3, <2>4, <2>5
<1> QED
  BY <1>2, <1>3

\* esp_base_wifi_start with the stored selection.
LEMMA WifiStartAnswers ==
    ASSUME NEW network \in Networks \cup {NoNetwork}, NEW w \in WifiStart(network)
    PROVE  w \in WifiOwners /\ (w.initialized => w.config = network)
<1> DEFINE on == [WifiOff EXCEPT !.initialized = TRUE]
<1>1. on \in WifiOwners /\ on.initialized = TRUE
  BY OffIsOwner DEF WifiOwners
<1>2. Failed(WifiOff) \in WifiOwners /\ Failed(WifiOff).initialized = FALSE
  BY OffIsOwner DEF WifiOwners, Failed, WifiStates
<1>3. w = Failed(WifiOff) \/ \E a \in WifiApply(on, network) : w = a.wifi
  BY DEF WifiStart
<1> HIDE DEF on
<1> QED
  BY <1>1, <1>2, <1>3, ApplyAnswers

\* A driver event never changes the selection.
LEMMA PollAnswers ==
    ASSUME NEW w \in WifiOwners, NEW u \in WifiPoll(w)
    PROVE  u \in WifiOwners /\ u.initialized = w.initialized /\ u.config = w.config
<1> DEFINE v == [w EXCEPT !.active = FALSE, !.stopping = FALSE, !.ready = FALSE]
<1>1. v \in WifiOwners /\ v.initialized = w.initialized /\ v.config = w.config
  BY DEF WifiOwners
<1>2. \/ u \in Stopped(w)
      \/ \E ready \in BOOLEAN, state \in WifiStates :
           \/ u = [w EXCEPT !.state = state, !.ready = ready]
           \/ u = [w EXCEPT !.ready = ready, !.state = state]
           \/ u = [w EXCEPT !.ready = ready]
           \/ u = [w EXCEPT !.state = state]
  BY DEF WifiPoll, StopTimedOut, Overflowed, GotAddress, Disconnected, LostAddress,
         Reconnecting, Failed, WifiStates
<1>3. CASE u \in Stopped(w)
  <2>1. u = v \/ \E a \in StartSelected(v) : u = a.wifi
    BY <1>3 DEF Stopped
  <2> HIDE DEF v
  <2> QED
    BY <1>1, <2>1, StartAnswers
<1>4. CASE u \notin Stopped(w)
  BY <1>2, <1>4 DEF WifiOwners
<1> QED
  BY <1>3, <1>4

\* commit_verified: what can be durable after each of its results.
LEMMA CommitAnswers ==
    ASSUME NEW nvs \in Configs, NEW candidate \in Configs,
           NEW c \in CommitVerified(nvs, candidate)
    PROVE  /\ c.nvs \in Configs
           /\ c.nvs = nvs \/ c.nvs.revision > nvs.revision
           /\ c.result \in {"error", "conflict", "exhausted"} => c.nvs = nvs
           /\ c.result = "ok" => c.committed = c.nvs /\ c.nvs.wifi = candidate.wifi
<1> DEFINE next == [candidate EXCEPT !.revision = @ + 1]
<1>1. CASE nvs.revision = candidate.revision /\ candidate.revision # MaxRevision
  <2>1. /\ next \in Configs /\ next.revision = candidate.revision + 1
        /\ next.wifi = candidate.wifi /\ candidate.revision \in Nat
    BY <1>1, RevisionAssumption DEF Configs
  <2>2. next.revision > nvs.revision
    BY <1>1, <2>1
  <2>3. \/ c = [result |-> "error", nvs |-> nvs]
        \/ c = [result |-> "uncertain", nvs |-> nvs]
        \/ c = [result |-> "uncertain", nvs |-> next]
        \/ c = [result |-> "ok", nvs |-> next, committed |-> next]
    BY <1>1 DEF CommitVerified
  <2> HIDE DEF next
  <2> QED
    BY <2>1, <2>2, <2>3
<1>2. CASE nvs.revision # candidate.revision \/ candidate.revision = MaxRevision
  BY <1>2 DEF CommitVerified
<1> QED
  BY <1>1, <1>2

\* A reset starts without a control task and without a trial.
LEMMA ResetKeepsControl ==
    ASSUME ControlInv, NEW states, NEW slot, Reset(states, slot), UNCHANGED <<nvs_config, acked>>
    PROVE  ControlInv'
<1>1. phase' = "starting" /\ trial' = NoTrial /\ wifi' = WifiOff /\ config' = EmptyConfig
  BY DEF Reset
<1>2. ~ControlUp' /\ trial'.active = FALSE /\ trial'.candidate \in Configs
  BY <1>1, EmptyIsConfig DEF ControlUp, NoTrial
<1>3. ControlTypes'
  BY <1>1, <1>2, EmptyIsConfig, OffIsOwner DEF ControlInv, ControlTypes
<1>4. CandidateIsSelected' /\ MemoryMatchesStore' /\ SelectionMatchesConfig'
  BY <1>2 DEF CandidateIsSelected, MemoryMatchesStore, SelectionMatchesConfig
<1>5. AckedConfigDurable'
  BY DEF ControlInv, AckedConfigDurable
<1> QED
  BY <1>3, <1>4, <1>5 DEF ControlInv

\* The control task starts with the stored configuration.
LEMMA StartKeepsControl ==
    ASSUME ControlInv, StartControl
    PROVE  ControlInv'
<1>1. /\ ~ControlUp /\ config' = nvs_config /\ UNCHANGED <<nvs_config, acked, trial>>
      /\ wifi' \in WifiStart(nvs_config.wifi)
  BY DEF StartControl, ControlUp, durable, history
<1>2. nvs_config.wifi \in Networks \cup {NoNetwork}
  BY DEF ControlInv, ControlTypes, Configs
<1>3. wifi' \in WifiOwners /\ (wifi'.initialized => wifi'.config = config'.wifi)
  BY <1>1, <1>2, WifiStartAnswers
<1>4. ~trial.active
  BY <1>1 DEF ControlInv, CandidateIsSelected
<1>5. ControlTypes'
  BY <1>1, <1>3 DEF ControlInv, ControlTypes
<1>6. CandidateIsSelected' /\ MemoryMatchesStore' /\ SelectionMatchesConfig'
  BY <1>1, <1>3, <1>4 DEF CandidateIsSelected, MemoryMatchesStore, SelectionMatchesConfig
<1>7. AckedConfigDurable'
  BY <1>1 DEF ControlInv, AckedConfigDurable
<1> QED
  BY <1>5, <1>6, <1>7 DEF ControlInv

\* The other steps of app_main: the control task stays up once it is up.
LEMMA AppMainKeepsControl ==
    ASSUME ControlInv, AppMain
    PROVE  ControlInv'
<1>1. CASE StartControl
  BY <1>1, StartKeepsControl
<1>2. CASE RejectPending
  BY <1>2, ResetKeepsControl DEF RejectPending
<1>3. CASE StopBeforeControl \/ RejectFails \/ ConfirmPending \/ ReleaseBootClaim \/ ClearPending
  <2>1. /\ UNCHANGED <<nvs_config, acked, config, config_uncertain, trial, wifi>>
        /\ ControlUp' => ControlUp
        /\ ControlUp => ControlUp'
    BY <1>3 DEF StopBeforeControl, RejectFails, ConfirmPending, ReleaseBootClaim, ClearPending,
       durable, controlFlags, history, ControlUp
  <2>2. ControlTypes' /\ AckedConfigDurable'
    BY <2>1 DEF ControlInv, ControlTypes, AckedConfigDurable
  <2>3. CandidateIsSelected' /\ MemoryMatchesStore' /\ SelectionMatchesConfig'
    BY <2>1 DEF ControlInv, CandidateIsSelected, MemoryMatchesStore, SelectionMatchesConfig
  <2> QED
    BY <2>2, <2>3 DEF ControlInv
<1> QED
  BY <1>1, <1>2, <1>3 DEF AppMain

\* config.set: what is on trial is what the Wi-Fi owner was set to.
LEMMA TrialKeepsControl ==
    ASSUME ControlInv, NEW r \in Requests, NEW via_mqtt, StartTrial(r, via_mqtt)
    PROVE  ControlInv'
<1> DEFINE candidate == r.body.config
<1>1. candidate \in Configs /\ candidate.wifi \in Networks \cup {NoNetwork}
  BY BodiesAssumption DEF StartTrial, Configs
<1>2. PICK a \in WifiApply(wifi, candidate.wifi) : a.ok /\ wifi' = a.wifi
  BY DEF StartTrial
<1>3. /\ wifi' \in WifiOwners /\ wifi'.initialized /\ wifi'.config = candidate.wifi
  BY <1>1, <1>2, ApplyAnswers DEF ControlInv, ControlTypes
<1>4. /\ ControlUp /\ trial'.active = TRUE /\ trial'.candidate = candidate
      /\ UNCHANGED <<nvs_config, acked, config, config_uncertain, phase>>
  BY DEF StartTrial, Admits, durable, appVars, controlFlags
<1> HIDE DEF candidate
<1>5. ControlTypes' /\ AckedConfigDurable'
  BY <1>1, <1>3, <1>4 DEF ControlInv, ControlTypes, AckedConfigDurable
<1>6. CandidateIsSelected' /\ SelectionMatchesConfig'
  BY <1>3, <1>4 DEF CandidateIsSelected, SelectionMatchesConfig, ControlUp
<1>7. MemoryMatchesStore'
  BY <1>4 DEF ControlInv, MemoryMatchesStore, ControlUp
<1> QED
  BY <1>5, <1>6, <1>7 DEF ControlInv

\* config.set: a candidate that cannot be selected leaves the committed selection, or the
\* configuration is declared uncertain.
LEMMA NoTrialKeepsControl ==
    ASSUME ControlInv, NEW r \in Requests, NEW via_mqtt, StartTrialFails(r, via_mqtt)
    PROVE  ControlInv'
<1>1. r.body.config.wifi \in Networks \cup {NoNetwork} /\ config.wifi \in Networks \cup {NoNetwork}
  BY BodiesAssumption DEF StartTrialFails, Configs, ControlInv, ControlTypes
<1>2. PICK a \in WifiApply(wifi, r.body.config.wifi) :
        \E b \in RestoreCommitted(a.wifi, config.wifi) :
          wifi' = b.wifi /\ config_uncertain' = ~b.ok
  BY DEF StartTrialFails
<1>3. PICK b \in WifiApply(a.wifi, config.wifi) : wifi' = b.wifi /\ config_uncertain' = ~b.ok
  BY <1>2 DEF RestoreCommitted
<1>4. a.wifi \in WifiOwners
  BY <1>1, <1>2, ApplyAnswers DEF ControlInv, ControlTypes
<1>5. wifi' \in WifiOwners /\ (wifi'.initialized => wifi'.config = config.wifi)
  BY <1>1, <1>3, <1>4, ApplyAnswers
<1>6. /\ ControlUp /\ ~config_uncertain /\ ~trial.active
      /\ UNCHANGED <<nvs_config, acked, config, trial, phase>>
  BY DEF StartTrialFails, Admits, ConfigRefusal, durable, appVars
<1>7. ControlTypes' /\ AckedConfigDurable'
  BY <1>5, <1>6 DEF ControlInv, ControlTypes, AckedConfigDurable
<1>8. CandidateIsSelected' /\ SelectionMatchesConfig'
  BY <1>5, <1>6 DEF CandidateIsSelected, SelectionMatchesConfig
<1>9. MemoryMatchesStore'
  BY <1>6 DEF ControlInv, MemoryMatchesStore, ControlUp
<1> QED
  BY <1>7, <1>8, <1>9 DEF ControlInv

\* The committed selection is restored.
LEMMA RestoreAnswers ==
    ASSUME ControlInv, NEW a \in RestoreCommitted(wifi, config.wifi)
    PROVE  a.wifi \in WifiOwners /\ (a.wifi.initialized => a.wifi.config = config.wifi)
<1>1. config.wifi \in Networks \cup {NoNetwork} /\ wifi \in WifiOwners
  BY DEF ControlInv, ControlTypes, Configs
<1> QED
  BY <1>1, ApplyAnswers DEF RestoreCommitted

\* A trial that ends without a commit.
LEMMA TrialFailsKeepsControl ==
    ASSUME ControlInv, TrialFails
    PROVE  ControlInv'
<1>1. PICK a \in RestoreCommitted(wifi, config.wifi) : wifi' = a.wifi
  BY DEF TrialFails
<1>2. wifi' \in WifiOwners /\ (wifi'.initialized => wifi'.config = config.wifi)
  BY <1>1, RestoreAnswers
<1>3. /\ trial' = NoTrial /\ UNCHANGED <<nvs_config, acked, config, phase>>
      /\ config_uncertain => config_uncertain'
  BY DEF TrialFails, durable, appVars, history
<1>4. trial'.active = FALSE /\ trial'.candidate \in Configs
  BY <1>3, EmptyIsConfig DEF NoTrial
<1>5. ControlTypes' /\ AckedConfigDurable'
  BY <1>2, <1>3, <1>4 DEF ControlInv, ControlTypes, AckedConfigDurable
<1>6. CandidateIsSelected' /\ SelectionMatchesConfig'
  BY <1>2, <1>3, <1>4 DEF CandidateIsSelected, SelectionMatchesConfig
<1>7. MemoryMatchesStore'
  BY <1>3 DEF ControlInv, MemoryMatchesStore, ControlUp
<1> QED
  BY <1>5, <1>6, <1>7 DEF ControlInv

\* A commit: stored and reported, refused, or in doubt; what was acknowledged before is
\* overtaken at most by a later revision.
LEMMA CommitKeepsControl ==
    ASSUME ControlInv, CommitTrial
    PROVE  ControlInv'
<1>1. /\ ControlUp /\ trial' = NoTrial /\ UNCHANGED phase
      /\ wifi.initialized /\ wifi.config = trial.candidate.wifi
      /\ nvs_config \in Configs /\ acked \in Configs /\ config \in Configs
      /\ trial.candidate \in Configs /\ wifi \in WifiOwners
  BY DEF CommitTrial, appVars, ControlInv, ControlTypes, CandidateIsSelected
<1>2. trial'.active = FALSE /\ trial'.candidate \in Configs /\ ControlUp'
  BY <1>1, EmptyIsConfig DEF NoTrial, ControlUp
<1>3. PICK c \in CommitVerified(nvs_config, trial.candidate) :
        /\ nvs_config' = c.nvs
        /\ \/ /\ c.result = "ok" /\ config' = c.committed /\ acked' = c.committed
              /\ UNCHANGED <<config_uncertain, wifi>>
           \/ /\ c.result = "uncertain" /\ config_uncertain' = TRUE /\ UNCHANGED acked
              /\ \E l \in Load(c.nvs) :
                   /\ config' = IF l.ok THEN l.config ELSE config
                   /\ \E a \in IF l.ok THEN RestoreCommitted(wifi, l.config.wifi)
                               ELSE WifiApply(wifi, NoNetwork) : wifi' = a.wifi
           \/ /\ c.result \in {"error", "conflict", "exhausted"} /\ UNCHANGED <<config, acked>>
              /\ \E a \in RestoreCommitted(wifi, config.wifi) :
                   /\ wifi' = a.wifi
                   /\ config_uncertain' = (config_uncertain \/ ~a.ok)
  BY DEF CommitTrial
<1>4. /\ nvs_config' \in Configs
      /\ nvs_config' = nvs_config \/ nvs_config'.revision > nvs_config.revision
      /\ c.result \in {"error", "conflict", "exhausted"} => nvs_config' = nvs_config
      /\ c.result = "ok" => c.committed = nvs_config' /\ nvs_config'.wifi = trial.candidate.wifi
  BY <1>1, <1>3, CommitAnswers
<1>5. CASE c.result = "ok"
  <2>1. /\ config' = nvs_config' /\ acked' = nvs_config' /\ wifi' = wifi
        /\ nvs_config'.wifi = trial.candidate.wifi /\ nvs_config' \in Configs
    BY <1>3, <1>4, <1>5
  <2>2. ControlTypes'
    BY <1>1, <1>2, <2>1 DEF ControlTypes
  <2>3. AckedConfigDurable'
    <3>1. nvs_config'.revision \in Nat
      BY <2>1 DEF Configs
    <3> QED
      BY <2>1, <3>1 DEF AckedConfigDurable
  <2>4. CandidateIsSelected' /\ MemoryMatchesStore' /\ SelectionMatchesConfig'
    BY <1>1, <1>2, <2>1 DEF CandidateIsSelected, MemoryMatchesStore, SelectionMatchesConfig
  <2> QED
    BY <2>2, <2>3, <2>4 DEF ControlInv
<1>6. ASSUME UNCHANGED acked
      PROVE  AckedConfigDurable'
  <2>1. CASE nvs_config' = nvs_config
    BY <1>6, <2>1 DEF ControlInv, AckedConfigDurable
  <2>2. CASE nvs_config'.revision > nvs_config.revision
    <3> DEFINE n == nvs_config'.revision
               o == nvs_config.revision
               k == acked.revision
    <3>1. n \in Nat /\ o \in Nat /\ k \in Nat /\ o >= k /\ n > o
      BY <1>1, <1>4, <2>2 DEF ControlInv, AckedConfigDurable, Configs
    <3>2. n >= k /\ n # k
      <4> HIDE DEF n, o, k
      <4> QED
        BY <3>1
    <3> QED
      BY <1>6, <3>2 DEF AckedConfigDurable
  <2> QED
    BY <1>4, <2>1, <2>2
<1>7. CASE c.result = "uncertain"
  <2>1. /\ config_uncertain' = TRUE /\ UNCHANGED acked
        /\ \E l \in Load(c.nvs) :
             /\ config' = IF l.ok THEN l.config ELSE config
             /\ \E a \in IF l.ok THEN RestoreCommitted(wifi, l.config.wifi)
                         ELSE WifiApply(wifi, NoNetwork) : wifi' = a.wifi
    BY <1>3, <1>7
  <2>2. PICK l \in Load(c.nvs) :
          /\ config' = IF l.ok THEN l.config ELSE config
          /\ \E a \in IF l.ok THEN RestoreCommitted(wifi, l.config.wifi)
                      ELSE WifiApply(wifi, NoNetwork) : wifi' = a.wifi
    BY <2>1
  <2>3. l.config \in Configs
    BY <1>3, <1>4, EmptyIsConfig DEF Load
  <2>4. l.config.wifi \in Networks \cup {NoNetwork} /\ config' \in Configs
    BY <1>1, <2>2, <2>3 DEF Configs
  <2>5. \E network \in Networks \cup {NoNetwork} : \E a \in WifiApply(wifi, network) : wifi' = a.wifi
    BY <2>2, <2>4 DEF RestoreCommitted
  <2>6. wifi' \in WifiOwners
    BY <1>1, <2>5, ApplyAnswers
  <2>7. ControlTypes'
    BY <1>1, <1>2, <1>4, <2>1, <2>4, <2>6 DEF ControlTypes
  <2>8. CandidateIsSelected' /\ MemoryMatchesStore' /\ SelectionMatchesConfig'
    BY <1>2, <2>1 DEF CandidateIsSelected, MemoryMatchesStore, SelectionMatchesConfig
  <2> QED
    BY <1>6, <2>1, <2>7, <2>8 DEF ControlInv
<1>8. CASE c.result \in {"error", "conflict", "exhausted"}
  <2>1. /\ UNCHANGED <<nvs_config, config, acked>>
        /\ config_uncertain => config_uncertain'
        /\ \E a \in RestoreCommitted(wifi, config.wifi) : wifi' = a.wifi
    BY <1>3, <1>4, <1>8
  <2>2. wifi' \in WifiOwners /\ (wifi'.initialized => wifi'.config = config.wifi)
    BY <2>1, RestoreAnswers
  <2>3. ControlTypes'
    BY <1>1, <1>2, <2>1, <2>2 DEF ControlTypes
  <2>4. CandidateIsSelected' /\ SelectionMatchesConfig'
    BY <1>2, <2>1, <2>2 DEF CandidateIsSelected, SelectionMatchesConfig
  <2>5. MemoryMatchesStore'
    BY <1>1, <1>2, <2>1 DEF ControlInv, MemoryMatchesStore
  <2> QED
    BY <1>6, <2>1, <2>3, <2>4, <2>5 DEF ControlInv
<1> QED
  BY <1>3, <1>5, <1>7, <1>8

\* Each answer to a write command.
LEMMA HandleLineKeepsControl ==
    ASSUME ControlInv, HandleLine
    PROVE  ControlInv'
<1>1. PICK r \in Requests :
        \/ NotAdmitted(r)
        \/ Restart(r)
        \/ \E via_mqtt \in BOOLEAN :
             \/ StartTrial(r, via_mqtt)
             \/ StartTrialFails(r, via_mqtt)
             \/ \E time_ready \in BOOLEAN :
                  \/ Refuse(r, via_mqtt, time_ready)
                  \/ OtaNotRegistered(r, via_mqtt, time_ready)
                  \/ StartOta(r, via_mqtt, time_ready)
                  \/ OtaTaskFails(r, via_mqtt, time_ready)
  BY DEF HandleLine
<1>2. CASE NotAdmitted(r)
  BY <1>2, ControlUntouched DEF NotAdmitted, vars, durable, appVars, controlFlags, history,
     controlVars
<1>3. CASE Restart(r)
  BY <1>3, ResetKeepsControl DEF Restart
<1>4. ASSUME NEW via_mqtt \in BOOLEAN, StartTrial(r, via_mqtt)
      PROVE  ControlInv'
  BY <1>4, TrialKeepsControl
<1>5. ASSUME NEW via_mqtt \in BOOLEAN, StartTrialFails(r, via_mqtt)
      PROVE  ControlInv'
  BY <1>5, NoTrialKeepsControl
<1>6. ASSUME UNCHANGED <<nvs_config, acked, config, trial, wifi, phase>>,
             config_uncertain => config_uncertain'
      PROVE  ControlInv'
  BY <1>6 DEF ControlInv, ControlTypes, CandidateIsSelected, AckedConfigDurable,
     MemoryMatchesStore, SelectionMatchesConfig, ControlUp
<1>7. ASSUME NEW via_mqtt \in BOOLEAN, NEW time_ready \in BOOLEAN,
             \/ Refuse(r, via_mqtt, time_ready)
             \/ StartOta(r, via_mqtt, time_ready)
      PROVE  ControlInv'
  BY <1>7, ControlUntouched DEF Refuse, StartOta, durable, appVars, controlFlags, history,
     controlVars
<1>8. ASSUME NEW via_mqtt \in BOOLEAN, NEW time_ready \in BOOLEAN,
             OtaNotRegistered(r, via_mqtt, time_ready)
      PROVE  ControlInv'
  BY <1>6, <1>8 DEF OtaNotRegistered, appVars
<1>9. ASSUME NEW via_mqtt \in BOOLEAN, NEW time_ready \in BOOLEAN,
             OtaTaskFails(r, via_mqtt, time_ready)
      PROVE  ControlInv'
  BY <1>6, <1>9 DEF OtaTaskFails, appVars
<1> QED
  BY <1>1, <1>2, <1>3, <1>4, <1>5, <1>7, <1>8, <1>9

LEMMA ControlInvInit == Init => ControlInv
<1> SUFFICES ASSUME Init PROVE ControlInv
  OBVIOUS
<1>1. /\ nvs_config \in Configs /\ acked = nvs_config /\ config = EmptyConfig
      /\ trial = NoTrial /\ wifi = WifiOff /\ phase = "starting"
  BY DeviceAssumption DEF Init
<1>2. ~ControlUp /\ trial.active = FALSE /\ trial.candidate \in Configs
  BY <1>1, EmptyIsConfig DEF ControlUp, NoTrial
<1>3. ControlTypes
  BY <1>1, <1>2, EmptyIsConfig, OffIsOwner DEF ControlTypes
<1>4. AckedConfigDurable
  <2>1. nvs_config.revision \in Nat
    BY <1>1 DEF Configs
  <2> QED
    BY <1>1, <2>1 DEF AckedConfigDurable
<1> QED
  BY <1>2, <1>3, <1>4 DEF ControlInv, CandidateIsSelected, MemoryMatchesStore,
     SelectionMatchesConfig

LEMMA ControlInvStep == ControlInv /\ [Next]_vars => ControlInv'
<1> SUFFICES ASSUME ControlInv, [Next]_vars
             PROVE  ControlInv'
  OBVIOUS
<1>1. CASE AppMain
  BY <1>1, AppMainKeepsControl
<1>2. CASE HandleLine
  BY <1>2, HandleLineKeepsControl
<1>3. CASE PollConfiguration
  BY <1>3, CommitKeepsControl, TrialFailsKeepsControl DEF PollConfiguration
<1>4. CASE PollOta
  <2>1. CASE PollOtaRestarts
    BY <2>1, ResetKeepsControl DEF PollOtaRestarts
  <2>2. CASE PollOtaBootUnknown
    BY <2>2, ControlUntouched DEF PollOtaBootUnknown, durable, appVars, history, controlVars
  <2>3. CASE PollOtaFails
    <3>1. /\ UNCHANGED <<nvs_config, acked, config, trial, wifi, phase>>
          /\ config_uncertain => config_uncertain'
      BY <2>3 DEF PollOtaFails, appVars
    <3> QED
      BY <3>1 DEF ControlInv, ControlTypes, CandidateIsSelected, AckedConfigDurable,
         MemoryMatchesStore, SelectionMatchesConfig, ControlUp
  <2> QED
    BY <1>4, <2>1, <2>2, <2>3 DEF PollOta
<1>5. CASE WorkerStep
  BY <1>5, ControlUntouched DEF WorkerStep, WorkerWrites, WorkerPrepared, WorkerFails,
     WorkerSelects, WorkerSelectLost, WorkerDone, durable, appVars, controlFlags, history, controlVars
<1>6. CASE PollWifi
  <2>1. /\ wifi' \in WifiPoll(wifi)
        /\ UNCHANGED <<nvs_config, acked, config, config_uncertain, trial, phase>>
    BY <1>6 DEF PollWifi, durable, appVars, controlFlags, history
  <2>2. /\ wifi' \in WifiOwners /\ wifi'.initialized = wifi.initialized
        /\ wifi'.config = wifi.config
    BY <2>1, PollAnswers DEF ControlInv, ControlTypes
  <2> QED
    BY <2>1, <2>2 DEF ControlInv, ControlTypes, CandidateIsSelected, AckedConfigDurable,
       MemoryMatchesStore, SelectionMatchesConfig, ControlUp
<1>7. CASE Tick
  BY <1>7, ControlUntouched DEF Tick, durable, controlFlags, history, controlVars
<1>8. CASE PowerLoss
  BY <1>8, ResetKeepsControl DEF PowerLoss
<1>9. CASE UNCHANGED vars
  BY <1>9, ControlUntouched DEF vars, durable, appVars, controlFlags, history, controlVars
<1> QED
  BY <1>1, <1>2, <1>3, <1>4, <1>5, <1>6, <1>7, <1>8, <1>9 DEF Next

LEMMA ControlInvAlways == Spec => []ControlInv
BY ControlInvInit, ControlInvStep, PTL DEF Spec

\* A configuration that was once reported as "succeeded" is in the store, or a later
\* one is, whatever fails or is cut off afterwards (commit_verified, poll_configuration).
THEOREM AckedIsDurable == Spec => []AckedConfigDurable
<1>1. ControlInv => AckedConfigDurable
  BY DEF ControlInv
<1> QED
  BY <1>1, ControlInvAlways, PTL

\* Memory and store agree as long as the device does not say that it is uncertain.
THEOREM MemoryIsStored == Spec => []MemoryMatchesStore
<1>1. ControlInv => MemoryMatchesStore
  BY DEF ControlInv
<1> QED
  BY <1>1, ControlInvAlways, PTL

\* Between trials the Wi-Fi owner is set to the committed selection (restore_committed).
THEOREM SelectionIsCommitted == Spec => []SelectionMatchesConfig
<1>1. ControlInv => SelectionMatchesConfig
  BY DEF ControlInv
<1> QED
  BY <1>1, ControlInvAlways, PTL
-----------------------------------------------------------------------------
(* The bounded history of write commands                                     *)

\* The errors an outcome can name.
Errors ==
    {"none", "physical_usb_required", "ota_verification_pending", "ota_in_progress",
     "ota_boot_state_unknown", "configuration_busy", "storage_uncertain", "revision_conflict",
     "revision_exhausted", "ota_signing_unavailable", "network_unavailable",
     "time_unavailable", "operation_busy", "connection_proof_failed", "resource_failure",
     "ota_error"} \cup RegisterResults

Outcomes ==
    [state : {"running", "succeeded", "failed", "unknown"}, error : Errors, via_mqtt : BOOLEAN]

\* An unfinished trial or download stands behind one of the outcomes.
WorkHasSlot ==
    /\ trial.active => trial.slot \in 1 .. Len(outcomes)
    /\ ota.active => ota.slot \in 1 .. Len(outcomes)

CommandInv ==
    /\ guard \in Seq(Requests) /\ outcomes \in Seq(Outcomes)
    /\ WorkHasSlot
    /\ RunningIsOwned

\* A step that leaves requests and activities alone preserves the invariant.
LEMMA CommandsUntouched ==
    ASSUME CommandInv, UNCHANGED <<guard, outcomes, trial, ota>>
    PROVE  CommandInv'
  BY DEF CommandInv, WorkHasSlot, RunningIsOwned

\* After a reset the history is empty and nothing is active.
LEMMA ResetEmptiesCommands ==
    ASSUME NEW states, NEW slot, Reset(states, slot)
    PROVE  CommandInv'
<1>1. /\ guard' = <<>> /\ outcomes' = <<>> /\ trial'.active = FALSE /\ ota'.active = FALSE
  BY DEF Reset, NoTrial, NoOta
<1>2. RequestSlots \in Nat
  BY GuardAssumption
<1> QED
  BY <1>1, <1>2 DEF CommandInv, WorkHasSlot, RunningIsOwned

\* An admitted request takes the next slot; the guard had room for it (ebase_admit).
LEMMA OneMoreOutcome ==
    ASSUME CommandInv, NEW r \in Requests, Admits(r), NEW via_mqtt \in BOOLEAN,
           NEW state \in {"running", "succeeded", "failed", "unknown"}, NEW error \in Errors,
           Admitted(r, via_mqtt, state, error)
    PROVE  /\ guard' \in Seq(Requests) /\ outcomes' \in Seq(Outcomes)
           /\ Len(outcomes) \in Nat /\ Len(guard) = Len(outcomes)
           /\ Len(guard') = Len(outcomes) + 1 /\ Len(outcomes') = Len(outcomes) + 1
           /\ Len(outcomes) + 1 <= RequestSlots
           /\ DOMAIN outcomes' = 1 .. Len(outcomes) + 1
           /\ DOMAIN outcomes = 1 .. Len(outcomes)
           /\ outcomes'[Len(outcomes) + 1].state = state
           /\ \A i \in 1 .. Len(outcomes) : outcomes'[i] = outcomes[i]
<1> DEFINE o == [state |-> state, error |-> error, via_mqtt |-> via_mqtt]
<1>1. o \in Outcomes /\ o.state = state
  BY DEF Outcomes
<1>2. guard' = Append(guard, r) /\ outcomes' = Append(outcomes, o)
  BY DEF Admitted
<1>3. Len(guard) # RequestSlots
  BY DEF Admits, Admit
<1>4. /\ guard \in Seq(Requests) /\ outcomes \in Seq(Outcomes)
      /\ Len(outcomes) = Len(guard) /\ Len(guard) <= RequestSlots /\ RequestSlots \in Nat
  BY GuardAssumption DEF CommandInv, RunningIsOwned
<1> HIDE DEF o
<1> QED
  BY <1>1, <1>2, <1>3, <1>4

\* A request that is answered at once starts nothing.
LEMMA AnsweredAtOnce ==
    ASSUME CommandInv, NEW r \in Requests, Admits(r), NEW via_mqtt \in BOOLEAN,
           NEW state \in {"succeeded", "failed", "unknown"}, NEW error \in Errors,
           Admitted(r, via_mqtt, state, error), UNCHANGED <<trial, ota>>
    PROVE  CommandInv'
<1> DEFINE n == Len(outcomes)
<1>1. /\ guard' \in Seq(Requests) /\ outcomes' \in Seq(Outcomes)
      /\ n \in Nat /\ n + 1 <= RequestSlots
      /\ Len(guard') = n + 1 /\ Len(outcomes') = n + 1
      /\ DOMAIN outcomes = 1 .. n /\ DOMAIN outcomes' = 1 .. n + 1
      /\ outcomes'[n + 1].state = state /\ \A i \in 1 .. n : outcomes'[i] = outcomes[i]
  BY OneMoreOutcome
<1>2. /\ trial.active => trial.slot \in 1 .. n
      /\ ota.active => ota.slot \in 1 .. n
  BY DEF CommandInv, WorkHasSlot
<1>3. \A i \in 1 .. n : (outcomes[i].state = "running")
                          <=> (trial.active /\ trial.slot = i) \/ (ota.active /\ ota.slot = i)
  BY <1>1 DEF CommandInv, RunningIsOwned
<1> HIDE DEF n
<1>4. 1 .. n + 1 = (1 .. n) \cup {n + 1} /\ n + 1 \notin 1 .. n
  BY <1>1
<1>5. WorkHasSlot'
  BY <1>1, <1>2, <1>4 DEF WorkHasSlot
<1>6. \A i \in 1 .. n + 1 : (outcomes'[i].state = "running")
                          <=> (trial.active /\ trial.slot = i) \/ (ota.active /\ ota.slot = i)
  BY <1>1, <1>2, <1>3, <1>4
<1>7. RunningIsOwned'
  BY <1>1, <1>6 DEF RunningIsOwned
<1> QED
  BY <1>1, <1>5, <1>7 DEF CommandInv

\* Work that starts takes the slot of its request; nothing was running before.
LEMMA WorkStarts ==
    ASSUME CommandInv, ~trial.active, ~ota.active,
           NEW r \in Requests, Admits(r), NEW via_mqtt \in BOOLEAN,
           Admitted(r, via_mqtt, "running", "none"),
           \/ trial'.active = TRUE /\ trial'.slot = Len(guard) + 1 /\ UNCHANGED ota
           \/ ota'.active = TRUE /\ ota'.slot = Len(guard) + 1 /\ UNCHANGED trial
    PROVE  CommandInv'
<1> DEFINE n == Len(outcomes)
<1>0. "none" \in Errors
  BY DEF Errors
<1>1. /\ guard' \in Seq(Requests) /\ outcomes' \in Seq(Outcomes)
      /\ n \in Nat /\ n + 1 <= RequestSlots /\ Len(guard) = n
      /\ Len(guard') = n + 1 /\ Len(outcomes') = n + 1
      /\ DOMAIN outcomes = 1 .. n /\ DOMAIN outcomes' = 1 .. n + 1
      /\ outcomes'[n + 1].state = "running" /\ \A i \in 1 .. n : outcomes'[i] = outcomes[i]
  BY <1>0, OneMoreOutcome
<1>2. \A i \in 1 .. n : outcomes[i].state # "running"
  BY <1>1 DEF CommandInv, RunningIsOwned
<1> HIDE DEF n
<1>3. 1 .. n + 1 = (1 .. n) \cup {n + 1} /\ n + 1 \notin 1 .. n /\ n + 1 \in 1 .. n + 1
  BY <1>1
<1>4. \/ trial'.active = TRUE /\ trial'.slot = n + 1 /\ ~ota'.active
      \/ ota'.active = TRUE /\ ota'.slot = n + 1 /\ ~trial'.active
  BY <1>1
<1>5. WorkHasSlot'
  BY <1>1, <1>3, <1>4 DEF WorkHasSlot
<1>6. \A i \in 1 .. n + 1 : (outcomes'[i].state = "running")
                      <=> (trial'.active /\ trial'.slot = i) \/ (ota'.active /\ ota'.slot = i)
  BY <1>1, <1>2, <1>3, <1>4
<1>7. RunningIsOwned'
  BY <1>1, <1>6 DEF RunningIsOwned
<1> QED
  BY <1>1, <1>5, <1>7 DEF CommandInv

\* Work that ends gives its outcome a final state; the other activity was not running.
LEMMA WorkEnds ==
    ASSUME CommandInv, ~trial'.active, ~ota'.active, NEW slot,
           \/ trial.active /\ slot = trial.slot /\ ~ota.active
           \/ ota.active /\ slot = ota.slot /\ ~trial.active,
           NEW state \in {"succeeded", "failed", "unknown"}, NEW error \in Errors,
           SaveOutcome(slot, state, error)
    PROVE  CommandInv'
<1> DEFINE n == Len(outcomes)
           o == [outcomes[slot] EXCEPT !.state = state, !.error = error]
<1>1. /\ guard \in Seq(Requests) /\ outcomes \in Seq(Outcomes) /\ n \in Nat
      /\ Len(guard) = n /\ n <= RequestSlots /\ DOMAIN outcomes = 1 .. n
  BY DEF CommandInv, RunningIsOwned
<1>2. slot \in 1 .. n
  BY DEF CommandInv, WorkHasSlot
<1>3. outcomes[slot] \in Outcomes
  BY <1>1, <1>2
<1>4. o \in Outcomes /\ o.state = state
  BY <1>3 DEF Outcomes
<1>5. guard' = guard /\ outcomes' = [outcomes EXCEPT ![slot] = o]
  BY DEF SaveOutcome
<1> HIDE DEF o
<1>6. /\ outcomes' \in Seq(Outcomes) /\ Len(outcomes') = n /\ DOMAIN outcomes' = 1 .. n
      /\ \A i \in 1 .. n : outcomes'[i] = IF i = slot THEN o ELSE outcomes[i]
  BY <1>1, <1>2, <1>4, <1>5
<1>7. \A i \in 1 .. n : i # slot => outcomes[i].state # "running"
  BY <1>1 DEF CommandInv, RunningIsOwned
<1>8. \A i \in 1 .. n : outcomes'[i].state # "running"
  BY <1>4, <1>6, <1>7
<1>9. WorkHasSlot' /\ RunningIsOwned'
  BY <1>1, <1>5, <1>6, <1>8 DEF WorkHasSlot, RunningIsOwned
<1> QED
  BY <1>1, <1>5, <1>6, <1>9 DEF CommandInv

\* Every refusal names one of the errors.
LEMMA RefusalErrors ==
    ASSUME NEW r \in Requests, NEW via_mqtt, NEW time_ready
    PROVE  /\ ConfigRefusal(r.body.config, via_mqtt) \in Errors
           /\ OtaRefusal(time_ready) \in Errors
           /\ RestartRefusal \in Errors
  BY DEF ConfigRefusal, ConfigWriteError, OtaRefusal, RestartRefusal, Errors

\* Each answer to a write command.
LEMMA HandleLineKeepsCommands ==
    ASSUME CommandInv, HandleLine
    PROVE  CommandInv'
<1>1. PICK r \in Requests :
        \/ NotAdmitted(r)
        \/ Restart(r)
        \/ \E via_mqtt \in BOOLEAN :
             \/ StartTrial(r, via_mqtt)
             \/ StartTrialFails(r, via_mqtt)
             \/ \E time_ready \in BOOLEAN :
                  \/ Refuse(r, via_mqtt, time_ready)
                  \/ OtaNotRegistered(r, via_mqtt, time_ready)
                  \/ StartOta(r, via_mqtt, time_ready)
                  \/ OtaTaskFails(r, via_mqtt, time_ready)
  BY DEF HandleLine
<1>2. CASE NotAdmitted(r)
  BY <1>2, CommandsUntouched DEF NotAdmitted, vars, requestVars
<1>3. CASE Restart(r)
  BY <1>3, ResetEmptiesCommands DEF Restart
<1>4. ASSUME NEW via_mqtt \in BOOLEAN, StartTrial(r, via_mqtt)
      PROVE  CommandInv'
  <2>1. /\ ~trial.active /\ ~ota.active /\ Admits(r)
        /\ Admitted(r, via_mqtt, "running", "none")
        /\ trial'.active = TRUE /\ trial'.slot = Len(guard) + 1 /\ UNCHANGED ota
    BY <1>4 DEF StartTrial, ConfigRefusal
  <2> QED
    BY <2>1, WorkStarts
<1>5. ASSUME NEW via_mqtt \in BOOLEAN, StartTrialFails(r, via_mqtt)
      PROVE  CommandInv'
  <2>1. /\ Admits(r) /\ Admitted(r, via_mqtt, "failed", "connection_proof_failed")
        /\ UNCHANGED <<trial, ota>>
    BY <1>5 DEF StartTrialFails
  <2>2. "connection_proof_failed" \in Errors
    BY DEF Errors
  <2> QED
    BY <2>1, <2>2, AnsweredAtOnce
<1>6. ASSUME NEW via_mqtt \in BOOLEAN, NEW time_ready \in BOOLEAN,
             Refuse(r, via_mqtt, time_ready)
      PROVE  CommandInv'
  <2> DEFINE error == CASE r.body.kind = "config.set" -> ConfigRefusal(r.body.config, via_mqtt)
                        [] r.body.kind = "ota.start" -> OtaRefusal(time_ready)
                        [] r.body.kind = "restart" -> RestartRefusal
  <2>1. Admits(r) /\ Admitted(r, via_mqtt, "failed", error) /\ UNCHANGED <<trial, ota>>
    BY <1>6 DEF Refuse
  <2>2. error \in Errors
    <3>1. r.body.kind \in {"config.set", "ota.start", "restart"}
      BY BodiesAssumption
    <3> QED
      BY <3>1, RefusalErrors
  <2> HIDE DEF error
  <2> QED
    BY <2>1, <2>2, AnsweredAtOnce
<1>7. ASSUME NEW via_mqtt \in BOOLEAN, NEW time_ready \in BOOLEAN,
             OtaNotRegistered(r, via_mqtt, time_ready)
      PROVE  CommandInv'
  <2>1. /\ Admits(r) /\ UNCHANGED <<trial, ota>>
        /\ \E reg \in Registrations(r.body.op, r.body.image) :
             \/ Admitted(r, via_mqtt, "unknown", "storage_uncertain")
             \/ Admitted(r, via_mqtt, "failed", reg.result)
    BY <1>7 DEF OtaNotRegistered, AdmitsOta
  <2>2. PICK reg \in Registrations(r.body.op, r.body.image) :
          \/ Admitted(r, via_mqtt, "unknown", "storage_uncertain")
          \/ Admitted(r, via_mqtt, "failed", reg.result)
    BY <2>1
  <2>3. reg.result \in Errors /\ "storage_uncertain" \in Errors
    BY RegisterAnswers DEF Errors
  <2> QED
    BY <2>1, <2>2, <2>3, AnsweredAtOnce
<1>8. ASSUME NEW via_mqtt \in BOOLEAN, NEW time_ready \in BOOLEAN,
             StartOta(r, via_mqtt, time_ready)
      PROVE  CommandInv'
  <2>1. /\ ~trial.active /\ ~ota.active /\ Admits(r)
        /\ Admitted(r, via_mqtt, "running", "none")
        /\ ota'.active = TRUE /\ ota'.slot = Len(guard) + 1 /\ UNCHANGED trial
    BY <1>8 DEF StartOta, AdmitsOta, OtaRefusal
  <2> QED
    BY <2>1, WorkStarts
<1>9. ASSUME NEW via_mqtt \in BOOLEAN, NEW time_ready \in BOOLEAN,
             OtaTaskFails(r, via_mqtt, time_ready)
      PROVE  CommandInv'
  <2>1. /\ Admits(r) /\ UNCHANGED <<trial, ota>>
        /\ \/ Admitted(r, via_mqtt, "failed", "resource_failure")
           \/ Admitted(r, via_mqtt, "unknown", "storage_uncertain")
    BY <1>9 DEF OtaTaskFails, AdmitsOta
  <2>2. "resource_failure" \in Errors /\ "storage_uncertain" \in Errors
    BY DEF Errors
  <2> QED
    BY <2>1, <2>2, AnsweredAtOnce
<1> QED
  BY <1>1, <1>2, <1>3, <1>4, <1>5, <1>6, <1>7, <1>8, <1>9

\* The supervision reports the work it ends.
LEMMA PollKeepsCommands ==
    ASSUME CommandInv, ActivitiesExclusive, PollConfiguration \/ PollOta
    PROVE  CommandInv'
<1>1. /\ "none" \in Errors /\ "storage_uncertain" \in Errors /\ "storage_failure" \in Errors
      /\ "connection_proof_failed" \in Errors /\ "ota_boot_state_unknown" \in Errors
      /\ "ota_error" \in Errors
  BY DEF Errors, RegisterResults
<1>2. ~(trial.active /\ ota.active)
  BY DEF ActivitiesExclusive
<1>3. CASE CommitTrial
  <2>1. /\ trial.active /\ trial' = NoTrial /\ ota' = ota
        /\ \/ SaveOutcome(trial.slot, "succeeded", "none")
           \/ SaveOutcome(trial.slot, "unknown", "storage_uncertain")
           \/ SaveOutcome(trial.slot, "failed", "storage_failure")
    BY <1>3 DEF CommitTrial
  <2>2. ~trial'.active /\ ~ota'.active /\ ~ota.active
    BY <1>2, <2>1 DEF NoTrial
  <2> QED
    BY <1>1, <2>1, <2>2, WorkEnds
<1>4. CASE TrialFails
  <2>1. /\ trial.active /\ trial' = NoTrial /\ ota' = ota
        /\ SaveOutcome(trial.slot, "failed", "connection_proof_failed")
    BY <1>4 DEF TrialFails
  <2>2. ~trial'.active /\ ~ota'.active /\ ~ota.active
    BY <1>2, <2>1 DEF NoTrial
  <2> QED
    BY <1>1, <2>1, <2>2, WorkEnds
<1>5. CASE PollOtaRestarts
  BY <1>5, ResetEmptiesCommands DEF PollOtaRestarts
<1>6. CASE PollOtaBootUnknown \/ PollOtaFails
  <2>1. /\ ota.active /\ ota' = NoOta /\ trial' = trial
        /\ \/ SaveOutcome(ota.slot, "unknown", "ota_boot_state_unknown")
           \/ SaveOutcome(ota.slot, "unknown", "storage_uncertain")
           \/ SaveOutcome(ota.slot, "failed", "ota_error")
    BY <1>6 DEF PollOtaBootUnknown, PollOtaFails, WorkerReported, EndOta
  <2>2. ~trial'.active /\ ~ota'.active /\ ~trial.active
    BY <1>2, <2>1 DEF NoOta
  <2> QED
    BY <1>1, <2>1, <2>2, WorkEnds
<1> QED
  BY <1>3, <1>4, <1>5, <1>6 DEF PollConfiguration, PollOta

LEMMA CommandInvInit == Init => CommandInv
<1> SUFFICES ASSUME Init PROVE CommandInv
  OBVIOUS
<1>1. /\ guard = <<>> /\ outcomes = <<>> /\ ~trial.active /\ ~ota.active
  BY DEF Init, NoTrial, NoOta
<1>2. RequestSlots \in Nat
  BY GuardAssumption
<1> QED
  BY <1>1, <1>2 DEF CommandInv, WorkHasSlot, RunningIsOwned

LEMMA CommandInvStep == ActivitiesExclusive /\ CommandInv /\ [Next]_vars => CommandInv'
<1> SUFFICES ASSUME ActivitiesExclusive, CommandInv, [Next]_vars
             PROVE  CommandInv'
  OBVIOUS
<1>1. CASE RejectPending \/ PowerLoss
  BY <1>1, ResetEmptiesCommands DEF RejectPending, PowerLoss
<1>2. CASE AppMain /\ ~RejectPending
  BY <1>2, CommandsUntouched DEF AppMain, StartControl, StopBeforeControl, RejectFails,
     ConfirmPending, ReleaseBootClaim, ClearPending, requestVars
<1>3. CASE HandleLine
  BY <1>3, HandleLineKeepsCommands
<1>4. CASE PollConfiguration \/ PollOta
  BY <1>4, PollKeepsCommands
<1>5. CASE WorkerStep
  BY <1>5, CommandsUntouched DEF WorkerStep, WorkerWrites, WorkerPrepared, WorkerFails,
     WorkerSelects, WorkerSelectLost, WorkerDone, requestVars
<1>6. CASE PollWifi \/ Tick
  BY <1>6, CommandsUntouched DEF PollWifi, Tick, requestVars
<1>7. CASE UNCHANGED vars
  BY <1>7, CommandsUntouched DEF vars, requestVars
<1> QED
  BY <1>1, <1>2, <1>3, <1>4, <1>5, <1>6, <1>7 DEF Next

LEMMA CommandInvAlways == Spec => []CommandInv
BY CommandInvInit, CommandInvStep, ActivitiesExclude, PTL DEF Spec

\* An outcome is "running" exactly while one unfinished trial or download stands behind
\* it, in every history the guard admits (handle_line, save_outcome, poll_ota).
THEOREM RunningOutcomesAreOwned == Spec => []RunningIsOwned
<1>1. CommandInv => RunningIsOwned
  BY DEF CommandInv
<1> QED
  BY <1>1, CommandInvAlways, PTL

-----------------------------------------------------------------------------
(* At most one effect                                                        *)

\* What took effect is bound to an earlier boot, or is in the guard of this one.
EffectIsRemembered ==
    \A r \in Requests : executions[r] > 0 =>
        /\ r.boot \in Nat
        /\ \/ r.boot < boot
           \/ r.boot = boot /\ \E i \in 1 .. Len(guard) : guard[i] = r

EffectInv ==
    /\ boot \in Nat
    /\ guard \in Seq(Requests)
    /\ executions \in [Requests -> Nat]
    /\ EffectIsRemembered
    /\ ExecutedAtMostOnce

\* A step that executes nothing and forgets nothing preserves the invariant.
LEMMA NothingExecuted ==
    ASSUME EffectInv, UNCHANGED <<boot, guard, executions>>
    PROVE  EffectInv'
  BY DEF EffectInv, EffectIsRemembered, ExecutedAtMostOnce

\* A reset empties the guard, but what it remembered is bound to the boot that ended.
LEMMA ResetForgets ==
    ASSUME EffectInv, boot' = boot + 1, guard' = <<>>, UNCHANGED executions
    PROVE  EffectInv'
<1> DEFINE b == boot + 1
<1>1. \A r \in Requests : executions[r] > 0 => r.boot \in Nat /\ r.boot < b
  BY DEF EffectInv, EffectIsRemembered
<1>2. b \in Nat /\ boot' = b /\ boot' \in Nat
  BY DEF EffectInv
<1> HIDE DEF b
<1>3. EffectIsRemembered'
  BY <1>1, <1>2 DEF EffectIsRemembered
<1> QED
  BY <1>2, <1>3 DEF EffectInv, ExecutedAtMostOnce

\* An admitted request is bound to this boot, and no request with its identifier took
\* effect in this boot.
LEMMA AdmittedIsNew ==
    ASSUME EffectInv, NEW r \in Requests, Admits(r)
    PROVE  /\ r.boot = boot
           /\ executions[r] = 0
           /\ \A q \in Requests : q.id = r.id /\ q.boot = r.boot => executions[q] = 0
<1>1. r.boot = boot /\ SameId(guard, r) = {}
  BY DEF Admits, Admit
<1>2. \A i \in 1 .. Len(guard) : guard[i].id # r.id
  BY <1>1 DEF SameId, EffectInv
<1>3. ASSUME NEW q \in Requests, q.id = r.id, q.boot = r.boot
      PROVE  executions[q] = 0
  <2>1. executions[q] \in Nat /\ boot \in Nat
    BY DEF EffectInv
  <2>2. ASSUME executions[q] > 0
        PROVE  FALSE
    <3>1. \/ q.boot < boot
          \/ \E i \in 1 .. Len(guard) : guard[i] = q
      BY <2>2 DEF EffectInv, EffectIsRemembered
    <3>2. q.boot = boot /\ ~(boot < boot)
      BY <1>1, <1>3, <2>1
    <3>3. PICK i \in 1 .. Len(guard) : guard[i] = q
      BY <3>1, <3>2
    <3> QED
      BY <1>2, <1>3, <3>3
  <2> QED
    BY <2>1, <2>2
<1>4. executions[r] = 0
  BY <1>3
<1> QED
  BY <1>1, <1>3, <1>4

\* The effect of an admitted request.
LEMMA AdmittedTakesEffect ==
    ASSUME EffectInv, NEW r \in Requests, Admits(r), Executed(r),
           \/ UNCHANGED boot /\ guard' = Append(guard, r)
           \/ boot' = boot + 1 /\ guard' = <<>>
    PROVE  EffectInv'
<1>1. /\ r.boot = boot /\ executions[r] = 0
      /\ \A q \in Requests : q.id = r.id /\ q.boot = r.boot => executions[q] = 0
  BY AdmittedIsNew
<1>2. /\ executions' \in [Requests -> Nat] /\ executions'[r] = 1
      /\ \A q \in Requests : q # r => executions'[q] = executions[q]
  BY <1>1 DEF EffectInv, Executed
<1>3. boot \in Nat /\ boot' \in Nat /\ guard \in Seq(Requests) /\ guard' \in Seq(Requests)
  <2>1. boot \in Nat /\ boot + 1 \in Nat /\ guard \in Seq(Requests)
    BY DEF EffectInv
  <2>2. Append(guard, r) \in Seq(Requests) /\ <<>> \in Seq(Requests)
    BY <2>1
  <2>3. boot' = boot \/ boot' = boot + 1
    OBVIOUS
  <2>4. guard' = Append(guard, r) \/ guard' = <<>>
    OBVIOUS
  <2>5. boot' \in Nat
    BY <2>1, <2>3
  <2>6. guard' \in Seq(Requests)
    BY <2>2, <2>4
  <2> QED
    BY <2>1, <2>5, <2>6
<1>4. \A q \in Requests : executions'[q] > 0 => q = r \/ executions[q] > 0
  BY <1>2
<1>5. ExecutedAtMostOnce'
  <2>1. ASSUME NEW q \in Requests
        PROVE  executions'[q] <= 1
    <3>1. CASE q = r
      BY <1>2, <3>1
    <3>2. CASE q # r
      <4>1. executions'[q] = executions[q] /\ executions[q] <= 1
        BY <1>2, <3>2 DEF EffectInv, ExecutedAtMostOnce
      <4> QED
        BY <4>1
    <3> QED
      BY <3>1, <3>2
  <2>2. ASSUME NEW p \in Requests, NEW q \in Requests, p.id = q.id, p.boot = q.boot,
               executions'[p] > 0, executions'[q] > 0
        PROVE  p = q
    <3>1. CASE p # r /\ q # r
      <4>1. executions[p] > 0 /\ executions[q] > 0
        BY <1>4, <2>2, <3>1
      <4> QED
        BY <2>2, <4>1 DEF EffectInv, ExecutedAtMostOnce
    <3>2. CASE p = r /\ q # r
      <4>1. executions[q] > 0 /\ executions[q] = 0
        BY <1>1, <1>4, <2>2, <3>2
      <4> QED
        BY <4>1
    <3>3. CASE p # r /\ q = r
      <4>1. executions[p] > 0 /\ executions[p] = 0
        BY <1>1, <1>4, <2>2, <3>3
      <4> QED
        BY <4>1
    <3> QED
      BY <3>1, <3>2, <3>3
  <2> QED
    BY <2>1, <2>2 DEF ExecutedAtMostOnce
<1>6. EffectIsRemembered'
  <2>1. CASE UNCHANGED boot /\ guard' = Append(guard, r)
    <3>1. /\ \A i \in 1 .. Len(guard) : i \in 1 .. Len(guard') /\ guard'[i] = guard[i]
          /\ Len(guard) + 1 \in 1 .. Len(guard') /\ guard'[Len(guard) + 1] = r
      BY <1>3, <2>1
    <3> QED
      BY <1>1, <1>3, <1>4, <2>1, <3>1 DEF EffectInv, EffectIsRemembered
  <2>2. CASE boot' = boot + 1 /\ guard' = <<>>
    <3> DEFINE b == boot + 1
    <3>1. b \in Nat /\ boot < b /\ boot' = b
      BY <1>3, <2>2
    <3>2. \A q \in Requests : executions'[q] > 0 => q.boot \in Nat /\ q.boot < b
      <4>1. r.boot \in Nat /\ r.boot < b
        BY <1>1, <1>3
      <4>2. \A q \in Requests : executions[q] > 0 => q.boot \in Nat /\ q.boot < b
        BY <1>3 DEF EffectInv, EffectIsRemembered
      <4> QED
        BY <1>4, <4>1, <4>2
    <3> HIDE DEF b
    <3> QED
      BY <3>1, <3>2 DEF EffectIsRemembered
  <2> QED
    BY <2>1, <2>2
<1> QED
  BY <1>2, <1>3, <1>5, <1>6 DEF EffectInv

\* A refusal is remembered but has no effect.
LEMMA RefusedIsRemembered ==
    ASSUME EffectInv, NEW r \in Requests, guard' = Append(guard, r), UNCHANGED <<boot, executions>>
    PROVE  EffectInv'
<1>1. /\ guard' \in Seq(Requests)
      /\ \A i \in 1 .. Len(guard) : i \in 1 .. Len(guard') /\ guard'[i] = guard[i]
  BY DEF EffectInv
<1> QED
  BY <1>1 DEF EffectInv, EffectIsRemembered, ExecutedAtMostOnce

\* Each answer to a write command.
LEMMA HandleLineKeepsEffects ==
    ASSUME EffectInv, HandleLine
    PROVE  EffectInv'
<1>1. PICK r \in Requests :
        \/ NotAdmitted(r)
        \/ Restart(r)
        \/ \E via_mqtt \in BOOLEAN :
             \/ StartTrial(r, via_mqtt)
             \/ StartTrialFails(r, via_mqtt)
             \/ \E time_ready \in BOOLEAN :
                  \/ Refuse(r, via_mqtt, time_ready)
                  \/ OtaNotRegistered(r, via_mqtt, time_ready)
                  \/ StartOta(r, via_mqtt, time_ready)
                  \/ OtaTaskFails(r, via_mqtt, time_ready)
  BY DEF HandleLine
<1>2. CASE NotAdmitted(r)
  BY <1>2, NothingExecuted DEF NotAdmitted, vars, appVars, requestVars, history
<1>3. CASE Restart(r)
  <2>1. Admits(r) /\ Executed(r) /\ boot' = boot + 1 /\ guard' = <<>>
    BY <1>3 DEF Restart, Reset
  <2> QED
    BY <2>1, AdmittedTakesEffect
<1>4. ASSUME NEW via_mqtt \in BOOLEAN,
             StartTrial(r, via_mqtt) \/ StartTrialFails(r, via_mqtt)
      PROVE  EffectInv'
  <2>1. Admits(r) /\ Executed(r) /\ UNCHANGED boot /\ guard' = Append(guard, r)
    BY <1>4 DEF StartTrial, StartTrialFails, Admitted, appVars
  <2> QED
    BY <2>1, AdmittedTakesEffect
<1>5. ASSUME NEW via_mqtt \in BOOLEAN, NEW time_ready \in BOOLEAN,
             Refuse(r, via_mqtt, time_ready)
      PROVE  EffectInv'
  <2>1. guard' = Append(guard, r) /\ UNCHANGED <<boot, executions>>
    BY <1>5 DEF Refuse, Admitted, appVars, history
  <2> QED
    BY <2>1, RefusedIsRemembered
<1>6. ASSUME NEW via_mqtt \in BOOLEAN, NEW time_ready \in BOOLEAN,
             \/ OtaNotRegistered(r, via_mqtt, time_ready)
             \/ StartOta(r, via_mqtt, time_ready)
             \/ OtaTaskFails(r, via_mqtt, time_ready)
      PROVE  EffectInv'
  <2>1. Admits(r) /\ Executed(r) /\ UNCHANGED boot /\ guard' = Append(guard, r)
    <3>1. CASE OtaNotRegistered(r, via_mqtt, time_ready)
      BY <3>1 DEF OtaNotRegistered, AdmitsOta, Admitted, appVars
    <3>2. CASE StartOta(r, via_mqtt, time_ready)
      BY <3>2 DEF StartOta, AdmitsOta, Admitted, appVars
    <3>3. CASE OtaTaskFails(r, via_mqtt, time_ready)
      BY <3>3 DEF OtaTaskFails, AdmitsOta, Admitted, appVars
    <3> QED
      BY <1>6, <3>1, <3>2, <3>3
  <2> QED
    BY <2>1, AdmittedTakesEffect
<1> QED
  BY <1>1, <1>2, <1>3, <1>4, <1>5, <1>6

LEMMA EffectInvInit == Init => EffectInv
<1> SUFFICES ASSUME Init PROVE EffectInv
  OBVIOUS
<1>1. boot = 1 /\ guard = <<>> /\ executions = [r \in Requests |-> 0]
  BY DEF Init
<1> QED
  BY <1>1 DEF EffectInv, EffectIsRemembered, ExecutedAtMostOnce

LEMMA EffectInvStep == EffectInv /\ [Next]_vars => EffectInv'
<1> SUFFICES ASSUME EffectInv, [Next]_vars
             PROVE  EffectInv'
  OBVIOUS
<1>1. CASE RejectPending \/ PowerLoss \/ PollOtaRestarts
  <2>1. boot' = boot + 1 /\ guard' = <<>> /\ UNCHANGED executions
    BY <1>1 DEF RejectPending, PowerLoss, PollOtaRestarts, Reset
  <2> QED
    BY <2>1, ResetForgets
<1>2. CASE AppMain /\ ~RejectPending
  BY <1>2, NothingExecuted DEF AppMain, StartControl, StopBeforeControl, RejectFails,
     ConfirmPending, ReleaseBootClaim, ClearPending, appVars, requestVars, history
<1>3. CASE HandleLine
  BY <1>3, HandleLineKeepsEffects
<1>4. CASE CommitTrial
  <2>1. UNCHANGED <<boot, guard, executions>>
    BY <1>4 DEF CommitTrial, SaveOutcome, appVars
  <2> QED
    BY <2>1, NothingExecuted
<1>5. CASE TrialFails \/ PollOtaBootUnknown \/ PollOtaFails
  <2>1. UNCHANGED <<boot, guard, executions>>
    BY <1>5 DEF TrialFails, PollOtaBootUnknown, PollOtaFails, SaveOutcome, appVars, history
  <2> QED
    BY <2>1, NothingExecuted
<1>6. CASE WorkerStep
  BY <1>6, NothingExecuted DEF WorkerStep, WorkerWrites, WorkerPrepared, WorkerFails,
     WorkerSelects, WorkerSelectLost, WorkerDone, appVars, requestVars, history
<1>7. CASE PollWifi \/ Tick
  BY <1>7, NothingExecuted DEF PollWifi, Tick, appVars, requestVars, history
<1>8. CASE UNCHANGED vars
  BY <1>8, NothingExecuted DEF vars, appVars, requestVars, history
<1> QED
  BY <1>1, <1>2, <1>3, <1>4, <1>5, <1>6, <1>7, <1>8 DEF Next, PollConfiguration, PollOta

LEMMA EffectInvAlways == Spec => []EffectInv
BY EffectInvInit, EffectInvStep, PTL DEF Spec

\* However often and in whatever order the host sends its requests, and however many
\* resets come between, none takes effect twice, and of two bodies under one identifier
\* at most one takes effect in a boot (command_guard.c).
THEOREM EffectsAtMostOnce == Spec => []ExecutedAtMostOnce
<1>1. EffectInv => ExecutedAtMostOnce
  BY DEF EffectInv
<1> QED
  BY <1>1, EffectInvAlways, PTL

=============================================================================
