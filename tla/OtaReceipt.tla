----------------------------- MODULE OtaReceipt -----------------------------
(***************************************************************************)
(* The durable receipt of the latest OTA operation, esp_base_ota_receipt.c.*)
(* A receipt keeps the operation, the image it was asked to install (for   *)
(* size and SHA-256), the slots it started from and writes to, and whether *)
(* a failure was recorded.  `s` is what eota_observe_slots reports         *)
(* (external library): the running and the selected slot and the otadata   *)
(* state of the running and of the other slot, plus what                   *)
(* eota_sha256_running says of the image in the running one.               *)
(***************************************************************************)
EXTENDS Naturals

CONSTANTS
    Ops,     \* operation identifiers
    Images   \* firmware images (size and digest together)

Slots == {0, 1}                 \* ota_0 and ota_1
Other(slot) == 1 - slot

\* The otadata states of a slot.
SlotStates == {"untracked", "undefined", "new", "pending_verify", "valid", "invalid", "aborted"}

NoReceipt == [status |-> "none", device |-> "self", op |-> "none", image |-> "none",
              source |-> 0, target |-> 0]

\* Receipts decode accepts: the two slots are different.
Receipts ==
    {r \in [status : {"prepared", "failed"}, device : {"self", "other"}, op : Ops,
            image : Images, source : Slots, target : Slots] : r.target = Other(r.source)}

\* Mutant: a slot that is still being verified counts as installed.
EvaluatePendingSucceeds(receipt, worker_active, s) ==
    IF worker_active THEN [state |-> "running", error |-> "none"]
    ELSE IF s.running = receipt.target /\ s.boot = receipt.target
    THEN [state |-> "succeeded", error |-> "none"]
    ELSE IF receipt.status = "failed" THEN [state |-> "failed", error |-> "recorded"]
    ELSE IF s.target_state \in {"aborted", "invalid"}
    THEN [state |-> "failed", error |-> "ota_rolled_back"]
    ELSE [state |-> "unknown", error |-> "ota_result_uncertain"]

\* evaluate: the verdict on a receipt from what the slots show now.
Evaluate(receipt, worker_active, s) ==
    LET unknown == [state |-> "unknown", error |-> "ota_result_uncertain"]
        unfinished == [state |-> "running", error |-> "none"]
    IN  IF worker_active THEN unfinished
        ELSE IF ~s.ok THEN unknown
        ELSE IF s.running = receipt.target /\ s.boot = receipt.target THEN
            (IF s.running_state = "pending_verify" THEN unfinished
             ELSE IF s.running_state = "valid" /\ s.digested /\ s.running_image = receipt.image
             THEN [state |-> "succeeded", error |-> "none"]
             ELSE unknown)
        ELSE IF s.running # receipt.source \/ s.boot # receipt.source
                \/ s.running_state # "valid" THEN unknown
        ELSE IF receipt.status = "failed" THEN [state |-> "failed", error |-> "recorded"]
        ELSE IF Other(s.running) = receipt.target /\ s.target_state \in {"aborted", "invalid"}
        THEN [state |-> "failed", error |-> "ota_rolled_back"]
        ELSE unknown

\* load: the stored receipt, its absence, or an unreadable store.
LoadReceipt(receipt) ==
    {"uncertain", IF receipt = NoReceipt THEN "not_found" ELSE "ok"}

\* store: refused before the write, undecided after an error of the write or of
\* the exact readback, or durable.
Store(old, new) ==
    {[result |-> "storage_failure", receipt |-> old], [result |-> "ok", receipt |-> new]}
    \cup {[result |-> "uncertain", receipt |-> r] : r \in {old, new}}

\* esp_base_ota_receipt_register: `fits` says that the image is not larger than
\* the target slot, `preflight` is the answer of eota_preflight, `load` of load(), and
\* `again` what evaluate() observes anew.
Register(receipt, op, image, s, again, fits, preflight, load) ==
    LET refuse(result) == {[result |-> result, receipt |-> receipt]}
        new == [status |-> "prepared", device |-> "self", op |-> op, image |-> image,
                source |-> s.running, target |-> Other(s.running)]
    IN  IF ~s.ok THEN refuse("target_state_unknown")
        ELSE IF ~fits THEN refuse("slot_unavailable")
        ELSE IF s.running # s.boot THEN refuse("selector_mismatch")
        ELSE IF s.running_state # "valid" THEN refuse("source_not_valid")
        ELSE IF s.target_state \in {"new", "pending_verify"} THEN refuse("target_not_safe")
        ELSE IF ~preflight THEN refuse("slot_unavailable")
        ELSE IF load = "uncertain" THEN refuse("uncertain")
        ELSE IF load = "not_found" THEN Store(receipt, new)
        ELSE IF receipt.device # "self" THEN refuse("uncertain")
        ELSE IF receipt.op = op
        THEN refuse(IF receipt.image = image THEN "exists" ELSE "conflict")
        ELSE IF Evaluate(receipt, FALSE, again).state \notin {"succeeded", "failed"}
        THEN refuse("busy")
        ELSE Store(receipt, new)

\* esp_base_ota_receipt_record_failure
RecordFailure(receipt, op, load) ==
    IF load # "ok" THEN {[result |-> load, receipt |-> receipt]}
    ELSE IF receipt.device # "self" \/ receipt.op # op
    THEN {[result |-> "uncertain", receipt |-> receipt]}
    ELSE Store(receipt, [receipt EXCEPT !.status = "failed"])
=============================================================================
