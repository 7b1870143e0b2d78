# ESP Base: a TLA+ verification project

ESP Base is the base firmware of an ESP32-C3 device: it keeps the device's identity,
configuration and firmware, takes commands over USB, MQTT and FRP, and leaves everything
else to other projects. This directory models its control core in TLA+, checks it with
TLC on small instances, and proves part of it with TLAPS.

Paths below are relative to the repository root `src/`; `C/` stands for
`firmware/components/`.

## 1. The system

The program is a few FreeRTOS tasks around one set of static variables:

- **app_main** runs the startup once: claim the storage owner, inspect the running slot,
  NVS, identity, safety facts, stored configuration, start of the control task; in a boot
  whose slot awaits verification it then watches the control task for 30 s and confirms or
  rejects the slot; finally it gives the storage claim back and lowers the gate.
- **the control task** loops for ever: poll Wi-Fi, the configuration trial, the OTA
  supervision, time, MQTT and FRP, report, read USB, note progress.
- **the OTA worker** lives for one download: prepare the other slot, select it, publish
  the result, end.
- SDK tasks deliver Wi-Fi, MQTT and HTTP events through queues.

| component | source | state | operations | interacts with | correctness |
|---|---|---|---|---|---|
| storage owner | `C/ota_operation/esp_base_storage_owner.c` | two atomics: next token, active token; a claim in the caller's memory | init, claim, release | app_main, control task, container binding, from different tasks | at most one holder; only the holder frees; tokens never repeat; the reservation never sticks |
| OTA receipt | `C/ota_operation/esp_base_ota_receipt.c` | one NVS blob: latest operation, image, slots, recorded failure | register, record failure, query | slots (esp-ota), control task | durable before the first write; unresolved operations are kept; verdicts do not change |
| configuration store | `C/remote_config/esp_base_remote_config.c` | one NVS blob with a revision | load, commit verified | control task, app_main | an acknowledged configuration survives; uncertainty is declared |
| command guard | `C/device_protocol/command_guard.c` | up to 32 admitted requests of this boot | admit | control task | a request takes effect at most once; a retry gets the first outcome |
| control task | `C/device_protocol/esp_base_protocol.c` | outcomes, trial, OTA activity, uncertainty flags, committed configuration | config.set, ota.start, restart, status, ota.result; polls | all of the above and below | trial and download exclude each other; every running outcome is owned and ends |
| control state | `C/device_protocol/control_state.c` | atomics: verification gate, download gate, progress | set, note progress, is recent | app_main and control task | see gates and window |
| startup | `firmware/apps/esp_base/main/esp_base_main.c` | the boot's storage claim | the sequence above | control task through control state | a hung control task is never confirmed; a live one not rejected; the device always has a slot to boot |
| Wi-Fi owner | `C/wifi_runtime/esp_base_wifi.c` | selection, stop in progress, readiness, retry timer, event queue of 16 | start, apply, poll | control task, Wi-Fi driver | selection follows the committed configuration |
| MQTT owner and command queue | `C/device_protocol/mqtt_owner.c`, `mqtt_command.c` | session, generation, pending commands | configure, poll, publish | control task, esp-mqtt | only commands of the connection it announced, under the key in force, are handled |
| FRP owner, listener, authentication | `C/device_protocol/frp_*.c`, `network_auth.c` | worker, HTTP endpoint, management key; 8 cached status replies | configure, poll | control task, esp-frp | no stale key reachable; a replay gets the cached reply |
| line reader | `C/device_protocol/command_decoder.c`, loop of `control_task` | partial line, discard flag, time of the last input | feed, idle timeout | USB FIFO, control task | one command per line, never a tail |
| command decoder | `C/device_protocol/command_decoder.c` | none | scan, parse | control task, cJSON | exactly the five commands, each member once; nothing deep or inexact reaches the parser |
| configuration codec | `C/remote_config/config_codec.c` | none | valid, encode, decode | store, fingerprint | decode inverts encode; one blob per configuration |
| device identity | `C/device_identity/esp_base_identity.c` | one NVS key | read, creating it once | app_main | the identity once told never changes |
| firmware set, container binding | `C/ota_operation/esp_base_ota_firmware.c`, `firmware/integrations/container_binding` | a claim | observe, run an operation under the claim, reconcile | storage owner, OTA, boot loader | the set is true and complete while used; an uncertain operation freezes the firmware |
| time, safety | `C/time_runtime`, `C/safety_runtime` | a flag; reset reason | start, poll; start | control task, app_main | - |
| host tools, laboratory application | `tools/`, `firmware/apps/mqtt_integration` | - | - | - | - |

What makes this hard: two tasks and a worker interleave through atomics; each NVS call may
fail before or after it took effect; power may fail between any two steps and the device
must find out afterwards what happened; a trial, a download, a boot under verification and
retries of commands compete; stops, addresses and deadlines race. `PROJECT.json` lists each
hazard at its line with the properties that cover it, or the reason why none does yet.

## 2. Modules

| module | models | kind |
|---|---|---|
| `ExclusiveClaim` | what the storage owner promises: take, issue, give, each atomic | abstract specification |
| `StorageOwner` | claim and release, one action per atomic access | detailed specification, implements `ExclusiveClaim` |
| `CommandGuard` | `ebase_admit` | operator |
| `RemoteConfig` | load and verified commit as sets of possible results | operators |
| `OtaReceipt` | register, record failure, evaluate | operators |
| `WifiSelection` | the Wi-Fi owner as seen by the control task | operators |
| `WifiRuntime` | the Wi-Fi owner with its event queue, retry timer and stop deadline, one event per step | detailed specification, implements `WifiSelection` |
| `WifiRuntimeProofs` | theorems about `WifiRuntime` | proofs |
| `DeviceControl` | app_main, control task, worker, durable stores, slots, resets | composition of `CommandGuard`, `RemoteConfig`, `OtaReceipt`, `WifiSelection` |
| `DeviceProperties` | properties of `DeviceControl` | properties |
| `DeviceProofs` | theorems about `DeviceControl` | proofs |
| `PendingBoot` | the confirmation window, one action per atomic access and clock reading | detailed specification |
| `PendingBootProofs` | theorems about `PendingBoot` | proofs |
| `MqttOwner` | the MQTT session and the revision bookkeeping around it | detailed specification |
| `MqttOwnerProofs` | theorems about `MqttOwner` | proofs |
| `FrpEndpoint` | FRP client, status listener and their order in a pass of the control task | detailed specification |
| `StatusAnswers` | what the FRP status endpoint promises a caller who repeats requests | abstract specification |
| `FrpStatus` | the table of 8 answered status requests | detailed specification, implements `StatusAnswers` |
| `LineReader` | USB bytes to request lines, with bursts and the idle timeout | detailed specification |
| `CommandText` | the scan of a request before it is parsed | algorithm, one action per turn of the loop |
| `CommandValues` | the kinds of JSON value a document holds | operators |
| `CommandDecoder` | what is made of the parsed document | operators, against a grammar |
| `ConfigCodec` | validity, encoding and decoding of a configuration | operators over a store |
| `TextRules` | the scans of host names and UTF-8 | functions, against their definitions |
| `Identity` | the device identity over NVS failures and power loss | detailed specification |
| `ContainerBinding` | firmware set observation and the container adapter, beside startup and OTA | detailed specification |
| `StorageProofs` | theorems about `StorageOwner`, `Identity`, `ContainerBinding` and the composition `MCStorage` | proofs |
| `NetworkProofs` | theorems about `FrpEndpoint` and the composition `MCNetwork` | proofs |
| `InputProofs` | theorems about `FrpStatus`, and about `LineReader` and `CommandDecoder` within `MCInput` | proofs |
| `TextProofs` | theorems about `ConfigCodec`, `TextRules` and `CommandText` within `MCInput` | proofs |
| `MCDevice` | instances of `DeviceControl` for TLC | instances |
| `MCStorage` | `StorageOwner`, `ContainerBinding`, `Identity`, `PendingBoot` side by side | instances |
| `MCNetwork` | `FrpEndpoint`, `WifiRuntime`, `MqttOwner` side by side | instances |
| `MCInput` | `FrpStatus`, `LineReader`, `CommandText`, `CommandDecoder`, `ConfigCodec`, `TextRules` side by side | instances |

Definitions named `... Blind`, `... Early` and so on that follow a comment "Mutant:" are
deliberately wrong variants of the definition after them; no specification uses them. They
show that each property can fail: replacing the definition by its variant makes TLC find
the property violated (`mutants` in `PROJECT.json`).

### StorageOwner

`next_token` and `active_token` are the two atomics, `claim[t]` is the claim in the memory
of task t, `pc[t]` the place between two accesses, `previous[t]` the loaded token. A claim is
ClaimInUse or ClaimReserve (compare-exchange to the reserved value), ClaimLoad, ClaimGiveUp
or ClaimStoreNext, ClaimPublish, ClaimAdopt; a release is ReleaseEmpty, or Release and
ReleaseClear, or ReleaseStale. A task may release a claim it gave back long ago, which the
API permits. The refinement maps an owner that is reserved or held to the abstract holder.

### DeviceControl

| code | action |
|---|---|
| startup up to the control task | StartControl, StopBeforeControl |
| `stop_after_local_failure` | RejectPending (resets into the other slot), RejectFails |
| window passed, confirmed | ConfirmPending (detail: `PendingBoot`) |
| release of the claim, then of the gate | ReleaseBootClaim, ClearPending |
| `handle_line` | NotAdmitted, Refuse, StartTrial, StartTrialFails, Restart, OtaNotRegistered, StartOta, OtaTaskFails |
| `ota_task`, eota_prepare, eota_select | WorkerWrites, WorkerPrepared, WorkerFails, WorkerSelects, WorkerSelectLost (each of the last three ends with the result stored, WorkerStores) |
| the worker's last store, its flag | WorkerDone |
| `poll_ota` | PollOtaRestarts, PollOtaBootUnknown, PollOtaFails |
| `poll_configuration` | CommitTrial, TrialFails |
| `esp_base_wifi_poll`, uptime, power | PollWifi, Tick, PowerLoss |

The refusals of each command are one operator with the early returns in the order of the
code; the operators of the component modules return the set of everything a call may answer
together with the state it leaves, and the action picks one. Each library call inside a
registration may fail on its own, the second observation of the slots too. `Reset` is what any
reset does: the bootloader's step on otadata, every static at its initial value, and the first
lines of app_main up to the verification gate.

The worker publishes in two steps, the result and then the flag that `poll_ota` tests. The
result is a static that outlives the download and reads as success in a new boot, so the order
matters: a flag seen first would hand `poll_ota` what an earlier worker left, and
SelectedImageIsAccounted would fail for an image that is already selected.

Abstractions, each chosen so that more rather than fewer behaviours remain:
- The polls of one pass of the control task interleave freely with other tasks; their fixed
  order within a pass is not used.
- A body stands for its SHA-256 fingerprint. `"self"` is the device identifier, the boot
  number stands for the random boot identifier: the host can address any boot.
- NVS keeps the old or the new blob when a write is cut short or reports an error (its
  documented atomicity; external). Losing a blob altogether is not modelled.
- eota_prepare returns success only with the complete requested image in the other slot;
  eota_select either takes effect or not, and its readback may fail (external, from how
  `poll_ota` treats the results). The bootloader boots a new image once as pending and gives
  it up at the next reset unless it was confirmed (IDF rollback, external).
- Writing a configuration and its readback are one action with several outcomes. Power loss
  inside it equals the `uncertain` outcome followed by power loss.
- The Wi-Fi retry timer and the event queue are left out of `WifiSelection`; the 2 s stop
  limit may expire at any poll. `WifiRuntime` has them and is checked to implement it.
- When an error is written to an outcome, all download errors are "ota_error": no property
  tells them apart.

### PendingBoot

`stage` and `step` are the place of app_main in its three waits, `control` the place of the
control task in its pass. The time-stamp store, the counter increment and the observed flag
of note_progress are separate steps, as are the loads of the observer and its clock reading.
Silence is counted from the clock readings of the control task. Assumed is that app_main,
the lowest-priority task, is scheduled within `Late` ticks; nothing is assumed of the
control task.

### MqttOwner

| code | action |
|---|---|
| `poll_configuration` commits | CommitConfiguration |
| revision test of `control_task`, `esp_base_mqtt_owner_configure` | Configure (KeepRuntime: destroy failed; Replace: with or without a new runtime) |
| `esp_base_mqtt_owner_poll` up to its loop | PollOffline, PollOnline |
| the event loop of the poll | TakeReady, TakeDisconnected, TakeDeleted, TakeError and then StopIfFailed, TakeMessage, EndPoll |
| result and reported | Publish |
| emqtt and the broker (external) | Subscribed, Fails, Dropped, Trouble, Deliver, Expire, Redial |

The owner takes one event per step, and the task of emqtt moves between any two steps; that
is where the two disagree about the link. After an ERROR the owner asks `emqtt_state` twice
(lines 137 and 138), and the client may move between the two looks. A session that is ready at
the first and failed at the second is stopped while `s_ready` stays set. `torn` is history:
the connection such a stop ended. Until the owner announces itself again it is Overlooked,
and takes itself to be on the connection that follows (Heard).

What is assumed of emqtt follows from how the owner uses it and from the owner's test: a
successful stop or destroy ends the session and drops the waiting events, a failed one changes
nothing; the state of the session changes together with the event that tells of it; a session
that is connecting, ready or disconnected may be given up with an ERROR (for a ready one the
test does so, `mqtt_owner_test.c:201-208`). A message is represented by its signer and by the
connection it came over. The retry deadline is a countdown. During a boot under verification
the pass changes nothing here, so the model begins after it.

### FrpEndpoint

A pass is four steps in the order of `control_task`: `config` (Reconfigure or SameRevision),
`listen` (BindFails, NotListening, AcceptFails, Serve), `own` (PollGated, PollWaits,
PollCreates), `delay` (NextPass, which advances the clock by one or two ticks). `endpoint` is
the configuration the listener serves, `owned` the one the owner holds; `conn` is the single
connection slot with its age, the sends left of its response, the number of handler calls
and the revision of the listener that accepted it. The sockets are non-blocking, so what the
peer does is the choice of the poll that meets it. The worker of efrp runs, is asked to stop
and ends in its own time (WorkerEnds, external). A client whose start fails is released at
once; when the release has to wait, it drains like any other (NewClient, PollCreates). The fields that only feed the snapshot are
left out.

### FrpStatus

`handle_frp_status` on a parsed request is Cached, Store or Refused; the codes of a refusal
are not told apart. A slot whose deadline has passed is free. The refinement maps, for each
identifier, the live slots that hold it to what `StatusAnswers` remembers of it: with more
than one such slot, or with a slot reused too early, no abstract step matches.

### WifiRuntime

| code | action |
|---|---|
| `esp_base_wifi_apply` | Apply: ApplyDuringStop, ApplyStarts, ApplyStops, ApplyStopFails |
| `esp_base_wifi_poll` up to its loop | PollOverflow, PollBegins |
| one turn of the loop | TakeStopped, TakeIgnored, TakeStarted, TakeAssociated, TakeDisconnected, TakeLostAddress, TakeGotAddress |
| the rest of the poll | PollStopTimedOut, PollConnects, PollEnds |
| `event_received` | Post, as part of DriverStep |
| the driver (external) | DriverStep |

The driver moves between any two events that a poll takes, so an address event may be taken
when the link is gone; the recheck (LinkProven) reads what the driver says then,
and its calls may fail although the link is up. `retry_in`
and `stop_in` are countdowns of the two deadlines. Assumed of the driver is that it does
later what it accepted and reports it, and that a call that fails changes nothing. The
refinement mapping forgets queue, timers and link; what remains is the record that
`DeviceControl` carries as `wifi`.

### LineReader

A pass is CheckIdle, ReadBytes and one Feed per byte. The FIFO holds the host back when it is
full. `frame`, `cut`, `line` and `ended` are history: what stood between two newlines and
what the handler got of it.

### CommandText and CommandDecoder

`CommandText` takes a text apart as `valid_bytes` does, one turn of the loop per step. Its
texts are made from values whose nesting, separators and numbers are known, sent whole, cut
off after any byte, or with a control character in any place; what the scan should answer is
read off the value and never off the text. Two digits, one name, one multibyte character and
the escapes `\"`, `\\` and `\u0000` stand for all. A backslash in front of a multibyte character
or of `u0000` is refused (Unescapable). `CommandDecoder` begins with the document
that the parser made: the members of each object in their order, repeated ones included. The
fields and their values are tables; the order of the checks is that of the code where it
decides the answer (`unsupported_configuration`, `unsupported_command`). The grammar it is
compared with looks at all members at once and at no lookup.

### ConfigCodec and TextRules

The header of the blob is a sequence of 40 bytes; a text is the stretch of the body where it
lies, and decode finds the stretches by its own chain of pointers. What texts contain is left
open in `ConfigCodec`; `TextRules` has the two scans with indices and counters. A letter
stands for all letters and digits there, and an octet is itself.

### Identity

The calls of NVS in order, each of which may fail. `stored` is the flash, `staged` the
handle's view; a key that was set may or may not survive a loss of power before the commit.
A UUID keeps its version and variant digits, computed from the random bytes.

### ContainerBinding

`stage` is the place in `esp_base_container_with_firmware_set`, `step` the place in the
observation, which runs twice: LookFirst, VerifyRunning, VerifyTarget, LookAgain, each of
which may end in Unsure instead. The adapter's claim is the variable `holder` (that claims
exclude is shown in `StorageOwner`); startup and OTA are the other holders, whose steps on
flash and otadata are external as in `DeviceControl`. An image is its digest; a foreign image
has a good signature and another project or chip.

## 3. Runs

| run | instance | properties | shows |
|---|---|---|---|
| `storage` | `StorageOwner`: 3 claim objects, tokens up to 4 | ReservationResolves, ImplementsExclusiveClaim | the owner excludes, also with stale releases and an exhausted counter; it refines the atomic claim |
| | `ContainerBinding`: 2 images, 1 foreign image, 2 restarts | SetIsComplete, UnknownFreezes | the firmware set is true while used and frozen when the outcome is unknown |
| | `Identity`: 2 names, 6 values of a random byte | IdentityStable | one identity, told only when durable |
| | `PendingBoot`: limits 5, window 4, pauses 2 and 1, lateness 1, 20 ticks | ConfirmedOnlyAlive, LiveNotRejected, DecidedInTime | a hang is noticed, a live control task is not rolled back, the decision comes in time |
| `network` | `WifiRuntime`: 2 networks, queue of 2, back-off up to 2 failures, stop limit 2 | ReadyLagsDriver, IdleLinkRetries, ImplementsWifiSelection, RetryHappens | no dead link is called ready, no idle driver is forgotten, retries go on; the view of `DeviceControl` is sound |
| | `MqttOwner`: 2 keys, 2 revisions, 2 connections, 3 waiting events, 2 events per poll, retry after 1 tick | CommandsCurrent, SessionsOwned, ReadyLagsQueue, NetworkLossStops | commands only under the key in force and from the announced connection, after finding 6 from the next; no overlooked fault but that one; no session survives a reconfiguration unknown to the owner; a lost network ends the session under any load of events |
| | `FrpEndpoint`: 2 keys, 2 revisions, connection limit 3, retry after 2, 2 sends per response | NoStaleKey, OneConfiguration, EveryRevisionServed, SlotFreed | an old key is revoked at once, an old client is gone before the new listener opens; each revision is served and each connection freed |
| `input` | `LineReader`: a letter, NUL, newline; lines of 2, bursts of 2, FIFO of 2, idle time 1 | LinesIntact | a line reaches the handler whole or not at all |
| | `CommandText`: values 2 levels deep, limits 1 | ScanDecides | the scan decides by structure, not by what strings contain |
| | `CommandDecoder`: 7 documents, 2 deviations each | OnlyTheGrammar | exactly the commands of the protocol are taken |
| | `FrpStatus`: 3 identifiers, 2 slots, window 2, 4 ticks | AnswersOnce | a repeated request gets the first answer until its deadline, also with a full table |
| | `ConfigCodec`: lengths and ports at their limits and at 255, 256; one edited header byte | RoundTrip, Canonical | decode inverts encode; an accepted blob is the one this firmware writes |
| | `TextRules`: names up to 7 letters with labels of 3; up to 4 of 21 boundary octets | HostnamesAreDnsNames, Utf8IsWellFormed | the scans accept what their definitions say |
| `config` | 6 requests, 2 slots in the guard, 3 boots, 3 ticks | ExecutedAtMostOnce, AckedConfigDurable, MemoryMatchesStore, SelectionMatchesConfig | commands at most once, durability, consistency of store, memory and Wi-Fi selection |
| `ota` | 5 requests, 2 operations, 2 images, 3 boots | WriterIsRegistered, SelectedImageIsAccounted, AlwaysBootable, VerdictsAreFinal | registered before written, always a bootable slot, verdicts stable over resets |
| `mixed` | download and configuration competing, 2 boots | ActivitiesExclusive, RunningIsOwned, TrialEnds, DownloadEnds | exclusion of the activities, none in an unverified boot, both end and are reported |
| `repeated_download` | A, B, A again | SameIdNeverDownloadsTwice violated | finding 1 |
| `stale_rollback` | A rolled back, then B | RollbackOnlyAfterSelection violated | finding 2 |
| `false_uncertain` | configuration with failing Wi-Fi | UncertainOnlyAfterStorageFault violated | finding 3 |
| `boundary_pass` | as `PendingBoot` in `storage` | CompletePassAfterBoundary violated | finding 4 |
| `wifi_stop` | as `WifiRuntime` in `network`, smaller | LatestSelectionStarts violated | finding 5 |
| `torn_reading` | as `MqttOwner` in `network`, one key and revision | CommandAfterSuback violated | finding 6 |

The runs `storage`, `network` and `input` each hold several models that share no state: a
variable `part` is chosen in the initial state and never changes, the chosen model steps as
its own Next says, and the others stay where they start. The reachable states are the sum and
not the product of those of the parts, fairness is stated for the steps of each part, and a
property of a part is checked in all the behaviours that the part alone would have. `MCStorage`
and `MCNetwork` instantiate the proof modules of their parts, so that what is proved of a part
carries over to the property the run checks (section 4). Interaction
between such parts is in the models themselves: `ContainerBinding` has startup and OTA beside the
adapter, and what `DeviceControl` uses of the Wi-Fi owner is what `WifiRuntime` is shown to
implement.

ImplementsExclusiveClaim implies MutualExclusion and TokensUnique of `StorageOwner`, and
AnswersOnce implies OneSlotPerId of `FrpStatus`; the runs therefore check the refinements
only. Both refinements and the three invariants are theorems (section 4).

Why the bounds are enough. Three tasks give a holder, a competitor and a stale releaser; a
token width of 4 lets the counter run out. Two guard slots are filled by retries and refused
requests, which is what 32 slots do later. Two revisions beyond the initial one let a commit
follow a commit and reach the largest revision. Three boots are what an update needs: the
one that downloads, the one that verifies, the one after a rollback; power loss is possible
in all but the last. Two operations are enough to replace a receipt, two images to tell the
running one from the new one. The clock tick matters only relative to the trial's deadline
and to the expiry of a request, both within the bound.

In `MqttOwner` a second revision replaces a first under a running session, the second
connection is the one whose events mix with those left of the first, and a queue longer than
the burst makes a poll end before the queue does. In `FrpEndpoint` a change of key, a change
to no key and a change while the old worker drains need two revisions only. In `FrpStatus`
three identifiers compete for two slots, and the clock passes two windows, so slots expire
and are reused at different times.

In `WifiRuntime` a queue of two overflows while a poll is under way and keeps an event of an
older association beside a newer one; two networks let a selection change under a link. In
`LineReader` a line, a burst and the FIFO have different boundaries in every combination, and
a frame may be longer than all of them; one letter stands for all, since the code compares a
byte with NUL and newline only. In `CommandText` values go one level and one separator past
the limits. In `ConfigCodec` every length that has two bytes
takes values on both sides of 256, and every text is present and absent. In `TextRules` the
octets are both ends of every range the code distinguishes. In `CommandDecoder` one deviation
may hide another: a repeated member makes up for an omitted one. In `ContainerBinding` two
restarts are a download that becomes pending and its confirmation or rollback.

Bounds are the constants `MaxNow` and `MaxBoots` (no power loss at or after boot `MaxBoots`;
resets the program itself asks for are not bounded but use up requests), and the finite
request set; in `MqttOwner` and `FrpEndpoint` `MaxRev` (revisions committed), `MaxLink`
(connections dialled) and `MaxQueue` (waiting events), in `FrpStatus` `MaxNow`, in
`ContainerBinding` `MaxBoots`, in `CommandDecoder` `MaxEdits`, in `CommandText` `Levels`, in
`TextRules` the lengths. Deadlock checking is off for the runs of `MCDevice` because app_main
really stops after some failures of the startup (StopBeforeControl) and then only power helps,
and for `input`, most of whose parts are computations that end.

Fairness (`FairSpec`, and `MCSpec` of the runs with parts). The control task never blocks for ever in its loop, so each poll is
reached again: weak fairness of PollConfiguration and PollOta. The worker is scheduled and
the calls eota_prepare and eota_select return (the library bounds them by its deadlines):
weak fairness of WorkerStep. Time passes. Nothing is assumed of Wi-Fi, of app_main, of the
host or of power. In `StorageOwner` a task that is inside a call is scheduled again. In `MqttOwner` the steps of
the owner are fair, because the control task runs for ever; the link, the broker and the
clock owe nothing. In `FrpEndpoint` the steps of the control task are fair, and a worker that
was asked to stop ends, which is what efrp's destroy with timeout 0 relies on. In
`WifiRuntime` the polls are weakly fair and the clock strongly, for it is read only between
two polls, which come and go; the driver owes nothing, and RetryHappens names what it must
not do: report faster than the loop takes, or lose addresses without end.

### Findings

1. **The same operation can be downloaded twice.** `esp_base_ota_receipt.h:41` says "the
   same ID never downloads twice", `docs/design/device-protocol.md:31` the same. Only the
   latest receipt is compared: A fails, B replaces the receipt, A registers again.
   The latest operation itself is never started again (`Register`, same identifier).
2. **A rollback can be reported for an operation that never selected its image.** After A
   was rolled back its slot stays ABORTED or INVALID. B registers and the device resets
   before the download. `evaluate` then takes the state left by A as evidence about B.
3. **Writes close as `storage_uncertain` without a storage fault.** `restore_committed` sets
   the flag when Wi-Fi cannot apply a selection; after a failed Wi-Fi initialization one
   refused trial closes config.set, ota.start and restart until a power cycle, while
   `C/wifi_runtime/README.md` says that USB management stays usable.
4. **The pass that confirms a slot may have begun before the window ended**, contrary to the
   comment at `esp_base_main.c:188`. ConfirmedOnlyAlive still holds.
5. **A selection accepted during a stop may never start.** The comment at
   `esp_base_wifi.c:75` says "Latest explicit selection starts after STOP". When the stop
   outlasts its 2 s (or an overflow is seen), the state is `failed` and the STOPPED that comes
   later starts nothing, although the selection was accepted with ESP_OK. The trial that made
   it fails (TrialEnds) and restores the committed selection.
6. **A command can be dispatched ahead of the SUBACK of its connection.** After an ERROR the
   owner asks `emqtt_state` twice. If the session is ready at the first look and failed at the
   second, it is stopped with `s_ready` still set; when it is started again, a message that
   the new connection delivers before its SUBACK passes the test at line 144. The documents
   say otherwise: "重新连接必须重新取得 SUBACK" (`C/device_protocol/README.md:40`), and ready only
   after the SUBACK of this round (`docs/design/device-protocol.md:43`). CommandsCurrent says
   what remains true: the message is still verified with the key in force, and comes over the
   connection next after the one that failed, none later. The owner's own readiness for
   publishing asks `emqtt_state` afresh and is not affected.

A remark on the scan: the byte after a backslash is skipped unchecked (`command_decoder.c`,
line 37), so a NUL there is left to the parser. ScanDecides sets such texts aside.

## 4. Proofs

All constants are arbitrary up to the named assumptions (for instance `UintMax` any natural
number above the initial token, any set of tasks, any set of requests).

**`StorageProofs`.** The storage owner: TypeCorrect, Exclusion, ActiveToken, Uniqueness,
HolderFrees and Refinement: the refinement that the run `storage` checks, and the safety
properties it implies. Mutual exclusion alone is not inductive: a task between two accesses of
a claim must be known to be the only one, and the word in `active_token` must be tied to
whoever is inside. The inductive invariant `IInv` adds to TypeOK, MutualExclusion and
ActiveTokenAccurate two parts: CallsConsistent (what the program counter of a task says about
its claim, its loaded token and the two shared words) and GrantsCounted (every token given out
so far is below the counter). The step lemma has one case per action. Refinement then maps
initial states and steps: only the successful compare-exchange, the publication and the
clearing exchange are abstract steps, all others stutter.

The identity: OneIdentity (IdentityStable), for any names and random bytes that are bytes. The
property speaks of what flash holds once a boot was told its identity, but the key reaches flash
by way of the output buffer and the handle. `IdentityInv` follows it there: OnItsWay says what is
in flash, in the handle and in the buffer at each call, OnceToldKept that flash holds what was
told and that a refusal is about another maker's key only. GeneratedIsOwn is the arithmetic of
`generate_uuid`: whatever the random bytes, the result has version 4 and a variant of 8 to 11,
which is what `is_uuid_v4` asks for at the next boot.

The container adapter: ObservedSetIsComplete (SetIsComplete) and UnknownIsFrozen
(UnknownFreezes), for any images and number of restarts. `ContainerInv` says what an
observation has established by the step it is in (Established), that a set is the truth from
its observation to the end of the call (SetHolds), and that the claim stays with the adapter
from its operation until the outcome is known (BoundHolds). The last is what makes the other
two survive: startup and OTA, the only ones that change slots, move only without the claim.
`PartsAssumption` collects the parts' assumptions, which TLC evaluates for the run.

The window of a boot under verification, within the composition: SilenceIsNotConfirmed
(ConfirmedOnlyAlive), QuickIsNotRejected (LiveNotRejected) and DecisionInTime (DecidedInTime).
A behaviour of `MCStorage` is one of `PendingBoot` (WindowInside), and the theorems of
`PendingBootProofs` say the rest.

**`DeviceProofs`.** Every invariant and the action property that the runs `config`, `ota` and
`mixed` check, for any requests, configurations, images, window, trial length and number of
boots, with failing writes and with power loss between any two steps. Assumed are `DeviceAssumption`,
`GuardAssumption` and `RevisionAssumption` (the constants are numbers and sets of the right kind),
`PartialAssumption` (a slot that is being written equals no image) and `BodiesAssumption` (what
the command decoder lets through, see GrammarIsExact). There is one invariant for each concern,
each preserved by every action of the device:

- ActivitiesExclude (ActivitiesExclusive): inductive by itself, because the refusals in front of
  StartTrial and StartOta read all three flags, resets clear the activities, and within a boot
  the gate is only lowered. The other invariants build on it.
- `OtaInv` gives WritersAreRegistered (WriterIsRegistered), SelectionsAreAccounted
  (SelectedImageIsAccounted) and AlwaysBoots (AlwaysBootable). These three need each other: the
  other slot may be overwritten because the running one is complete and accepted (RunningIsSound),
  and because nothing awaits verification until the worker selects its image
  (NothingSelectedYet); what a reset boots is the running slot or the new image of the receipt
  (SelectorFollows). WorkerOwned ties the worker to claim, flag and receipt;
  NothingSelectedYet looks at the result of a worker from the step that stores it.
  The lemmas on resets follow the bootloader over every state of the two slots.
- VerdictsStay (VerdictsAreFinal), an action property, follows from `OtaInv`: a final verdict is
  given only while no worker exists and the running slot is the selected one and verified
  (FinalVerdict). A reset then comes back to that slot (ResetIntoVerified), and every other
  step that leaves the receipt leaves what the verdict depends on.
- `ControlInv` gives AckedIsDurable (AckedConfigDurable), MemoryIsStored (MemoryMatchesStore) and
  SelectionIsCommitted (SelectionMatchesConfig). What ties them is CandidateIsSelected: while a
  trial runs the Wi-Fi owner is set to its candidate, so a commit stores what was tried, and
  both ends of the trial leave the owner with the network of the configuration in memory.
- `CommandInv` gives RunningOutcomesAreOwned (RunningIsOwned). WorkHasSlot says that a trial or a
  download names an outcome that exists; two at once are excluded by ActivitiesExclusive.
- `EffectInv` gives EffectsAtMostOnce (ExecutedAtMostOnce). The guard forgets at every reset, so
  the property cannot rest on it alone: EffectIsRemembered says that an executed request either
  is addressed to a boot that is over or is still in the guard.

**`NetworkProofs`.** OldKeyRevoked (NoStaleKey) and OldClientGone (OneConfiguration), for
any keys, limits and number of revisions. Neither is inductive: that a client belongs to the
open listener depends on the owner's configuration being the listener's when a client is
created, and that the listener is current depends on the remembered revision. The invariant
`Strong` says both: the remembered revision is never ahead of the configuration; whenever it
equals the one in force, or the pass is beyond its first step, endpoint and connection belong
to the configuration in force; an open endpoint equals the owner's configuration; and
OneConfiguration. Three lemmas say what a poll makes of a connection and of a client.

The composition: NoDeadLinkInUse (ReadyLagsDriver), NoStationForgotten (IdleLinkRetries) and
WifiKeepsPromise (ImplementsWifiSelection) of the Wi-Fi owner, CommandsAreCurrent
(CommandsCurrent), SessionsAreOwned (SessionsOwned) and FaultsAreNoticed (ReadyLagsQueue) of the
MQTT owner. A behaviour of `MCNetwork` is one of each owner, and the theorems of
`WifiRuntimeProofs` and `MqttOwnerProofs` say the rest (`OwnersAssumption`).

**`InputProofs`.** Three stages of `MCInput`.

The answered status requests, for any number of slots and identifiers and any window: TypeCorrect
(TypeOK of `FrpStatus`), OneSlot (OneSlotPerId: a request is stored only when no live slot holds
its identifier, and time only frees slots) and TableKeepsThePromise (AnswersOnce, the refinement of
`StatusAnswers`). Besides OneSlot the refinement needs that no deadline lies further ahead than
the window (WithinWindow): then the slot that matches a repetition passes the checks a second
time, and a refusal never hits what is remembered (RefusedIsUnknown). One lemma maps each kind of
step: TickForgets, CachedRepeats, StoreRemembers, which takes the least free slot.

The line reader, for any bytes, limits, bursts and pauses: RequestsStayWhole (LinesIntact), that a
line reaches the handler as it was sent or not at all. The reader keeps a flag and a buffer, the
property speaks of the whole frame; FrameKept ties them: the flag is up exactly when the frame was
given up, holds a NUL or is longer than a line (Dropped), and otherwise the buffer is the frame.

The command decoder, for documents of any length with any members, repeated ones included:
GrammarIsExact (OnlyTheGrammar). `exact_keys` requires as many members as keys and looks for
each key once; it never looks at a member for its own sake. The grammar says what all the
members are. ExactlyTheKeys shows that the two agree, by the pigeonhole principle: as many
members as keys, and a place of its own for each key, leave no place for any other member.
ItemOfOnly turns looking up the first member of a name into looking at the only one, and
FillsIsForm carries both over to the values. StatusConforms, QueryConforms, OtaConforms,
ConfigConforms and RestartConforms do one command each, with the order in which errors are
found. DocumentsStay shows that replacing, omitting and repeating members leaves a document of
the kind the lemmas are about. `InputAssumption` says that limits are numbers (those
of the scan too) and that the documents are made of lists of members.

**`TextProofs`.** Five questions about texts that `MCInput` asks: two of the configuration
codec, one each of host names, UTF-8 and the scan of a request. Nothing is proved by induction
over texts; where a function is recursive, two functions that obey its equation are compared at
the least or the last place where they differ.

The configuration codec, for all lengths within the limits of the parsers, all ports and all
edits of a byte (`CodecAssumption`): SavedIsLoaded (RoundTrip) and AcceptedIsCanonical
(Canonical). BytesOfWord and WordOfBytes take the two bytes of a number apart and together,
FlagsBack and FlagsOfByte the three flags of one byte; HeaderIs gives the 40 bytes of a header one
by one. StartsArePointers says that the offsets at which the encoder appends are the pointers
from which the decoder takes, because both add the same lengths in the same order. That gives
DecodeEncode. EncodeDecode is the converse: a header that is accepted is the one that encode
writes for what it tells of.

Host names, of any length and any labels (`TextAssumption`): ScanIsDnsName
(HostnamesAreDnsNames). The scan counts the letters of a label and forgets them at a dot; the
definition speaks of the labels between two dots with none in between. The counter is the distance
to the last dot, and the places of the dots therefore say all that the counter says.

UTF-8, of any length and any bytes: ScanIsUtf8 (Utf8IsWellFormed). The decoder computes a code
point and then rejects the short forms, the surrogates, what is too large and, for a network
name, what is not a character; the definition is the table of the well-formed byte sequences.
Both read the same characters at a place (ScanReads, FormReads, with one arithmetic lemma for
each number of bytes), and two walks that read the same characters accept the same texts
(WalksAgree).

The scan of a request, for any limits and for values nested to any depth
(`CommandTextAssumption`: the limits are numbers): ScanDecidesRight (ScanDecides). A turn of
the loop sees nothing but the bytes it takes and the one behind them, so the reading of a text
is composed of the readings of its parts, unless a number at the end of one goes on in the next
(Joined). A reading (`Reading`) says which places the loop comes by and with which quoting,
nesting and count, how far nesting and count go, and whether all of it is plain. A string, a number
or a literal leaves the nesting as it was (Flat); brackets around readings give a reading one
deeper (Opened), and so all values have one that ends where it began (ValuesAreBracketed), level
by level of their construction. Two facts of the loop follow for each text. A whole one is
turned away only at a limit or at what is not plain, and the loop comes by nothing but the
places of its reading (Whole). Behind its first byte a container stays at least one deep
until its last, so a text that was cut short or spoiled before its end cannot be accepted
(Ruined). `ScanInv` carries the two from turn to turn.

**`WifiRuntimeProofs`.** NoDeadLink (ReadyLagsDriver), NeverStranded (IdleLinkRetries) and
KeepsSelection (ImplementsWifiSelection), for any networks, delays and queue length. None is
inductive: each says that a report *waits*, and which report comes next depends on what was
queued before it. The invariant `Strong` adds that the owner's flags and the driver agree up
to the call or report that separates them (DriverAgrees), what the queue can hold in which
order (QueueInOrder: STARTED only first, STOPPED only last, nothing from before a start), and
that a station rests until its STARTED is taken (StartFirst). ReadyOrReported and
RetryOrReported are the two properties in the form in which the steps preserve them: taking a
report either clears the flag or arms the retry that the report stood for, and a full queue
leaves the overflow flag in its place.

**`MqttOwnerProofs`.** NoStaleCommand (CommandsCurrent), NoUnownedSession (SessionsOwned) and
LossIsNoticed (ReadyLagsQueue), for any keys, queue, burst, revisions and connections, each with
the exception that finding 6 makes. That a dispatched message came over the connection the owner
takes itself to be on depends on everything queued before it.
`Strong` therefore orders the queue (InOrder: between events of two connections stands the
DISCONNECTED of the first, and an event without one behind it is of the present connection),
ties readiness to it (Announced: before the first such end every event is of the connection that
the owner takes itself to be on, and without one that connection is the present one and ready, or
failed with its ERROR waiting), and says what an owner in order was configured with (HandedOver).
Torn bounds the exception: a stop that left the owner ready emptied the queue, so every waiting
event, and every running session, is of a later connection; and the first DISCONNECTED or failure
of the one that follows clears the readiness or waits to do so, so the exception does not reach
beyond it. The lemmas TailFacts and TellsFacts reduce taking and appending to index arithmetic;
the step lemma has one case per event kind, one for each look at a session, and one per action of
the client. A stop that fails closes the owner and leaves the queue as it is, so it is order, not
emptiness, that the proof rests on.

**`PendingBootProofs`.** NoHangConfirmed (ConfirmedOnlyAlive), NoRaceRejected
(LiveNotRejected) and WaitsAreBounded (DecidedInTime), for any limits, pauses and lateness
with StartTimeout <= MaxStale and ShortPoll <= WindowPoll (`LimitsAssumption`; the code has
5000 <= 5000 and 100 <= 1000 ms); this and `WindowAssumption` are hypotheses of the theorems. The bounds are sums that are used up along the way, so
`Strong` says how much of them is left at each step of a wait: how far the clock readings and
the stored stamp lag behind time (Readings), when each wait began and will wake (OnTime), how
old the last healthy look is while app_main watches (Alive), and what fruitless looks so far
say about the longest silence (Followed). The last carries the argument against a rejected
race: a stamp is stored at most one silence after it was read, so what a look finds is at
most two silences old; and after the window at most one clock reading can be taken before a
pass is counted.

The theorems name the assumptions they use. Of the passing runs, every invariant, action
property and refinement is a theorem. Liveness (ReservationResolves, TrialEnds, DownloadEnds,
NetworkLossStops, EveryRevisionServed, SlotFreed, RetryHappens) is out of the prover's reach
and stays with TLC.

## 5. Plan

Order, most important first; all are done.

1. `StorageOwner` with `ExclusiveClaim` and proofs. (done)
2. `DeviceControl` with its component operators, runs `config`, `ota`, `mixed`. (done)
3. `PendingBoot`. (done)
4. `MqttOwner`, with the revision bookkeeping of control_task (lines 562-569). (done)
5. `FrpEndpoint` (lines 570-582) with proofs; `FrpStatus` (lines 144-198) with
   `StatusAnswers` and proofs. (done)
6. `WifiRuntime`, implementing `WifiSelection`. (done)
7. `LineReader`, `CommandText`, `CommandDecoder`, `ConfigCodec`, `TextRules`, `Identity`,
   `ContainerBinding`. (done)
8. Proofs: the safety properties of `DeviceControl`, `StorageOwner`, `FrpEndpoint`, `FrpStatus`,
   `WifiRuntime`, `MqttOwner`, `ContainerBinding`, `PendingBoot`, `Identity`, `LineReader`,
   `CommandText`, `CommandDecoder`, `ConfigCodec` and `TextRules`, and the refinements. (done)

## 6. Not modelled

- The read-only commands `status` and `ota.result` change nothing (the verdict of the latter
  is `Evaluate`); JSON output, formatting and logging.
- The time owner: one flag, set or cleared from what SNTP and the clock say, and an input that
  may change at any pass of the modules that read it. The safety facts: the reset reason and
  the configuration of the task watchdog. The OTA policy: a constant record.
- The character classes of passwords, tokens, proxy names and PEM texts, which are one
  comparison per byte with no state; SHA-256 and HMAC.
- The HTTP syntax of the FRP listener and the topics of MQTT.
- The order in which a failed Wi-Fi initialization is undone (its result is `WifiOff`).
- The laboratory application is a bench for the external esp-mqtt, and the host tools are
  command-line programs whose order and repetition is unrestricted here.
- The driver and network stacks, FreeRTOS, esp-ota, esp-mqtt, esp-frp, esp-container, cJSON,
  NVS and the boot loader, other than as described. Memory-order effects beyond interleaving:
  the device has one core.

`PROJECT.json` gives the status of every component.
