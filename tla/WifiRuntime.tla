------------------------------ MODULE WifiRuntime ----------------------------
(***************************************************************************)
(* The Wi-Fi owner in full, esp_base_wifi.c: the queue into which the      *)
(* event task drops what the driver reports, the retry timer with its      *)
(* back-off, the deadline of a stop, and the recheck of the driver's facts *)
(* before an address counts.  One event is taken per step, so the driver   *)
(* moves on while a poll is under way.  The model begins when              *)
(* esp_base_wifi_start has initialized the driver and is about to apply    *)
(* the stored selection; a clock tick is one second and falls between two  *)
(* polls.                                                                  *)
(*                                                                         *)
(* Assumed of the driver (external), from its use here: it does what it    *)
(* accepted after the call returns and reports it then; a call that fails  *)
(* changes nothing.                                                        *)
(***************************************************************************)
EXTENDS Naturals, Sequences

CONSTANTS
    Networks,     \* the networks a selection can name
    Capacity,     \* entries of the event queue (16 in the code)
    MaxFailures,  \* failures up to which the back-off doubles (5 in the code)
    StopWait      \* ticks granted to a stop (2 in the code)

NoNetwork == "unconfigured"

WifiRuntimeAssumption ==
    /\ NoNetwork \notin Networks
    /\ Capacity \in Nat \ {0} /\ MaxFailures \in Nat \ {0} /\ StopWait \in Nat \ {0}

VARIABLES
    \* esp_base_wifi.c
    config, active, stopping, associated, ready, connecting,
    retry_in,  \* s_retry_at: {} when there is none, else {ticks until then}
    stop_in,   \* ticks until s_stop_deadline
    failures, state,
    pc,        \* where the control task is: outside the owner, or taking events
    queue, overflow,
    \* the driver and its network interface
    link, network,
    \* history
    owed       \* a selection accepted during a stop and not yet started

flags == <<associated, ready, connecting>>
driver == <<link, network>>
events == <<queue, overflow>>
vars == <<config, active, stopping, flags, retry_in, stop_in, failures, state, pc,
          events, driver, owed>>

Init ==
    /\ config = NoNetwork /\ state = "unconfigured"
    /\ active = FALSE /\ stopping = FALSE
    /\ associated = FALSE /\ ready = FALSE /\ connecting = FALSE
    /\ retry_in = {} /\ stop_in = 0 /\ failures = 0
    /\ pc = "idle"
    /\ queue = <<>> /\ overflow = FALSE
    /\ link = "off" /\ network = NoNetwork
    /\ owed = FALSE

-----------------------------------------------------------------------------
(* failed, start_selected, schedule_retry *)

Clear == associated' = FALSE /\ ready' = FALSE /\ connecting' = FALSE

Failed == state' = "failed" /\ Clear /\ retry_in' = {}

\* Called only when the driver is not active; set_config or start may fail.
StartSelected(selection) ==
    /\ retry_in' = {}
    /\ \/ /\ selection = NoNetwork
          /\ state' = "unconfigured" /\ Clear /\ active' = FALSE
          /\ UNCHANGED driver
       \/ /\ selection # NoNetwork
          /\ state' = "connecting" /\ Clear /\ active' = TRUE
          /\ network' = selection
          /\ link' = IF link = "off" THEN "starting" ELSE link
       \/ /\ selection # NoNetwork
          /\ Failed /\ active' = FALSE
          /\ network' \in {network, selection}
          /\ UNCHANGED link

\* Mutant: the flag of a connection under way stays.
ScheduleRetryConnecting ==
    /\ associated' = FALSE /\ ready' = FALSE /\ UNCHANGED connecting
    /\ state' = "disconnected"
    /\ failures' = IF failures < MaxFailures THEN failures + 1 ELSE failures
    /\ \E jitter \in 0 .. 1 : retry_in' = {2 ^ (failures' - 1) + jitter}

\* The delay doubles with each failure and gets some jitter.
ScheduleRetry ==
    /\ Clear
    /\ state' = "disconnected"
    /\ failures' = IF failures < MaxFailures THEN failures + 1 ELSE failures
    /\ \E jitter \in 0 .. 1 : retry_in' = {2 ^ (failures' - 1) + jitter}

-----------------------------------------------------------------------------
(* esp_base_wifi_apply *)

ApplyDuringStop ==
    /\ stopping
    /\ Clear /\ retry_in' = {} /\ owed' = TRUE
    /\ UNCHANGED <<active, stopping, stop_in, state, driver>>

ApplyStarts(selection) ==
    /\ ~stopping
    /\ ~active \/ link = "off"   \* not active, or the driver says NOT_STARTED
    /\ StartSelected(selection)
    /\ UNCHANGED <<stopping, stop_in, owed>>

ApplyStops ==
    /\ ~stopping /\ active /\ link # "off"
    /\ stopping' = TRUE /\ stop_in' = StopWait
    /\ state' = "connecting" /\ Clear /\ retry_in' = {}
    /\ link' = "halting"
    /\ UNCHANGED <<active, network, owed>>

\* Mutant: a failed stop still counts as under way.
ApplyStopPending ==
    /\ ~stopping /\ active /\ link # "off"
    /\ Failed
    /\ stopping' = TRUE /\ stop_in' = StopWait
    /\ UNCHANGED <<active, driver, owed>>

\* The stop failed: the owner gives up until the next selection.
ApplyStopFails ==
    /\ ~stopping /\ active /\ link # "off"
    /\ Failed
    /\ stop_in' = StopWait
    /\ UNCHANGED <<active, stopping, driver, owed>>

Apply ==
    /\ pc = "idle"
    /\ failures' = 0
    /\ \E selection \in Networks \cup {NoNetwork} :
          /\ config' = selection
          /\ ApplyDuringStop \/ ApplyStarts(selection) \/ ApplyStops \/ ApplyStopFails
    /\ UNCHANGED <<pc, events>>

-----------------------------------------------------------------------------
(* esp_base_wifi_poll *)

\* Mutant: the flag is reset and the events that did arrive are taken.
PollOverflowGoesOn ==
    /\ pc = "idle" /\ overflow
    /\ overflow' = FALSE
    /\ pc' = "events"
    /\ UNCHANGED <<config, active, stopping, flags, retry_in, stop_in, failures, state,
                   queue, driver, owed>>

\* Lost events: nothing that is queued is trusted, and nothing is taken.
PollOverflow ==
    /\ pc = "idle" /\ overflow
    /\ overflow' = FALSE
    /\ Failed
    /\ UNCHANGED <<config, active, stopping, stop_in, failures, pc, queue, driver, owed>>

PollBegins ==
    /\ pc = "idle" /\ ~overflow
    /\ pc' = "events"
    /\ UNCHANGED <<config, active, stopping, flags, retry_in, stop_in, failures, state,
                   events, driver, owed>>

Take(event) ==
    /\ pc = "events" /\ queue # <<>>
    /\ Head(queue) = event
    /\ queue' = Tail(queue)

\* The driver is out of the way: the latest selection starts, unless the owner has
\* already given up.
TakeStopped ==
    /\ Take("STOPPED")
    /\ stopping' = FALSE
    /\ \/ /\ state # "failed"
          /\ StartSelected(config)
          /\ owed' = FALSE
       \/ /\ state = "failed"
          /\ active' = FALSE /\ Clear
          /\ UNCHANGED <<retry_in, state, driver, owed>>
    /\ UNCHANGED <<config, stop_in, failures, pc, overflow>>

Heeded == active /\ ~stopping /\ state # "failed"

TakeIgnored ==
    /\ \E event \in {"STARTED", "ASSOCIATED", "DISCONNECTED", "GOT_ADDRESS", "LOST_ADDRESS"} :
          Take(event)
    /\ ~Heeded
    /\ UNCHANGED <<config, active, stopping, flags, retry_in, stop_in, failures, state,
                   pc, overflow, driver, owed>>

TakeStarted ==
    /\ Take("STARTED") /\ Heeded
    /\ retry_in' = {0}
    /\ UNCHANGED <<config, active, stopping, flags, stop_in, failures, state,
                   pc, overflow, driver, owed>>

TakeAssociated ==
    /\ Take("ASSOCIATED") /\ Heeded
    /\ associated' = TRUE
    /\ UNCHANGED <<config, active, stopping, ready, connecting, retry_in, stop_in,
                   failures, state, pc, overflow, driver, owed>>

\* Mutant: a refused connection, which never was associated, is not retried.
TakeDisconnectedAssociated ==
    /\ Take("DISCONNECTED") /\ Heeded
    /\ \/ associated /\ ScheduleRetry
       \/ ~associated /\ UNCHANGED <<flags, retry_in, failures, state>>
    /\ UNCHANGED <<config, active, stopping, stop_in, pc, overflow, driver, owed>>

TakeDisconnected ==
    /\ Take("DISCONNECTED") /\ Heeded
    /\ ScheduleRetry
    /\ UNCHANGED <<config, active, stopping, stop_in, pc, overflow, driver, owed>>

\* The address is lost: the link is given up too, so that its end brings a retry.
TakeLostAddress ==
    /\ Take("LOST_ADDRESS") /\ Heeded
    /\ \/ /\ ready' = FALSE
          /\ link' = IF link \in {"dialing", "associated", "addressed"} THEN "leaving" ELSE link
          /\ UNCHANGED <<associated, connecting, retry_in, failures, state>>
       \/ ScheduleRetry /\ UNCHANGED link
    /\ UNCHANGED <<config, active, stopping, stop_in, pc, overflow, network, owed>>

\* What the driver and the interface say now, whatever the event said then.
LinkProven == link = "addressed" /\ network = config

\* The calls that ask the driver and the interface may fail, and then nothing changes.
TakeGotAddress ==
    /\ Take("GOT_ADDRESS") /\ Heeded
    /\ \/ /\ associated /\ LinkProven
          /\ ready' = TRUE /\ connecting' = FALSE /\ retry_in' = {} /\ failures' = 0
          /\ state' = "connected"
       \/ UNCHANGED <<ready, connecting, retry_in, failures, state>>
    /\ UNCHANGED <<config, active, stopping, associated, stop_in, pc, overflow, driver, owed>>

\* The queue is empty: the deadline of a stop, then a retry that is due.
Drained == pc = "events" /\ queue = <<>> /\ pc' = "idle"

StopOverdue == stopping /\ stop_in = 0

PollStopTimedOut ==
    /\ Drained /\ StopOverdue
    /\ Failed
    /\ UNCHANGED <<config, active, stopping, stop_in, failures, events, driver, owed>>

RetryDue == active /\ ~stopping /\ retry_in = {0} /\ ~connecting

PollConnects ==
    /\ Drained /\ ~StopOverdue /\ RetryDue
    /\ \/ /\ retry_in' = {} /\ connecting' = TRUE /\ state' = "connecting"
          /\ link' = IF link = "idle" THEN "dialing" ELSE link
          /\ UNCHANGED <<associated, ready, failures>>
       \/ ScheduleRetry /\ UNCHANGED link
    /\ UNCHANGED <<config, active, stopping, stop_in, events, network, owed>>

PollEnds ==
    /\ Drained /\ ~StopOverdue /\ ~RetryDue
    /\ UNCHANGED <<config, active, stopping, flags, retry_in, stop_in, failures, state,
                   events, driver, owed>>

TakeEvent ==
    \/ TakeStopped \/ TakeIgnored \/ TakeStarted \/ TakeAssociated \/ TakeDisconnected
    \/ TakeLostAddress \/ TakeGotAddress

Poll == PollOverflow \/ PollBegins \/ TakeEvent \/ PollStopTimedOut \/ PollConnects \/ PollEnds

-----------------------------------------------------------------------------
(* The driver (external); event_received drops each report into the queue *)

Post(event) ==
    IF Len(queue) < Capacity THEN queue' = Append(queue, event) /\ UNCHANGED overflow
    ELSE overflow' = TRUE /\ UNCHANGED queue

Reports(from, to, event) ==
    /\ link \in from
    /\ link' = to
    /\ Post(event)

\* An address may be renewed, and the timer that takes one away may fire late.
DriverStep ==
    /\ \/ Reports({"starting"}, "idle", "STARTED")
       \/ Reports({"dialing"}, "associated", "ASSOCIATED")
       \/ Reports({"associated", "addressed"}, "addressed", "GOT_ADDRESS")
       \/ Reports({"addressed"}, "associated", "LOST_ADDRESS")
       \/ link \in {"idle", "dialing", "associated"} /\ Reports({link}, link, "LOST_ADDRESS")
       \/ Reports({"dialing", "associated", "addressed", "leaving"}, "idle", "DISCONNECTED")
       \/ Reports({"halting"}, "off", "STOPPED")
    /\ UNCHANGED <<config, active, stopping, flags, retry_in, stop_in, failures, state,
                   pc, network, owed>>

Tick ==
    /\ pc = "idle"
    /\ stop_in > 0 \/ retry_in \notin {{}, {0}}
    /\ stop_in' = IF stop_in > 0 THEN stop_in - 1 ELSE 0
    /\ retry_in' = {IF t > 0 THEN t - 1 ELSE 0 : t \in retry_in}
    /\ UNCHANGED <<config, active, stopping, flags, failures, state, pc, events, driver, owed>>

Next == Apply \/ Poll \/ DriverStep \/ Tick

Spec == Init /\ [][Next]_vars

\* The control task polls and time passes; nothing is assumed of the driver.
FairSpec == Spec /\ WF_vars(Poll) /\ SF_vars(Tick)

-----------------------------------------------------------------------------

\* The owner calls the network ready only while the station is linked to the
\* selected network and has an address, or while the report that says otherwise
\* still waits, be it in the queue or as the mark of an overflow: no stale or lost
\* event leaves a dead link in use (event_received, line 39; poll, lines 101-137).
ReadyLagsDriver ==
    ready =>
        \/ LinkProven
        \/ overflow
        \/ \E i \in DOMAIN queue : queue[i] \in {"DISCONNECTED", "LOST_ADDRESS"}

\* A started driver that idles is never forgotten: unless the owner has given up or
\* is stopping it, a retry is armed, or the report that arms it still waits.  No
\* order of losses, refusals and failing calls strands the device (schedule_retry,
\* and the events that lead to it).
IdleLinkRetries ==
    link = "idle" /\ Heeded =>
        \/ retry_in # {}
        \/ overflow
        \/ \E i \in DOMAIN queue : queue[i] \in {"STARTED", "DISCONNECTED", "STOPPED"}

\* A device that stays disconnected tries to connect again and again (poll, lines
\* 139-143), provided that its polls come to an end (the driver's reports must not
\* arrive faster than the loop takes them) and that addresses are not lost without
\* end, each time with a refused disconnect that starts the delay again.
RetryHappens ==
    []<>(pc = "idle") /\ <>[](state = "disconnected")
        => []<><<PollConnects>>_vars \/ []<><<TakeLostAddress>>_vars

\* The control task's view of this owner, as DeviceControl uses it.
Selection == INSTANCE WifiSelection WITH MaxRevision <- 1

View == [initialized |-> TRUE, config |-> config, active |-> active,
         stopping |-> stopping, ready |-> ready, state |-> state]

\* Each step of the owner is, for the control task, an answer of an apply or one
\* step of a poll in WifiSelection, or no step: what is checked of the trial and
\* its verification there rests on the owner as it is.
ImplementsWifiSelection ==
    [][\/ View' \in Selection!WifiPoll(View)
       \/ \E a \in Selection!WifiApply(View, config') : View' = a.wifi]_View

\* Comment of esp_base_wifi_apply, line 75: "Latest explicit selection starts after
\* STOP": a selection accepted during a stop is started when the stop is over.
LatestSelectionStarts == ~stopping => ~owed
=============================================================================
