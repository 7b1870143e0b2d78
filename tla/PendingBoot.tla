----------------------------- MODULE PendingBoot ----------------------------
(***************************************************************************)
(* The confirmation window of a boot that awaits verification: app_main    *)
(* watches the control task through the atomics of control_state.c and     *)
(* confirms or rejects the running slot.  Each shared access and each      *)
(* reading of the clock is a step of its own.  The control task may hang   *)
(* or be preempted anywhere; app_main, of lower priority, runs at most     *)
(* Late ticks later than it asked for.  The clock does not run backwards   *)
(* (esp_timer), so the tests for that are left out, and the window is far  *)
(* shorter than the 2^32 ms and 2^32 passes at which the time stamp and    *)
(* the progress counter wrap; of the counter only its difference from the  *)
(* remembered value is kept.                                               *)
(***************************************************************************)
EXTENDS Naturals

CONSTANTS
    MaxStale,      \* ESP_BASE_CONTROL_MAX_STALE_MS
    StartTimeout,  \* ESP_BASE_CONTROL_START_TIMEOUT_MS
    Window,        \* ESP_BASE_OTA_STABLE_WINDOW_MS
    WindowPoll,    \* the pause between two checks of the window
    ShortPoll,     \* the pause between two checks of the other two waits
    Late,          \* how late app_main may be scheduled
    MaxNow         \* bound: ticks of the boot

WindowAssumption ==
    /\ MaxStale \in Nat \ {0}
    /\ StartTimeout \in Nat \ {0}
    /\ Window \in Nat \ {0}
    /\ WindowPoll \in Nat \ {0}
    /\ ShortPoll \in Nat \ {0}
    /\ Late \in Nat
    /\ MaxNow \in Nat

\* The first wait tolerates no longer a silence than the window does (5000 ms both),
\* nor does it look less often (100 ms and 1000 ms).
LimitsAssumption == StartTimeout <= MaxStale /\ ShortPoll <= WindowPoll

VARIABLES
    now,             \* uptime
    \* esp_base_control_state_t
    last_progress,   \* last_progress_ms
    moved,           \* progress_count differs from boundary_progress
    observed,
    \* the control task
    control,         \* where it is in its pass
    stamp,           \* the clock reading of note_progress
    whole,           \* history: this pass began after the window's end
    \* app_main
    stage,           \* which of its waits it is in, or the decision
    step,            \* what it does next in this wait
    seen,            \* the time stamp it loaded, if any: {} or {t}
    wake,            \* it sleeps until then
    since,           \* started_ms, stable_started_ms or boundary_ms of this wait
    \* history
    silence,         \* the longest time without a new clock reading of a pass
    wholePass        \* a pass begun after the window's end was counted

controlVars == <<last_progress, moved, observed, control, stamp, whole>>
mainVars == <<stage, step, seen, wake, since>>

vars == <<now, controlVars, mainVars, silence, wholePass>>

Waits == {"start", "window", "boundary", "final"}

Init ==
    /\ now = 0
    /\ last_progress = 0 /\ moved = FALSE /\ observed = FALSE
    /\ control = "working" /\ stamp = 0 /\ whole = FALSE
    /\ stage = "start" /\ step = "look"
    /\ seen = {} /\ wake = 0 /\ since = 0
    /\ silence = 0 /\ wholePass = FALSE

-----------------------------------------------------------------------------
(* The control task: a pass, then note_progress in its three accesses *)

BeginPass ==
    /\ control = "resting"
    /\ control' = "working"
    /\ whole' = (stage \in {"boundary", "final"})
    /\ UNCHANGED <<now, last_progress, moved, observed, stamp, mainVars,
                   silence, wholePass>>

ReadClock ==
    /\ control = "working"
    /\ control' = "stamped"
    /\ stamp' = now
    /\ UNCHANGED <<now, last_progress, moved, observed, whole, mainVars,
                   silence, wholePass>>

StoreTime ==
    /\ control = "stamped"
    /\ control' = "stored"
    /\ last_progress' = stamp
    /\ UNCHANGED <<now, moved, observed, stamp, whole, mainVars, silence, wholePass>>

AddCount ==
    /\ control = "stored"
    /\ control' = "counted"
    /\ moved' = TRUE
    /\ wholePass' = (wholePass \/ whole)
    /\ UNCHANGED <<now, last_progress, observed, stamp, whole, mainVars, silence>>

SetObserved ==
    /\ control = "counted"
    /\ control' = "resting"
    /\ observed' = TRUE
    /\ UNCHANGED <<now, last_progress, moved, stamp, whole, mainVars,
                   silence, wholePass>>

ControlStep == BeginPass \/ ReadClock \/ StoreTime \/ AddCount \/ SetObserved

-----------------------------------------------------------------------------
(* app_main *)

Awake == stage \in Waits /\ now >= wake

\* app_main goes on with this wait at once, or ends the wait with a decision.
GoOn(next) == step' = next /\ UNCHANGED <<stage, wake, since>>
Decide(decision) == stage' = decision /\ UNCHANGED <<step, wake, since>>
Sleep(next, pause) == step' = next /\ wake' = now + pause /\ UNCHANGED <<stage, since>>
EnterAt(next, first, at) ==
    stage' = next /\ step' = first /\ since' = at /\ UNCHANGED wake

\* esp_base_protocol_control_healthy loads the flag and the time stamp ...
Look ==
    /\ Awake
    /\ step = "look"
    /\ seen' = IF observed THEN {last_progress} ELSE {}
    /\ GoOn("judge")
    /\ UNCHANGED <<now, controlVars, silence, wholePass>>

\* esp_base_control_state_is_recent
Recent == \E t \in seen : now - t <= MaxStale

\* Mutant: the freshness limit is twice what it should be.
JudgeLenient ==
    /\ Awake
    /\ step = "judge"
    /\ IF \E t \in seen : now - t <= 2 * MaxStale
       THEN IF stage = "start" THEN EnterAt("window", "look", now) ELSE GoOn("clock")
       ELSE IF stage = "start" THEN GoOn("clock") ELSE Decide("rejected")
    /\ UNCHANGED <<now, controlVars, seen, silence, wholePass>>

\* ... and then compares the stamp with the clock.  Only the first wait goes on
\* after an unhealthy look.
Judge ==
    /\ Awake
    /\ step = "judge"
    /\ IF stage = "start"
       THEN IF Recent THEN EnterAt("window", "look", now) ELSE GoOn("clock")
       ELSE IF Recent THEN GoOn("clock") ELSE Decide("rejected")
    /\ UNCHANGED <<now, controlVars, seen, silence, wholePass>>

\* Mutant: the first unhealthy look already ends the wait.
StartClockImpatient ==
    /\ Awake
    /\ stage = "start" /\ step = "clock"
    /\ Decide("rejected")
    /\ UNCHANGED <<now, controlVars, seen, silence, wholePass>>

\* wait_for_control_start: the first pass was not seen yet.
StartClock ==
    /\ Awake
    /\ stage = "start" /\ step = "clock"
    /\ IF now - since >= StartTimeout THEN Decide("rejected") ELSE Sleep("look", ShortPoll)
    /\ UNCHANGED <<now, controlVars, seen, silence, wholePass>>

\* The window: over, or checked again after a pause.
WindowClock ==
    /\ Awake
    /\ stage = "window" /\ step = "clock"
    /\ IF now - since >= Window THEN EnterAt("boundary", "remember", now)
       ELSE Sleep("look", WindowPoll)
    /\ UNCHANGED <<now, controlVars, seen, silence, wholePass>>

\* The counter at the window's end.
Remember ==
    /\ Awake
    /\ stage = "boundary" /\ step = "remember"
    /\ moved' = FALSE
    /\ GoOn("count")
    /\ UNCHANGED <<now, last_progress, observed, control, stamp, whole, seen,
                   silence, wholePass>>

\* Has the control task counted a pass since then?
Count ==
    /\ Awake
    /\ stage = "boundary" /\ step = "count"
    /\ IF moved THEN EnterAt("final", "look", since) ELSE GoOn("look")
    /\ UNCHANGED <<now, controlVars, seen, silence, wholePass>>

\* Mutant: the limit is measured from the last check.
BoundaryClockRestarts ==
    /\ Awake
    /\ stage = "boundary" /\ step = "clock"
    /\ IF now - since >= StartTimeout THEN Decide("rejected")
       ELSE step' = "count" /\ wake' = now + ShortPoll /\ since' = now /\ UNCHANGED stage
    /\ UNCHANGED <<now, controlVars, seen, silence, wholePass>>

\* No pass was counted since the window's end.
BoundaryClock ==
    /\ Awake
    /\ stage = "boundary" /\ step = "clock"
    /\ IF now - since >= StartTimeout THEN Decide("rejected") ELSE Sleep("count", ShortPoll)
    /\ UNCHANGED <<now, controlVars, seen, silence, wholePass>>

\* eota_confirm_pending (external) succeeds or fails.
Confirm ==
    /\ Awake
    /\ stage = "final" /\ step = "clock"
    /\ \E decision \in {"confirmed", "unconfirmed"} : Decide(decision)
    /\ UNCHANGED <<now, controlVars, seen, silence, wholePass>>

MainStep ==
    Look \/ Judge \/ StartClock \/ WindowClock \/ Remember \/ Count \/ BoundaryClock \/ Confirm

-----------------------------------------------------------------------------

\* Time passes, unless app_main is already as late as it can be.
Tick ==
    /\ stage \in Waits
    /\ now < MaxNow
    /\ now < wake + Late
    /\ now' = now + 1
    /\ silence' = IF now' - stamp > silence THEN now' - stamp ELSE silence
    /\ UNCHANGED <<controlVars, mainVars, wholePass>>

Next == ControlStep \/ MainStep \/ Tick

Spec == Init /\ [][Next]_vars

-----------------------------------------------------------------------------

\* A slot is confirmed only if the control task never fell silent for longer than
\* the freshness limit, one pause of the window and what app_main may be late:
\* no hang of that length in the window goes unnoticed (app_main, lines 173-211).
ConfirmedOnlyAlive ==
    stage = "confirmed" => silence <= MaxStale + WindowPoll + 2 * Late

\* A control task that finishes its passes twice as often as the freshness limit
\* asks for is never the reason of a rejection, whatever the two tasks' steps
\* interleave to: the slot is not rolled back for a race of the watcher.
LiveNotRejected ==
    stage = "rejected" =>
        \/ 2 * (silence + Late) >= MaxStale
        \/ 2 * (silence + Late) >= StartTimeout

\* The window is left within the sum of its limits and pauses, the three
\* comparisons ending it one tick early each: app_main never waits on.
DecidedInTime ==
    stage \in Waits =>
        now + 3 <= 2 * (StartTimeout + ShortPoll) + Window + WindowPoll + 3 * Late

\* Comment of app_main: "A heartbeat from before the 30-second boundary is
\* insufficient: require one complete control pass afterwards before confirming."
CompletePassAfterBoundary == stage = "confirmed" => wholePass
=============================================================================
