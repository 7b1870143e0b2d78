-------------------------- MODULE PendingBootProofs -------------------------
(***************************************************************************)
(* The confirmation window, for any limits and pauses and any lateness of  *)
(* app_main: a control task that fell silent is not confirmed, one that is *)
(* quick enough is not rejected, and a decision comes in time.             *)
(***************************************************************************)
EXTENDS PendingBoot, TLAPS

Stages == Waits \cup {"rejected", "confirmed", "unconfirmed"}
Steps == {"look", "judge", "clock", "remember", "count"}
Passes == {"resting", "working", "stamped", "stored", "counted"}

\* The waits in which an unhealthy look ends everything.
Watching == stage \in {"window", "boundary", "final"}

Typed ==
    /\ now \in Nat /\ last_progress \in Nat /\ stamp \in Nat /\ silence \in Nat
    /\ wake \in Nat /\ since \in Nat
    /\ moved \in BOOLEAN /\ observed \in BOOLEAN
    /\ stage \in Stages /\ step \in Steps /\ control \in Passes

\* Clock readings: the shared stamp lags behind the reading by at most one pass.
Readings ==
    /\ stamp <= now /\ now <= stamp + silence
    /\ last_progress <= stamp /\ stamp <= last_progress + silence
    /\ control # "stamped" => last_progress = stamp
    /\ \A t \in seen : t \in Nat /\ t <= stamp
    /\ seen # {} => observed

\* app_main is late by at most Late, and each wait ends by its limit and a pause.
OnTime ==
    /\ stage \in Waits => now <= wake + Late
    /\ stage = "start" => since = 0 /\ wake < StartTimeout + ShortPoll
    /\ stage = "window" =>
          /\ since < StartTimeout + ShortPoll + Late
          /\ wake < since + Window + WindowPoll
    /\ stage \in {"boundary", "final"} =>
          /\ since + 1 < StartTimeout + ShortPoll + Window + WindowPoll + 2 * Late
          /\ wake < since + StartTimeout + ShortPoll
    /\ stage = "boundary" /\ step = "remember" => wake <= since

\* While app_main watches, the last healthy look is at most one pause old.
Alive ==
    /\ Watching => wake <= stamp + MaxStale + WindowPoll + Late
    /\ Watching /\ step = "clock" => wake <= stamp + MaxStale
    /\ silence <= MaxStale + WindowPoll + 2 * Late

\* How long the looks have been fruitless, in terms of the longest silence.
Followed ==
    /\ ~observed =>
          \/ control = "working" /\ stamp = 0
          \/ control \in {"stamped", "stored", "counted"} /\ stamp <= silence
    /\ Watching => observed
    /\ stage \in Waits /\ step = "judge" =>
          \/ seen = {} /\ stage = "start" /\ wake <= 2 * silence
          \/ \E t \in seen : wake <= t + 2 * silence
    /\ stage = "start" /\ step = "clock" =>
          wake <= 2 * silence \/ 2 * (silence + Late) >= MaxStale
    /\ stage = "boundary" /\ step # "remember" /\ ~moved =>
          stamp <= since + Late + (IF control \in {"stamped", "stored"} THEN silence ELSE 0)
    /\ stage = "boundary" /\ step \in {"look", "judge", "clock"} =>
          wake <= since + Late + 2 * silence

\* What the assumptions say of the limits and pauses.
Limits ==
    /\ MaxStale \in Nat /\ StartTimeout \in Nat /\ Window \in Nat
    /\ WindowPoll \in Nat /\ ShortPoll \in Nat /\ Late \in Nat
    /\ 0 < StartTimeout /\ 0 < Window /\ 0 < WindowPoll /\ 0 < ShortPoll
    /\ StartTimeout <= MaxStale /\ ShortPoll <= WindowPoll

\* The strengthening that every step preserves.
Strong == Limits /\ Typed /\ Readings /\ OnTime /\ Alive /\ Followed /\ LiveNotRejected

LEMMA StrongInit == WindowAssumption /\ LimitsAssumption /\ Init => Strong
<1> SUFFICES ASSUME WindowAssumption, LimitsAssumption, Init
             PROVE  Strong
  OBVIOUS
<1>0. Limits
  BY DEF WindowAssumption, LimitsAssumption, Limits
<1> USE <1>0 DEF Init, Limits
<1>1. Typed
  BY DEF Typed, Stages, Waits, Steps, Passes
<1>2. Readings
  BY DEF Readings
<1>3. OnTime /\ Alive
  BY DEF OnTime, Alive, Waits, Watching
<1>4. Followed /\ LiveNotRejected
  BY DEF Followed, LiveNotRejected, Watching
<1> QED
  BY <1>1, <1>2, <1>3, <1>4 DEF Strong

-----------------------------------------------------------------------------
(* The control task and the clock *)

\* A step of the control task moves none of app_main's times, and its stamp only forward.
LEMMA ControlKeeps ==
  ASSUME Strong, ControlStep
  PROVE  Strong'
<1>0. Limits
  BY DEF Strong
<1> USE <1>0 DEF Limits
<1>1. UNCHANGED <<now, stage, step, seen, wake, since, silence>>
  BY DEF ControlStep, BeginPass, ReadClock, StoreTime, AddCount, SetObserved, mainVars
<1>2. Typed'
  BY <1>1 DEF Strong, Typed, Passes, ControlStep, BeginPass, ReadClock, StoreTime, AddCount,
              SetObserved
<1>3. Readings'
  BY <1>1 DEF Strong, Typed, Readings, ControlStep, BeginPass, ReadClock, StoreTime, AddCount,
              SetObserved
<1>4. OnTime' /\ LiveNotRejected'
  BY <1>1 DEF Strong, OnTime, LiveNotRejected
<1>5. Alive'
  <2>1. stamp' = stamp \/ (stamp' = now /\ stamp <= now)
    BY DEF Strong, Readings, ControlStep, BeginPass, ReadClock, StoreTime, AddCount, SetObserved
  <2>2. CASE stamp' = stamp
    BY <1>1, <2>2 DEF Strong, Alive, Watching
  <2>3. CASE stamp' = now /\ stamp <= now
    BY <1>1, <2>3 DEF Strong, Typed, Alive, Watching
  <2> QED
    BY <2>1, <2>2, <2>3
<1>6. Followed'
  <2>1. \/ observed' = TRUE
        \/ /\ observed' = observed
           /\ ~observed =>
                 \/ control' = "working" /\ stamp' = 0
                 \/ control' \in {"stamped", "stored", "counted"} /\ stamp' <= silence
    BY DEF Strong, Typed, Readings, Followed, ControlStep, BeginPass, ReadClock, StoreTime,
           AddCount, SetObserved
  <2>2. stage = "boundary" /\ step # "remember" /\ ~moved' =>
          stamp' <= since + Late + (IF control' \in {"stamped", "stored"} THEN silence ELSE 0)
    BY DEF Strong, Typed, Readings, Followed, ControlStep, BeginPass, ReadClock, StoreTime,
           AddCount, SetObserved
  <2> QED
    BY <1>1, <2>1, <2>2 DEF Strong, Followed, Watching
<1> QED
  BY <1>2, <1>3, <1>4, <1>5, <1>6 DEF Strong

\* Time passes only while app_main is not too late.
LEMMA TickKeeps ==
  ASSUME Strong, Tick
  PROVE  Strong'
<1>0. Limits
  BY DEF Strong
<1> USE <1>0 DEF Limits
<1>1. /\ UNCHANGED <<last_progress, moved, observed, control, stamp, stage, step, seen, wake,
                     since>>
      /\ stage \in Waits /\ now' = now + 1 /\ now < wake + Late
  BY DEF Tick, controlVars, mainVars
<1>2. PICK longest \in Nat :
        /\ silence' = longest /\ silence <= longest /\ now + 1 <= stamp + longest
        /\ longest = silence \/ longest + stamp = now + 1
  <2> DEFINE gap == now' - stamp
  <2>1. gap \in Nat /\ gap + stamp = now + 1
    BY <1>1 DEF Strong, Typed, Readings
  <2>2. silence' = IF gap > silence THEN gap ELSE silence
    BY DEF Tick
  <2>3. silence \in Nat /\ stamp \in Nat
    BY DEF Strong, Typed
  <2> HIDE DEF gap
  <2>4. CASE gap > silence
    BY <2>1, <2>2, <2>3, <2>4
  <2>5. CASE ~(gap > silence)
    BY <2>1, <2>2, <2>3, <2>5
  <2> QED
    BY <2>4, <2>5
<1>3. Typed'
  BY <1>1, <1>2 DEF Strong, Typed
<1>4. Readings'
  <2>1. seen' # {} => observed'
    BY <1>1 DEF Strong, Readings
  <2>2. /\ stamp <= now + 1 /\ now + 1 <= stamp + longest
        /\ last_progress <= stamp /\ stamp <= last_progress + longest
        /\ control # "stamped" => last_progress = stamp
        /\ \A t \in seen : t \in Nat /\ t <= stamp
    BY <1>2 DEF Strong, Typed, Readings
  <2> QED
    BY <1>1, <1>2, <2>1, <2>2 DEF Readings
<1>5. OnTime'
  BY <1>1 DEF Strong, Typed, OnTime
<1>6. Alive'
  <2>1. CASE Watching
    BY <1>1, <1>2, <2>1 DEF Strong, Typed, Alive, Watching
  <2>2. CASE ~Watching
    <3>1. wake < StartTimeout + ShortPoll
      BY <1>1, <2>2 DEF Waits, Watching, Strong, OnTime
    <3> QED
      BY <1>1, <1>2, <2>2, <3>1 DEF Strong, Typed, Alive, Watching
  <2> QED
    BY <2>1, <2>2
<1>7. Followed'
  <2>1. silence \in Nat /\ wake \in Nat /\ stamp \in Nat /\ since \in Nat
        /\ \A t \in seen : t \in Nat
    BY DEF Strong, Typed, Readings
  <2>2. Followed
    BY DEF Strong
  <2>3. /\ ~observed' =>
              \/ control = "working" /\ stamp = 0
              \/ control \in {"stamped", "stored", "counted"} /\ stamp <= longest
        /\ Watching' => observed'
    BY <1>1, <1>2, <2>1, <2>2 DEF Watching, Followed
  <2>4. /\ stage \in Waits /\ step = "judge" =>
              \/ seen = {} /\ stage = "start" /\ wake <= 2 * longest
              \/ \E t \in seen : wake <= t + 2 * longest
        /\ stage = "start" /\ step = "clock" =>
              wake <= 2 * longest \/ 2 * (longest + Late) >= MaxStale
        /\ stage = "boundary" /\ step \in {"look", "judge", "clock"} =>
              wake <= since + Late + 2 * longest
    BY <1>2, <2>1, <2>2 DEF Followed
  <2>5. stage = "boundary" /\ step # "remember" /\ ~moved' =>
          stamp <= since + Late + (IF control \in {"stamped", "stored"} THEN longest ELSE 0)
    BY <1>1, <1>2, <2>1, <2>2 DEF Followed
  <2> QED
    BY <1>1, <1>2, <2>3, <2>4, <2>5 DEF Followed
<1>8. LiveNotRejected'
  BY <1>1 DEF LiveNotRejected, Waits
<1> QED
  BY <1>3, <1>4, <1>5, <1>6, <1>7, <1>8 DEF Strong

-----------------------------------------------------------------------------
(* app_main *)

\* What is loaded is at most two passes old, or no pass has ended yet.
LEMMA LookKeeps ==
  ASSUME Strong, Look
  PROVE  Strong'
<1>0. Limits
  BY DEF Strong
<1> USE <1>0 DEF Limits
<1>1. UNCHANGED <<now, silence, last_progress, moved, observed, control, stamp>>
  BY DEF Look, controlVars
<1> USE DEF Look, Awake, GoOn, Decide, Sleep, EnterAt, Strong, Typed, Stages, Waits,
            Steps
<1>2. Typed'
  BY <1>1
<1>3. Readings'
  BY <1>1 DEF Readings
<1>4. OnTime'
  BY <1>1 DEF OnTime
<1>5. Alive'
  BY <1>1 DEF Alive, Watching, Readings, OnTime, Recent
<1>6. Followed'
  BY <1>1 DEF Followed, Watching, Readings, OnTime, Recent
<1>7. LiveNotRejected'
  BY <1>1 DEF LiveNotRejected, Followed, Watching, OnTime, Readings, Recent
<1> QED
  BY <1>2, <1>3, <1>4, <1>5, <1>6, <1>7

\* A healthy look renews what is known of the last stamp; an unhealthy one proves a silence.
LEMMA JudgeKeeps ==
  ASSUME Strong, Judge
  PROVE  Strong'
<1>0. Limits
  BY DEF Strong
<1> USE <1>0 DEF Limits
<1>1. UNCHANGED <<now, silence, last_progress, moved, observed, control, stamp, seen>>
  BY DEF Judge, controlVars
<1> USE DEF Judge, Awake, GoOn, Decide, Sleep, EnterAt, Strong, Typed, Stages, Waits,
            Steps
<1>2. Typed'
  BY <1>1
<1>3. Readings'
  BY <1>1 DEF Readings
<1>4. OnTime'
  BY <1>1 DEF OnTime
<1>5. Alive'
  BY <1>1 DEF Alive, Watching, Readings, OnTime, Recent
<1>6. Followed'
  BY <1>1 DEF Followed, Watching, Readings, OnTime, Recent
<1>7. LiveNotRejected'
  BY <1>1 DEF LiveNotRejected, Followed, Watching, OnTime, Readings, Recent
<1> QED
  BY <1>2, <1>3, <1>4, <1>5, <1>6, <1>7

\* Nothing seen until the limit proves a silence too.
LEMMA StartClockKeeps ==
  ASSUME Strong, StartClock
  PROVE  Strong'
<1>0. Limits
  BY DEF Strong
<1> USE <1>0 DEF Limits
<1>1. UNCHANGED <<now, silence, last_progress, moved, observed, control, stamp, seen>>
  BY DEF StartClock, controlVars
<1> USE DEF StartClock, Awake, GoOn, Decide, Sleep, EnterAt, Strong, Typed, Stages, Waits,
            Steps
<1>2. Typed'
  BY <1>1
<1>3. Readings'
  BY <1>1 DEF Readings
<1>4. OnTime'
  BY <1>1 DEF OnTime
<1>5. Alive'
  BY <1>1 DEF Alive, Watching, Readings, OnTime, Recent
<1>6. Followed'
  BY <1>1 DEF Followed, Watching, Readings, OnTime, Recent
<1>7. LiveNotRejected'
  BY <1>1 DEF LiveNotRejected, Followed, Watching, OnTime, Readings, Recent
<1> QED
  BY <1>2, <1>3, <1>4, <1>5, <1>6, <1>7

LEMMA WindowClockKeeps ==
  ASSUME Strong, WindowClock
  PROVE  Strong'
<1>0. Limits
  BY DEF Strong
<1> USE <1>0 DEF Limits
<1>1. UNCHANGED <<now, silence, last_progress, moved, observed, control, stamp, seen>>
  BY DEF WindowClock, controlVars
<1> USE DEF WindowClock, Awake, GoOn, Decide, Sleep, EnterAt, Strong, Typed, Stages, Waits,
            Steps
<1>2. Typed'
  BY <1>1
<1>3. Readings'
  BY <1>1 DEF Readings
<1>4. OnTime'
  BY <1>1 DEF OnTime
<1>5. Alive'
  BY <1>1 DEF Alive, Watching, Readings, OnTime, Recent
<1>6. Followed'
  BY <1>1 DEF Followed, Watching, Readings, OnTime, Recent
<1>7. LiveNotRejected'
  BY <1>1 DEF LiveNotRejected, Followed, Watching, OnTime, Readings, Recent
<1> QED
  BY <1>2, <1>3, <1>4, <1>5, <1>6, <1>7

\* No pass that was counted before is taken for one after the window.
LEMMA RememberKeeps ==
  ASSUME Strong, Remember
  PROVE  Strong'
<1>0. Limits
  BY DEF Strong
<1> USE <1>0 DEF Limits
<1>1. UNCHANGED <<now, silence, last_progress, observed, control, stamp, seen>>
  BY DEF Remember, controlVars
<1> USE DEF Remember, Awake, GoOn, Decide, Sleep, EnterAt, Strong, Typed, Stages, Waits,
            Steps
<1>2. Typed'
  BY <1>1
<1>3. Readings'
  BY <1>1 DEF Readings
<1>4. OnTime'
  BY <1>1 DEF OnTime
<1>5. Alive'
  BY <1>1 DEF Alive, Watching, Readings, OnTime, Recent
<1>6. Followed'
  BY <1>1 DEF Followed, Watching, Readings, OnTime, Recent
<1>7. LiveNotRejected'
  BY <1>1 DEF LiveNotRejected, Followed, Watching, OnTime, Readings, Recent
<1> QED
  BY <1>2, <1>3, <1>4, <1>5, <1>6, <1>7

LEMMA CountKeeps ==
  ASSUME Strong, Count
  PROVE  Strong'
<1>0. Limits
  BY DEF Strong
<1> USE <1>0 DEF Limits
<1>1. UNCHANGED <<now, silence, last_progress, moved, observed, control, stamp, seen>>
  BY DEF Count, controlVars
<1> USE DEF Count, Awake, GoOn, Decide, Sleep, EnterAt, Strong, Typed, Stages, Waits,
            Steps
<1>2. Typed'
  BY <1>1
<1>3. Readings'
  BY <1>1 DEF Readings
<1>4. OnTime'
  BY <1>1 DEF OnTime
<1>5. Alive'
  BY <1>1 DEF Alive, Watching, Readings, OnTime, Recent
<1>6. Followed'
  BY <1>1 DEF Followed, Watching, Readings, OnTime, Recent
<1>7. LiveNotRejected'
  BY <1>1 DEF LiveNotRejected, Followed, Watching, OnTime, Readings, Recent
<1> QED
  BY <1>2, <1>3, <1>4, <1>5, <1>6, <1>7

\* No pass counted until the limit proves a silence: two passes would fit in.
LEMMA BoundaryClockKeeps ==
  ASSUME Strong, BoundaryClock
  PROVE  Strong'
<1>0. Limits
  BY DEF Strong
<1> USE <1>0 DEF Limits
<1>1. UNCHANGED <<now, silence, last_progress, moved, observed, control, stamp, seen>>
  BY DEF BoundaryClock, controlVars
<1> USE DEF BoundaryClock, Awake, GoOn, Decide, Sleep, EnterAt, Strong, Typed, Stages, Waits,
            Steps
<1>2. Typed'
  BY <1>1
<1>3. Readings'
  BY <1>1 DEF Readings
<1>4. OnTime'
  BY <1>1 DEF OnTime
<1>5. Alive'
  BY <1>1 DEF Alive, Watching, Readings, OnTime, Recent
<1>6. Followed'
  BY <1>1 DEF Followed, Watching, Readings, OnTime, Recent
<1>7. LiveNotRejected'
  BY <1>1 DEF LiveNotRejected, Followed, Watching, OnTime, Readings, Recent
<1> QED
  BY <1>2, <1>3, <1>4, <1>5, <1>6, <1>7

LEMMA ConfirmKeeps ==
  ASSUME Strong, Confirm
  PROVE  Strong'
<1>0. Limits
  BY DEF Strong
<1> USE <1>0 DEF Limits
<1>1. UNCHANGED <<now, silence, last_progress, moved, observed, control, stamp, seen>>
  BY DEF Confirm, controlVars
<1> USE DEF Confirm, Awake, GoOn, Decide, Sleep, EnterAt, Strong, Typed, Stages, Waits,
            Steps
<1>2. Typed'
  BY <1>1
<1>3. Readings'
  BY <1>1 DEF Readings
<1>4. OnTime'
  BY <1>1 DEF OnTime
<1>5. Alive'
  BY <1>1 DEF Alive, Watching, Readings, OnTime, Recent
<1>6. Followed'
  BY <1>1 DEF Followed, Watching, Readings, OnTime, Recent
<1>7. LiveNotRejected'
  BY <1>1 DEF LiveNotRejected, Followed, Watching, OnTime, Readings, Recent
<1> QED
  BY <1>2, <1>3, <1>4, <1>5, <1>6, <1>7
-----------------------------------------------------------------------------

LEMMA StrongStep == Strong /\ [Next]_vars => Strong'
<1> SUFFICES ASSUME Strong, [Next]_vars
             PROVE  Strong'
  OBVIOUS
<1>1. CASE ControlStep
  BY <1>1, ControlKeeps
<1>2. CASE MainStep
  BY <1>2, LookKeeps, JudgeKeeps, StartClockKeeps, WindowClockKeeps, RememberKeeps, CountKeeps,
     BoundaryClockKeeps, ConfirmKeeps DEF MainStep
<1>3. CASE Tick
  BY <1>3, TickKeeps
<1>4. CASE UNCHANGED vars
  <2>1. UNCHANGED <<now, last_progress, moved, observed, control, stamp, stage, step, seen, wake,
                    since, silence>>
    BY <1>4 DEF vars, controlVars, mainVars
  <2> QED
    BY <2>1 DEF Strong, Limits, Typed, Readings, OnTime, Alive, Followed, LiveNotRejected, Watching
<1> QED
  BY <1>1, <1>2, <1>3, <1>4 DEF Next

LEMMA StrongAlways == WindowAssumption /\ LimitsAssumption /\ Spec => []Strong
BY StrongInit, StrongStep, PTL DEF Spec

\* app_main calls eota_confirm_pending only if the control task never fell silent for
\* longer than the freshness limit, a pause of the window and twice app_main's lateness:
\* for wait_for_control_start and the confirmation window of esp_base_main.c.
THEOREM NoHangConfirmed ==
    WindowAssumption /\ LimitsAssumption /\ Spec => []ConfirmedOnlyAlive
<1>1. Strong => ConfirmedOnlyAlive
  BY DEF Strong, Alive, ConfirmedOnlyAlive
<1> QED
  BY <1>1, StrongAlways, PTL

\* A control task that reads the clock twice within every limit is never the reason of a
\* rollback, however its accesses to the atomics of control_state.c interleave with app_main.
THEOREM NoRaceRejected ==
    WindowAssumption /\ LimitsAssumption /\ Spec => []LiveNotRejected
<1>1. Strong => LiveNotRejected
  BY DEF Strong
<1> QED
  BY <1>1, StrongAlways, PTL

\* app_main leaves its waits within the sum of their limits and pauses, whatever it sees.
THEOREM WaitsAreBounded ==
    WindowAssumption /\ LimitsAssumption /\ Spec => []DecidedInTime
<1>1. Strong => DecidedInTime
  <2> SUFFICES ASSUME Strong, stage \in Waits
               PROVE  now + 3 <= 2 * (StartTimeout + ShortPoll) + Window + WindowPoll + 3 * Late
    BY DEF DecidedInTime
  <2>1. now \in Nat /\ wake \in Nat /\ since \in Nat /\ now <= wake + Late
    BY DEF Strong, Typed, OnTime
  <2>2. CASE stage = "start"
    BY <2>1, <2>2 DEF Strong, OnTime, Limits
  <2>3. CASE stage = "window"
    BY <2>1, <2>3 DEF Strong, OnTime, Limits
  <2>4. CASE stage \in {"boundary", "final"}
    BY <2>1, <2>4 DEF Strong, OnTime, Limits
  <2> QED
    BY <2>2, <2>3, <2>4 DEF Waits
<1> QED
  BY <1>1, StrongAlways, PTL
=============================================================================
