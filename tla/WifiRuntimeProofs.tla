-------------------------- MODULE WifiRuntimeProofs -------------------------
(***************************************************************************)
(* The Wi-Fi owner, for any networks, any length of the event queue and    *)
(* any delays: it keeps what the control task is promised, no dead link    *)
(* counts as ready and no idle station is forgotten.                       *)
(***************************************************************************)
EXTENDS WifiRuntime, TLAPS

Reported ==
    {"STARTED", "STOPPED", "ASSOCIATED", "DISCONNECTED", "GOT_ADDRESS", "LOST_ADDRESS"}

\* Whether one of these reports waits.
Waits(reports) == \E i \in DOMAIN queue : queue[i] \in reports

\* The owner's flags and the driver agree: without a stop it is active exactly while
\* the driver is on, and a stop is between the call and the taking of its report.
DriverAgrees ==
    /\ stopping => active /\ link \in {"halting", "off"}
    /\ ~stopping => (active <=> link # "off") /\ link # "halting"

\* What the queue can hold: nothing from before a start survives it, STARTED comes
\* first of all, and STOPPED last.
QueueInOrder ==
    /\ queue \in Seq(Reported)
    /\ link = "starting" \/ (link = "off" /\ ~stopping) => queue = <<>>
    /\ \A i \in DOMAIN queue :
          /\ queue[i] = "STARTED" => i = 1
          /\ queue[i] = "STOPPED" => i = Len(queue) /\ stopping /\ link = "off"

\* Until STARTED is taken the station rests; a retry is armed only while not connected.
StartFirst ==
    /\ Heeded /\ link = "starting" => retry_in = {} /\ state = "connecting"
    /\ Heeded /\ queue # <<>> /\ Head(queue) = "STARTED" =>
          link = "idle" /\ retry_in = {} /\ state = "connecting"
    /\ retry_in # {} => state \in {"connecting", "disconnected"}

\* The two invariants, of an owner that is not stopping.
ReadyOrReported ==
    ready => Heeded /\ (LinkProven \/ overflow \/ Waits({"DISCONNECTED", "LOST_ADDRESS"}))

RetryOrReported ==
    link = "idle" /\ Heeded =>
        retry_in # {} \/ overflow \/ Waits({"STARTED", "DISCONNECTED", "STOPPED"})

\* The strengthening that every step preserves.
Strong == DriverAgrees /\ QueueInOrder /\ StartFirst /\ ReadyOrReported /\ RetryOrReported

LEMMA StrongInit == Init => Strong
BY DEF Init, Strong, DriverAgrees, QueueInOrder, StartFirst, Heeded, ReadyOrReported,
       RetryOrReported

-----------------------------------------------------------------------------
(* The queue: one report less, or one more *)

\* The head is taken: the others move up, and none of another kind is lost.
LEMMA TakeKeeps ==
  ASSUME NEW event, Take(event), queue \in Seq(Reported)
  PROVE  /\ queue' \in Seq(Reported) /\ event \in Reported
         /\ Len(queue') = Len(queue) - 1
         /\ \A i \in DOMAIN queue' : i + 1 \in DOMAIN queue /\ queue'[i] = queue[i + 1]
         /\ \A reports : event \notin reports /\ Waits(reports) => Waits(reports)'
<1>1. queue # <<>> /\ queue' = Tail(queue) /\ queue[1] = event
  BY DEF Take
<1>2. queue' \in Seq(Reported) /\ Len(queue') = Len(queue) - 1 /\ event \in Reported
  BY <1>1
<1>3. \A i \in DOMAIN queue' : i + 1 \in DOMAIN queue /\ queue'[i] = queue[i + 1]
  BY <1>1, <1>2
<1>4. ASSUME NEW reports, event \notin reports, Waits(reports)
      PROVE  Waits(reports)'
  <2>1. PICK i \in DOMAIN queue : queue[i] \in reports
    BY <1>4 DEF Waits
  <2>2. i \in 1 .. Len(queue) /\ i # 1
    BY <1>1, <1>4, <2>1
  <2>3. i - 1 \in DOMAIN queue' /\ queue'[i - 1] = queue[i]
    BY <1>2, <1>3, <2>2
  <2> QED
    BY <2>1, <2>3 DEF Waits
<1> QED
  BY <1>2, <1>3, <1>4

\* A report is dropped in, or the overflow is marked; nothing that waits is lost.
LEMMA PostKeeps ==
  ASSUME NEW event \in Reported, Post(event), queue \in Seq(Reported)
  PROVE  /\ queue' \in Seq(Reported)
         /\ \A i \in DOMAIN queue' :
               \/ i \in DOMAIN queue /\ queue'[i] = queue[i]
               \/ i = Len(queue) + 1 /\ i = Len(queue') /\ queue'[i] = event
         /\ queue # <<>> => queue' # <<>> /\ Head(queue') = Head(queue)
         /\ \A reports : Waits(reports) => Waits(reports)'
         /\ \A reports : event \in reports => Waits(reports)' \/ overflow'
         /\ overflow => overflow'
<1>1. CASE queue' = Append(queue, event) /\ UNCHANGED overflow
  <2>1. /\ queue' \in Seq(Reported)
        /\ Len(queue') = Len(queue) + 1 /\ queue'[Len(queue) + 1] = event
        /\ \A i \in 1 .. Len(queue) : queue'[i] = queue[i]
    BY <1>1
  <2> QED
    BY <1>1, <2>1 DEF Waits
<1>2. CASE overflow' = TRUE /\ UNCHANGED queue
  BY <1>2 DEF Waits
<1> QED
  BY <1>1, <1>2 DEF Post
-----------------------------------------------------------------------------
(* The steps *)

\* While the queue stays, so does what waits in it.
LEMMA QueueKept ==
  ASSUME UNCHANGED queue
  PROVE  \A reports : Waits(reports)' <=> Waits(reports)
BY DEF Waits

\* A selection is applied, or a poll begins, ends, or finds an overflow.
LEMMA OwnerKeeps ==
  ASSUME Strong, Apply \/ PollOverflow \/ PollBegins \/ PollStopTimedOut \/ PollEnds
  PROVE  Strong'
<1>1. CASE Apply
  <2>1. UNCHANGED events /\ ready' = FALSE
    BY <1>1 DEF Apply, ApplyDuringStop, ApplyStarts, ApplyStops, ApplyStopFails,
                StartSelected, Clear, Failed
  <2>2. CASE ApplyDuringStop
    BY <1>1, <2>1, <2>2
       DEF Apply, ApplyDuringStop, Strong, DriverAgrees, QueueInOrder, StartFirst, Heeded,
           ReadyOrReported, RetryOrReported, Clear, driver, events
  <2>3. ASSUME NEW selection, ApplyStarts(selection)
        PROVE  Strong'
    <3>1. queue = <<>> /\ link = "off" /\ ~stopping
      BY <2>3 DEF Strong, DriverAgrees, QueueInOrder, ApplyStarts
    <3> QED
      BY <2>1, <2>3, <3>1
         DEF ApplyStarts, StartSelected, Strong, DriverAgrees, QueueInOrder, StartFirst,
             Heeded, ReadyOrReported, RetryOrReported, Clear, Failed, driver, events
  <2>4. CASE ApplyStops \/ ApplyStopFails
    BY <2>1, <2>4
       DEF ApplyStops, ApplyStopFails, Strong, DriverAgrees, QueueInOrder, StartFirst,
           Heeded, ReadyOrReported, RetryOrReported, Clear, Failed, driver, events
  <2> QED
    BY <1>1, <2>2, <2>3, <2>4 DEF Apply
<1>2. CASE PollOverflow \/ PollStopTimedOut
  BY <1>2
     DEF PollOverflow, PollStopTimedOut, Strong, DriverAgrees, QueueInOrder, StartFirst,
         Heeded, ReadyOrReported, RetryOrReported, Clear, Failed, driver, events
<1>3. CASE PollBegins \/ PollEnds
  BY <1>3, QueueKept
     DEF PollBegins, PollEnds, Strong, DriverAgrees, QueueInOrder, StartFirst, Heeded,
         ReadyOrReported, RetryOrReported, LinkProven, flags, driver, events
<1> QED
  BY <1>1, <1>2, <1>3

\* A retry that is due; the driver rests unless it has been told to connect.
LEMMA ConnectKeeps ==
  ASSUME Strong, PollConnects
  PROVE  Strong'
<1>1. queue = <<>> /\ UNCHANGED <<config, active, stopping, queue, overflow, network>>
  BY DEF PollConnects, Drained, events
<1>2. \/ retry_in' # {} /\ ready' = FALSE /\ state' = "disconnected" /\ link' = link
      \/ /\ state' = "connecting" /\ link' = (IF link = "idle" THEN "dialing" ELSE link)
         /\ ready' = ready /\ retry_in' = {}
  BY DEF PollConnects, ScheduleRetry, Clear
<1>3. RetryDue
  BY DEF PollConnects
<1> QED
  BY <1>1, <1>2, <1>3, QueueKept
     DEF RetryDue, Strong, DriverAgrees, QueueInOrder, StartFirst, Heeded, ReadyOrReported,
         RetryOrReported, LinkProven

\* The order of the queue survives the taking of a report.
LEMMA TakeInOrder ==
  ASSUME NEW event, Take(event), QueueInOrder, UNCHANGED stopping,
         link' = link \/ (link \notin {"off", "starting"} /\ link' \notin {"off", "starting"})
  PROVE  /\ QueueInOrder' /\ link # "starting"
         /\ queue' = <<>> \/ Head(queue') # "STARTED"
<1>1. queue \in Seq(Reported) /\ queue # <<>> /\ link # "starting"
  BY DEF QueueInOrder, Take
<1>2. /\ queue' \in Seq(Reported) /\ Len(queue') = Len(queue) - 1
      /\ \A i \in DOMAIN queue' : i + 1 \in DOMAIN queue /\ queue'[i] = queue[i + 1]
  BY <1>1, TakeKeeps
<1>3. ASSUME NEW i \in DOMAIN queue'
      PROVE  /\ queue'[i] # "STARTED"
             /\ queue'[i] = "STOPPED" => i = Len(queue') /\ stopping /\ link = "off"
  <2>1. i \in Nat \ {0} /\ i + 1 # 1 /\ Len(queue) \in Nat
    BY <1>1, <1>2
  <2> QED
    BY <1>2, <2>1 DEF QueueInOrder
<1>4. queue' # <<>> => 1 \in DOMAIN queue' /\ Head(queue') = queue'[1]
  BY <1>2
<1> QED
  BY <1>1, <1>2, <1>3, <1>4 DEF QueueInOrder

\* STOPPED was the last report: the queue is empty when the latest selection starts.
LEMMA StoppedKeeps ==
  ASSUME Strong, TakeStopped
  PROVE  Strong'
<1>1. queue \in Seq(Reported) /\ Take("STOPPED")
  BY DEF Strong, QueueInOrder, TakeStopped
<1>2. 1 \in DOMAIN queue /\ queue[1] = "STOPPED"
  BY <1>1 DEF Take
<1>3. Len(queue) = 1 /\ link = "off" /\ stopping
  BY <1>2 DEF Strong, QueueInOrder
<1>4. queue' = <<>>
  BY <1>1, <1>3 DEF Take
<1> QED
  BY <1>3, <1>4
     DEF TakeStopped, StartSelected, Strong, DriverAgrees, QueueInOrder, StartFirst, Heeded,
         ReadyOrReported, RetryOrReported, Clear, Failed, driver

\* Any other report.
LEMMA TakeOtherKeeps ==
  ASSUME Strong,
         TakeIgnored \/ TakeStarted \/ TakeAssociated \/ TakeDisconnected
             \/ TakeLostAddress \/ TakeGotAddress
  PROVE  Strong'
<1>1. queue \in Seq(Reported) /\ DriverAgrees /\ QueueInOrder
  BY DEF Strong, QueueInOrder
<1>2. CASE TakeIgnored
  <2>1. PICK event : Take(event) /\ event # "STOPPED"
    BY <1>2 DEF TakeIgnored
  <2>2. QueueInOrder'
    BY <1>1, <1>2, <2>1, TakeInOrder DEF TakeIgnored, driver
  <2> QED
    BY <1>2, <2>2
       DEF TakeIgnored, Strong, DriverAgrees, StartFirst, Heeded, ReadyOrReported,
           RetryOrReported, flags, driver
<1>3. CASE TakeStarted
  <2>1. Take("STARTED") /\ Heeded /\ retry_in' = {0}
    BY <1>3 DEF TakeStarted
  <2>2. Head(queue) = "STARTED" /\ queue # <<>> /\ state = "connecting"
    BY <2>1 DEF Take, Strong, StartFirst
  <2>3. QueueInOrder' /\ link # "starting" /\ (queue' = <<>> \/ Head(queue') # "STARTED")
    BY <1>1, <1>3, <2>1, TakeInOrder DEF TakeStarted, driver
  <2>4. Waits({"DISCONNECTED", "LOST_ADDRESS"}) => Waits({"DISCONNECTED", "LOST_ADDRESS"})'
    BY <1>1, <2>1, TakeKeeps
  <2> QED
    BY <1>3, <2>2, <2>3, <2>4
       DEF TakeStarted, Strong, DriverAgrees, StartFirst, Heeded, ReadyOrReported,
           RetryOrReported, LinkProven, flags, driver
<1>4. CASE TakeAssociated
  <2>1. Take("ASSOCIATED")
    BY <1>4 DEF TakeAssociated
  <2>2. QueueInOrder' /\ link # "starting" /\ (queue' = <<>> \/ Head(queue') # "STARTED")
    BY <1>1, <1>4, <2>1, TakeInOrder DEF TakeAssociated, driver
  <2>3. \A reports : "ASSOCIATED" \notin reports /\ Waits(reports) => Waits(reports)'
    BY <1>1, <2>1, TakeKeeps
  <2> QED
    BY <1>4, <2>2, <2>3
       DEF TakeAssociated, Strong, DriverAgrees, StartFirst, Heeded, ReadyOrReported,
           RetryOrReported, LinkProven, driver
<1>5. CASE TakeDisconnected
  <2>1. QueueInOrder' /\ link # "starting" /\ (queue' = <<>> \/ Head(queue') # "STARTED")
    BY <1>1, <1>5, TakeInOrder DEF TakeDisconnected, driver
  <2>2. retry_in' # {} /\ ready' = FALSE /\ state' = "disconnected"
    BY <1>5 DEF TakeDisconnected, ScheduleRetry, Clear
  <2> QED
    BY <1>5, <2>1, <2>2
       DEF TakeDisconnected, Strong, DriverAgrees, StartFirst, Heeded, ReadyOrReported,
           RetryOrReported, driver
<1>6. CASE TakeLostAddress
  <2>1. Take("LOST_ADDRESS") /\ UNCHANGED <<config, active, stopping, overflow, network>>
    BY <1>6 DEF TakeLostAddress
  <2>2. \/ retry_in' # {} /\ ready' = FALSE /\ state' = "disconnected" /\ link' = link
        \/ /\ ready' = FALSE /\ UNCHANGED <<retry_in, state>>
           /\ \/ link' = link
              \/ link \in {"dialing", "associated", "addressed"} /\ link' = "leaving"
    BY <1>6 DEF TakeLostAddress, ScheduleRetry, Clear
  <2>3. QueueInOrder' /\ link # "starting" /\ (queue' = <<>> \/ Head(queue') # "STARTED")
    BY <1>1, <2>1, <2>2, TakeInOrder
  <2>4. \A reports : "LOST_ADDRESS" \notin reports /\ Waits(reports) => Waits(reports)'
    BY <1>1, <2>1, TakeKeeps
  <2> QED
    BY <2>1, <2>2, <2>3, <2>4
       DEF Strong, DriverAgrees, StartFirst, Heeded, ReadyOrReported, RetryOrReported
<1>7. CASE TakeGotAddress
  <2>1. Take("GOT_ADDRESS") /\ Heeded
        /\ UNCHANGED <<config, active, stopping, overflow, link, network>>
    BY <1>7 DEF TakeGotAddress, driver
  <2>2. QueueInOrder' /\ link # "starting" /\ (queue' = <<>> \/ Head(queue') # "STARTED")
    BY <1>1, <2>1, TakeInOrder
  <2>3. \A reports : "GOT_ADDRESS" \notin reports /\ Waits(reports) => Waits(reports)'
    BY <1>1, <2>1, TakeKeeps
  <2>4. \/ LinkProven /\ retry_in' = {} /\ state' = "connected"
        \/ UNCHANGED <<ready, retry_in, state>>
    BY <1>7 DEF TakeGotAddress
  <2> QED
    BY <2>1, <2>2, <2>3, <2>4
       DEF Strong, DriverAgrees, StartFirst, Heeded, ReadyOrReported, RetryOrReported,
           LinkProven
<1> QED
  BY <1>2, <1>3, <1>4, <1>5, <1>6, <1>7
\* The driver's reports: each is in order, and each that ends a link is noticed.
LEMMA DriverKeeps ==
  ASSUME Strong, DriverStep
  PROVE  Strong'
<1>1. queue \in Seq(Reported) /\ DriverAgrees /\ QueueInOrder
        /\ UNCHANGED <<config, active, stopping, ready, retry_in, state, network>>
  BY DEF Strong, QueueInOrder, DriverStep, flags
<1>2. Heeded' = Heeded
  BY <1>1 DEF Heeded
<1>3. ASSUME NEW event \in Reported \ {"STARTED", "STOPPED"}, Post(event),
             link \notin {"off", "starting", "halting"},
             link' \notin {"off", "starting", "halting"},
             link = "idle" => link' = "idle",
             link' = "idle" /\ link # "idle" => event = "DISCONNECTED",
             link = "addressed" =>
                 link' = "addressed" \/ event \in {"DISCONNECTED", "LOST_ADDRESS"}
      PROVE  Strong'
  <2>1. /\ queue' \in Seq(Reported)
        /\ \A i \in DOMAIN queue' :
               \/ i \in DOMAIN queue /\ queue'[i] = queue[i]
               \/ queue'[i] = event
        /\ queue # <<>> => queue' # <<>> /\ Head(queue') = Head(queue)
        /\ \A reports : Waits(reports) => Waits(reports)'
        /\ \A reports : event \in reports => Waits(reports)' \/ overflow'
        /\ overflow => overflow'
    BY <1>1, <1>3, PostKeeps
  <2>2. queue' # <<>> => 1 \in DOMAIN queue' /\ Head(queue') = queue'[1]
    BY <2>1
  <2>3. QueueInOrder' /\ DriverAgrees'
    BY <1>1, <1>3, <2>1 DEF QueueInOrder, DriverAgrees
  <2>4. StartFirst'
    <3>1. queue # <<>> => 1 \in DOMAIN queue /\ Head(queue) = queue[1]
      BY <1>1
    <3>2. queue' # <<>> /\ Head(queue') = "STARTED" => queue # <<>> /\ Head(queue) = "STARTED"
      BY <1>1, <1>3, <2>1, <2>2, <3>1
    <3> QED
      BY <1>1, <1>2, <1>3, <3>2 DEF Strong, StartFirst
  <2>5. ReadyOrReported' /\ RetryOrReported'
    BY <1>1, <1>2, <1>3, <2>1 DEF Strong, ReadyOrReported, RetryOrReported, LinkProven
  <2> QED
    BY <2>3, <2>4, <2>5 DEF Strong
<1>4. ASSUME link = "starting", link' = "idle", Post("STARTED")
      PROVE  Strong'
  <2>1. queue = <<>> /\ ~stopping
    BY <1>1, <1>4 DEF QueueInOrder, DriverAgrees
  <2>2. /\ queue' \in Seq(Reported)
        /\ \A i \in DOMAIN queue' : i = 1 /\ queue'[i] = "STARTED"
        /\ Waits({"STARTED", "DISCONNECTED", "STOPPED"})' \/ overflow'
        /\ \A reports : Waits(reports) => Waits(reports)'
        /\ overflow => overflow'
    BY <1>1, <1>4, <2>1, PostKeeps DEF Reported
  <2>3. Heeded => retry_in = {} /\ state = "connecting"
    BY <1>4 DEF Strong, StartFirst
  <2> QED
    BY <1>1, <1>2, <1>4, <2>1, <2>2, <2>3
       DEF Strong, QueueInOrder, DriverAgrees, StartFirst, ReadyOrReported, RetryOrReported,
           LinkProven
<1>5. ASSUME link = "halting", link' = "off", Post("STOPPED")
      PROVE  Strong'
  <2>1. stopping /\ ~Heeded
    BY <1>1, <1>5 DEF DriverAgrees, Heeded
  <2>2. /\ queue' \in Seq(Reported)
        /\ \A i \in DOMAIN queue' :
               \/ i \in DOMAIN queue /\ queue'[i] = queue[i]
               \/ i = Len(queue') /\ queue'[i] = "STOPPED"
    BY <1>1, <1>5, PostKeeps DEF Reported
  <2> QED
    BY <1>1, <1>2, <1>5, <2>1, <2>2
       DEF Strong, QueueInOrder, DriverAgrees, StartFirst, ReadyOrReported, RetryOrReported
<1> QED
  BY <1>3, <1>4, <1>5 DEF DriverStep, Reports, Reported

\* Time passes.
LEMMA TickKeeps ==
  ASSUME Strong, Tick
  PROVE  Strong'
<1>1. /\ UNCHANGED <<config, active, stopping, ready, state, queue, overflow, link, network>>
      /\ retry_in = {} <=> retry_in' = {}
  BY DEF Tick, flags, events, driver
<1> QED
  BY <1>1, QueueKept
     DEF Strong, QueueInOrder, DriverAgrees, StartFirst, Heeded, ReadyOrReported,
         RetryOrReported, LinkProven

LEMMA StrongStep == Strong /\ [Next]_vars => Strong'
<1> SUFFICES ASSUME Strong, [Next]_vars
             PROVE  Strong'
  OBVIOUS
<1>1. CASE UNCHANGED vars
  BY <1>1, QueueKept
     DEF vars, flags, events, driver, Strong, QueueInOrder, DriverAgrees, StartFirst, Heeded,
         ReadyOrReported, RetryOrReported, LinkProven
<1>2. CASE Next
  BY <1>2, OwnerKeeps, ConnectKeeps, StoppedKeeps, TakeOtherKeeps, DriverKeeps, TickKeeps
     DEF Next, Poll, TakeEvent
<1> QED
  BY <1>1, <1>2

LEMMA StrongAlways == Spec => []Strong
BY StrongInit, StrongStep, PTL DEF Spec

-----------------------------------------------------------------------------
(* The theorems *)

\* No stale or lost event leaves a dead link in use: the network counts as ready only
\* while the station has an address in the selected network, or while the report that
\* says otherwise still waits (event_received, line 39; esp_base_wifi_poll).
THEOREM NoDeadLink == Spec => []ReadyLagsDriver
<1>1. Strong => ReadyLagsDriver
  BY DEF Strong, ReadyOrReported, ReadyLagsDriver, Waits
<1> QED
  BY <1>1, StrongAlways, PTL

\* A station that idles is never forgotten: a retry is armed, or the report that arms
\* it still waits (schedule_retry, and the events that lead to it).
THEOREM NeverStranded == Spec => []IdleLinkRetries
<1>1. Strong => IdleLinkRetries
  BY DEF Strong, RetryOrReported, IdleLinkRetries, Waits
<1> QED
  BY <1>1, StrongAlways, PTL
-----------------------------------------------------------------------------
(* WifiRuntime implements WifiSelection *)

(* tlapm compares two views field by field, given that both are typed.          *)

Owners == [initialized : {TRUE}, config : Networks \cup {NoNetwork}, active : BOOLEAN,
           stopping : BOOLEAN, ready : BOOLEAN, state : Selection!WifiStates]

\* The view's fields.
LEMMA ViewFields ==
  /\ View.initialized = TRUE /\ View.config = config /\ View.active = active
  /\ View.stopping = stopping /\ View.ready = ready /\ View.state = state
BY DEF View

\* Whatever the driver does, the fields of the view keep their types.
Typed ==
    /\ config \in Networks \cup {NoNetwork} /\ active \in BOOLEAN /\ stopping \in BOOLEAN
    /\ ready \in BOOLEAN /\ state \in Selection!WifiStates

LEMMA TypedAlways == Spec => []Typed
<1>1. Init => Typed
  BY DEF Init, Typed, Selection!WifiStates
<1>2. Typed /\ [Next]_vars => Typed'
  <2> SUFFICES ASSUME Typed, [Next]_vars
               PROVE  Typed'
    OBVIOUS
  <2> USE DEF Typed, Clear, Failed, ScheduleRetry, StartSelected, Selection!WifiStates
  <2>1. CASE UNCHANGED vars
    BY <2>1 DEF vars, flags
  <2>2. CASE Apply
    BY <2>2 DEF Apply, ApplyDuringStop, ApplyStarts, ApplyStops, ApplyStopFails
  <2>3. CASE PollOverflow \/ PollBegins \/ PollStopTimedOut \/ PollConnects \/ PollEnds
    BY <2>3 DEF PollOverflow, PollBegins, PollStopTimedOut, PollConnects, PollEnds, flags
  <2>4. CASE TakeEvent
    BY <2>4 DEF TakeEvent, TakeStopped, TakeIgnored, TakeStarted, TakeAssociated,
                TakeDisconnected, TakeLostAddress, TakeGotAddress, flags
  <2>5. CASE DriverStep \/ Tick
    BY <2>5 DEF DriverStep, Tick, flags
  <2> QED
    BY <2>1, <2>2, <2>3, <2>4, <2>5 DEF Next, Poll
<1> QED
  BY <1>1, <1>2, PTL DEF Spec

\* Two views are equal when their fields are.
LEMMA SameOwner ==
  ASSUME NEW v \in Owners, NEW w \in Owners,
         v.initialized = w.initialized, v.config = w.config, v.active = w.active,
         v.stopping = w.stopping, v.ready = w.ready, v.state = w.state
  PROVE  v = w
BY DEF Owners

\* What start_selected does is one of the abstract answers, if the driver was not active.
LEMMA StartsAsSelected ==
  ASSUME NEW v \in Owners, NEW w \in Owners,
         v.config = w.config, v.stopping = w.stopping, w.active = FALSE, v.ready = FALSE,
         \/ w.config = NoNetwork /\ v.active = FALSE /\ v.state = "unconfigured"
         \/ w.config # NoNetwork /\ v.active = TRUE /\ v.state = "connecting"
         \/ w.config # NoNetwork /\ v.active = FALSE /\ v.state = "failed"
  PROVE  \E b \in Selection!StartSelected(w) : v = b.wifi
<1> DEFINE r == [w EXCEPT !.ready = FALSE]
           unset == [r EXCEPT !.state = "unconfigured"]
           dialing == [r EXCEPT !.active = TRUE, !.state = "connecting"]
           refused == [r EXCEPT !.state = "failed", !.ready = FALSE]
<1>1. r.config = w.config
  BY DEF Owners
<1>2. Selection!StartSelected(w) =
        IF w.config = NoNetwork THEN {[ok |-> TRUE, wifi |-> unset]}
        ELSE {[ok |-> TRUE, wifi |-> dialing], [ok |-> FALSE, wifi |-> refused]}
  BY <1>1 DEF Selection!StartSelected, Selection!Failed, Selection!NoNetwork, NoNetwork
<1>3. CASE w.config = NoNetwork
  <2>1. v = unset
    BY <1>3 DEF Owners
  <2> QED
    BY <1>2, <1>3, <2>1
<1>4. CASE w.config # NoNetwork /\ v.active = TRUE
  <2>1. v = dialing
    BY <1>4 DEF Owners
  <2> HIDE DEF dialing
  <2>2. [ok |-> TRUE, wifi |-> dialing] \in Selection!StartSelected(w)
    BY <1>2, <1>4
  <2> QED
    BY <2>1, <2>2
<1>5. CASE w.config # NoNetwork /\ v.active = FALSE
  <2>1. v = refused
    BY <1>5 DEF Owners
  <2> HIDE DEF refused
  <2>2. [ok |-> FALSE, wifi |-> refused] \in Selection!StartSelected(w)
    BY <1>2, <1>5
  <2> QED
    BY <2>1, <2>2
<1> QED
  BY <1>3, <1>4, <1>5

\* A selection that is applied.
LEMMA AppliesAsSelected ==
  ASSUME Strong, Typed, View \in Owners, View' \in Owners, Apply
  PROVE  \E b \in Selection!WifiApply(View, config') : View' = b.wifi
<1> DEFINE v == [View EXCEPT !.config = config', !.ready = FALSE]
           stops == [ok |-> TRUE, wifi |-> [v EXCEPT !.stopping = TRUE, !.state = "connecting"]]
           fails == [ok |-> FALSE, wifi |-> [v EXCEPT !.state = "failed", !.ready = FALSE]]
<1>1. /\ View.initialized = TRUE /\ View.active = active /\ View.stopping = stopping
      /\ View'.initialized = TRUE /\ View'.config = config' /\ View'.active = active'
      /\ View'.stopping = stopping' /\ View'.ready = ready' /\ View'.state = state'
      /\ View.state = state /\ config' \in Networks \cup {NoNetwork} /\ ready' = FALSE
  BY ViewFields
     DEF View, Apply, ApplyDuringStop, ApplyStarts, ApplyStops, ApplyStopFails,
         StartSelected, Clear, Failed
<1>2. /\ v \in Owners /\ v.config = config' /\ v.active = active /\ v.stopping = stopping
      /\ v.initialized = TRUE /\ v.ready = FALSE /\ v.state = state
  BY <1>1 DEF Owners
<1>3. Selection!WifiApply(View, config') =
        IF stopping THEN {[ok |-> TRUE, wifi |-> v]}
        ELSE IF ~active THEN Selection!StartSelected(v)
        ELSE {stops, fails} \cup Selection!StartSelected([v EXCEPT !.active = FALSE])
  BY <1>1 DEF Selection!WifiApply, Selection!Failed
<1> HIDE DEF View
<1>4. CASE ApplyDuringStop
  <2>1. UNCHANGED <<active, stopping, state>>
    BY <1>4 DEF ApplyDuringStop
  <2> HIDE DEF v
  <2>3. /\ View'.initialized = v.initialized /\ View'.config = v.config
        /\ View'.active = v.active /\ View'.stopping = v.stopping
        /\ View'.ready = v.ready /\ View'.state = v.state
    BY <1>1, <1>2, <2>1, Zenon
  <2>4. View' = v
    BY <1>2, <2>3, SameOwner, Zenon
  <2>2. [ok |-> TRUE, wifi |-> v] \in Selection!WifiApply(View, config')
    BY <1>3, <1>4 DEF ApplyDuringStop
  <2> QED
    BY <2>2, <2>4
<1>5. CASE ApplyStarts(config')
  <2>1. ~stopping /\ active = FALSE /\ UNCHANGED stopping
    BY <1>5 DEF ApplyStarts, Strong, DriverAgrees, Typed
  <2>2. \/ config' = NoNetwork /\ active' = FALSE /\ state' = "unconfigured"
        \/ config' # NoNetwork /\ active' = TRUE /\ state' = "connecting"
        \/ config' # NoNetwork /\ active' = FALSE /\ state' = "failed"
    BY <1>5 DEF ApplyStarts, StartSelected, Failed
  <2> HIDE DEF v
  <2>3. /\ View'.config = v.config /\ View'.stopping = v.stopping
        /\ v.active = FALSE /\ View'.ready = FALSE
    BY <1>1, <1>2, <2>1
  <2>4. \/ v.config = NoNetwork /\ View'.active = FALSE /\ View'.state = "unconfigured"
        \/ v.config # NoNetwork /\ View'.active = TRUE /\ View'.state = "connecting"
        \/ v.config # NoNetwork /\ View'.active = FALSE /\ View'.state = "failed"
    BY <1>1, <1>2, <2>2
  <2>5. \E b \in Selection!StartSelected(v) : View' = b.wifi
    BY <1>2, <2>3, <2>4, StartsAsSelected
  <2> QED
    BY <1>3, <2>1, <2>5
<1>6. CASE ApplyStops
  <2> DEFINE u == [v EXCEPT !.stopping = TRUE, !.state = "connecting"]
  <2>1. /\ active' = active /\ stopping' = TRUE /\ state' = "connecting" /\ ~stopping /\ active
    BY <1>6 DEF ApplyStops
  <2>2. /\ u \in Owners /\ u.initialized = TRUE /\ u.config = config' /\ u.active = active
        /\ u.stopping = TRUE /\ u.ready = FALSE /\ u.state = "connecting"
    BY <1>2 DEF Owners, Selection!WifiStates
  <2>3. stops.wifi = u
    OBVIOUS
  <2>4. stops \in Selection!WifiApply(View, config')
    BY <1>3, <2>1
  <2> HIDE DEF v, u, stops, fails
  <2>5. View' = u
    BY <1>1, <2>1, <2>2, SameOwner
  <2> QED
    BY <2>3, <2>4, <2>5
<1>7. CASE ApplyStopFails
  <2> DEFINE u == [v EXCEPT !.state = "failed", !.ready = FALSE]
  <2>1. /\ active' = active /\ stopping' = stopping /\ state' = "failed" /\ ~stopping /\ active
    BY <1>7 DEF ApplyStopFails, Failed
  <2>2. /\ u \in Owners /\ u.initialized = TRUE /\ u.config = config' /\ u.active = active
        /\ u.stopping = stopping /\ u.ready = FALSE /\ u.state = "failed"
    BY <1>2 DEF Owners, Selection!WifiStates
  <2>3. fails.wifi = u
    OBVIOUS
  <2>4. fails \in Selection!WifiApply(View, config')
    BY <1>3, <2>1
  <2> HIDE DEF v, u, stops, fails
  <2>5. /\ View'.initialized = u.initialized /\ View'.config = u.config
        /\ View'.active = u.active /\ View'.stopping = u.stopping
        /\ View'.ready = u.ready /\ View'.state = u.state
    BY <1>1, <2>1, <2>2, Zenon
  <2>6. View' = u
    BY <2>2, <2>5, SameOwner, Zenon
  <2> QED
    BY <2>3, <2>4, <2>6
<1> QED
  BY <1>4, <1>5, <1>6, <1>7 DEF Apply

\* STOPPED is taken: what was selected last starts, or nothing does.
LEMMA StopsAsSelected ==
  ASSUME Strong, Typed, View \in Owners, View' \in Owners, TakeStopped
  PROVE  View' \in Selection!Stopped(View)
<1> DEFINE v == [View EXCEPT !.active = FALSE, !.stopping = FALSE, !.ready = FALSE]
<1>1. stopping
  <2>1. queue # <<>> /\ 1 \in DOMAIN queue /\ queue[1] = "STOPPED"
    BY DEF Strong, QueueInOrder, TakeStopped, Take
  <2> QED
    BY <2>1 DEF Strong, QueueInOrder
<1>2. /\ View.stopping = stopping /\ View.state = state /\ View.config = config
      /\ View'.initialized = TRUE /\ View'.config = config' /\ View'.active = active'
      /\ View'.stopping = stopping' /\ View'.ready = ready' /\ View'.state = state'
      /\ config' = config /\ stopping' = FALSE /\ ready' = FALSE
  BY DEF View, TakeStopped, StartSelected, Clear, Failed
<1>3. Selection!Stopped(View) =
        IF state = "failed" THEN {v} ELSE {b.wifi : b \in Selection!StartSelected(v)}
  BY <1>1, <1>2 DEF Selection!Stopped
<1>4. /\ v \in Owners /\ v.config = config /\ v.active = FALSE /\ v.stopping = FALSE
      /\ v.initialized = TRUE /\ v.ready = FALSE /\ v.state = state
  BY <1>2 DEF Owners
<1> HIDE DEF View
<1>5. CASE state = "failed"
  <2>1. /\ View'.initialized = TRUE /\ View'.config = config /\ View'.active = FALSE
        /\ View'.stopping = FALSE /\ View'.ready = FALSE /\ View'.state = View.state
    BY <1>2, <1>5 DEF TakeStopped
  <2>2. View' = v
    BY <1>2, <2>1 DEF Owners
  <2> QED
    BY <1>3, <1>5, <2>2
<1>6. CASE state # "failed"
  <2>1. StartSelected(config)
    BY <1>6 DEF TakeStopped
  <2>2. \/ config = NoNetwork /\ active' = FALSE /\ state' = "unconfigured"
        \/ config # NoNetwork /\ active' = TRUE /\ state' = "connecting"
        \/ config # NoNetwork /\ active' = FALSE /\ state' = "failed"
    BY <2>1 DEF StartSelected, Failed
  <2> HIDE DEF v
  <2>3. \/ v.config = NoNetwork /\ View'.active = FALSE /\ View'.state = "unconfigured"
        \/ v.config # NoNetwork /\ View'.active = TRUE /\ View'.state = "connecting"
        \/ v.config # NoNetwork /\ View'.active = FALSE /\ View'.state = "failed"
    BY <1>2, <1>4, <2>2
  <2>4. View'.config = v.config /\ View'.stopping = v.stopping /\ View'.ready = FALSE
    BY <1>2, <1>4
  <2>5. \E b \in Selection!StartSelected(v) : View' = b.wifi
    BY <1>4, <2>3, <2>4, StartsAsSelected
  <2> QED
    BY <1>3, <1>6, <2>5
<1> QED
  BY <1>5, <1>6

\* Any other step of a poll is one event of the abstract poll, or none.
LEMMA PollsAsSelected ==
  ASSUME Strong, Typed, View \in Owners, View' \in Owners, Poll
  PROVE  View' = View \/ View' \in Selection!WifiPoll(View)
<1>1. /\ View.initialized = TRUE /\ View.config = config /\ View.active = active
      /\ View.stopping = stopping /\ View.ready = ready /\ View.state = state
      /\ View'.initialized = TRUE /\ View'.config = config' /\ View'.active = active'
      /\ View'.stopping = stopping' /\ View'.ready = ready' /\ View'.state = state'
  BY DEF View
<1>2. /\ Selection!Stopped(View) \subseteq Selection!WifiPoll(View)
      /\ Selection!Overflowed(View) \subseteq Selection!WifiPoll(View)
      /\ Selection!GotAddress(View) \subseteq Selection!WifiPoll(View)
      /\ Selection!Disconnected(View) \subseteq Selection!WifiPoll(View)
      /\ Selection!LostAddress(View) \subseteq Selection!WifiPoll(View)
      /\ Selection!Reconnecting(View) \subseteq Selection!WifiPoll(View)
  BY <1>1 DEF Selection!WifiPoll
<1>3. ASSUME UNCHANGED <<config, active, stopping, ready, state>>
      PROVE  View' = View
  BY <1>3 DEF View
<1>4. ASSUME Failed, UNCHANGED <<config, active, stopping>>
      PROVE  View' \in Selection!WifiPoll(View)
  <2>1. View' = Selection!Failed(View)
    BY <1>1, <1>4 DEF Failed, Clear, Selection!Failed, Owners
  <2> QED
    BY <1>2, <2>1 DEF Selection!Overflowed
<1>5. ASSUME ScheduleRetry, Heeded, UNCHANGED <<config, active, stopping>>
      PROVE  View' \in Selection!WifiPoll(View)
  <2>1. View' = [View EXCEPT !.ready = FALSE, !.state = "disconnected"]
    BY <1>1, <1>5 DEF ScheduleRetry, Clear, Owners
  <2> QED
    BY <1>1, <1>2, <1>5, <2>1 DEF Selection!Disconnected, Heeded
<1>6. CASE PollOverflow \/ PollStopTimedOut
  BY <1>4, <1>6 DEF PollOverflow, PollStopTimedOut
<1>7. CASE PollBegins \/ PollEnds \/ TakeIgnored \/ TakeStarted \/ TakeAssociated
  BY <1>3, <1>7 DEF PollBegins, PollEnds, TakeIgnored, TakeStarted, TakeAssociated, flags
<1>8. CASE TakeStopped
  BY <1>2, <1>8, StopsAsSelected
<1>9. CASE TakeDisconnected
  BY <1>5, <1>9 DEF TakeDisconnected
<1>10. CASE TakeLostAddress
  <2>1. CASE ScheduleRetry
    BY <1>5, <1>10, <2>1 DEF TakeLostAddress
  <2>2. CASE ~ScheduleRetry
    <3>1. Heeded /\ ready' = FALSE /\ UNCHANGED <<config, active, stopping, state>>
      BY <1>10, <2>2 DEF TakeLostAddress
    <3>2. View' = [View EXCEPT !.ready = FALSE]
      BY <1>1, <3>1 DEF Owners
    <3> QED
      BY <1>1, <1>2, <3>1, <3>2 DEF Selection!LostAddress, Heeded
  <2> QED
    BY <2>1, <2>2
<1>11. CASE TakeGotAddress
  <2>1. Heeded /\ UNCHANGED <<config, active, stopping>>
    BY <1>11 DEF TakeGotAddress
  <2>2. CASE ready' = TRUE /\ state' = "connected"
    <3>1. View' = [View EXCEPT !.ready = TRUE, !.state = "connected"]
      BY <1>1, <2>1, <2>2 DEF Owners
    <3> QED
      BY <1>1, <1>2, <2>1, <3>1 DEF Selection!GotAddress, Heeded
  <2>3. CASE UNCHANGED <<ready, state>>
    BY <1>3, <2>1, <2>3
  <2> QED
    BY <1>11, <2>2, <2>3 DEF TakeGotAddress
<1>12. CASE PollConnects
  <2>1. retry_in = {0} /\ active /\ ~stopping /\ UNCHANGED <<config, active, stopping>>
    BY <1>12 DEF PollConnects, RetryDue
  <2>2. state \in {"connecting", "disconnected"}
    BY <2>1 DEF Strong, StartFirst
  <2>3. CASE ScheduleRetry
    BY <1>5, <2>1, <2>2, <2>3 DEF Heeded
  <2>4. CASE ~ScheduleRetry
    <3>1. UNCHANGED ready /\ state' = "connecting"
      BY <1>12, <2>4 DEF PollConnects
    <3>2. CASE state = "connecting"
      BY <1>3, <2>1, <3>1, <3>2
    <3>3. CASE state = "disconnected"
      <4>1. View' = [View EXCEPT !.state = "connecting"]
        BY <1>1, <2>1, <3>1 DEF Owners
      <4> QED
        BY <1>1, <1>2, <2>1, <3>3, <4>1 DEF Selection!Reconnecting
    <3> QED
      BY <2>2, <3>2, <3>3
  <2> QED
    BY <2>3, <2>4
<1> QED
  BY <1>6, <1>7, <1>8, <1>9, <1>10, <1>11, <1>12 DEF Poll, TakeEvent

\* The owner, with its queue, its timers and its driver, keeps every promise that the
\* control task's model relies on (esp_base_wifi_apply, esp_base_wifi_poll): what is
\* checked of a trial there rests on the owner as it is.
THEOREM KeepsSelection == Spec => ImplementsWifiSelection
<1>1. Typed => View \in Owners
  BY DEF Typed, View, Owners
<1>2. Strong /\ Typed /\ Typed' /\ [Next]_vars
        => [\/ View' \in Selection!WifiPoll(View)
            \/ \E a \in Selection!WifiApply(View, config') : View' = a.wifi]_View
  <2> SUFFICES ASSUME Strong, Typed, Typed', [Next]_vars
               PROVE  \/ View' \in Selection!WifiPoll(View)
                      \/ \E a \in Selection!WifiApply(View, config') : View' = a.wifi
                      \/ View' = View
    OBVIOUS
  <2>1. View \in Owners /\ View' \in Owners
    BY <1>1 DEF Typed, View, Owners
  <2>2. CASE Apply
    BY <2>1, <2>2, AppliesAsSelected
  <2>3. CASE Poll
    BY <2>1, <2>3, PollsAsSelected
  <2>4. CASE DriverStep \/ Tick \/ UNCHANGED vars
    BY <2>4 DEF DriverStep, Tick, vars, flags, View
  <2> QED
    BY <2>2, <2>3, <2>4 DEF Next
<1> QED
  BY <1>2, StrongAlways, TypedAlways, PTL DEF Spec, ImplementsWifiSelection
=============================================================================
