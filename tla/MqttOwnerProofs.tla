--------------------------- MODULE MqttOwnerProofs --------------------------
(***************************************************************************)
(* The MQTT owner, for any keys, any length of the event queue and of the  *)
(* burst, and any number of revisions and connections: no command passes   *)
(* with an old key or from an old connection, no session runs unowned, and *)
(* a loss of the link goes unnoticed only between the two looks at a       *)
(* session that fails.                                                     *)
(***************************************************************************)
EXTENDS MqttOwner, TLAPS

Kinds == {"READY", "MESSAGE", "DISCONNECTED", "ERROR", "DELETED"}
Events == [kind : Kinds, link : Nat, key : Keys \cup {NoKey, Bad}]

\* The events that belong to a subscribed connection, and those that may tell its end.
Speaks(i) == queue[i].kind \in {"READY", "MESSAGE"}
Ends(i) == queue[i].kind = "DISCONNECTED"
Faults(i) == queue[i].kind = "ERROR"

\* What the control task has handed over: a remembered revision is never ahead of the
\* configuration, an owner in order has the remembered one, and it takes events, and
\* dispatches commands, only with the key in force.
HandedOver ==
    /\ config \in [rev : Nat, key : Keys \cup {NoKey}]
    /\ \A r \in mqtt_revision : r \in Nat /\ r <= config.rev
    /\ configured => runtime = mqtt_revision
    /\ configured /\ mqtt_revision = {config.rev} => management_key = config.key
    /\ pc # "pass" => configured /\ mqtt_revision = {config.rev}
    /\ pc = "pass" => executed = {}
    /\ pc \in {"pass", "events", "error"}

\* Between events of two connections waits the end of the first; an event without an
\* end after it is of the present connection.
InOrder ==
    /\ link \in Nat /\ queue \in Seq(Events)
    /\ session = "stopped" => queue = <<>>
    /\ \A i, j \in DOMAIN queue :
          i < j /\ Speaks(i) /\ Speaks(j) /\ queue[i].link # queue[j].link =>
              \E k \in DOMAIN queue : i < k /\ k < j /\ Ends(k)
    /\ \A i \in DOMAIN queue :
          Speaks(i) =>
              \/ \E k \in DOMAIN queue : i < k /\ Ends(k)
              \/ /\ queue[i].link = link
                 /\ session \in {"connecting", "ready", "failed"}
                 /\ queue[i].kind = "READY" =>
                       \/ session = "ready"
                       \/ session = "failed" /\ \E k \in DOMAIN queue : i < k /\ Faults(k)

\* A connection that was stopped under a ready owner is over, and its events are gone.
Torn ==
    /\ torn \in Nat /\ torn <= link
    /\ session # "stopped" => torn < link
    /\ \A i \in DOMAIN queue : torn < queue[i].link /\ queue[i].link <= link

\* A ready owner is on the connection it announced itself on, until the end or the
\* failure that waits; or it is on the one after a stop that left it ready.
Announced ==
    ready =>
        /\ announced \in Nat /\ 0 < announced /\ announced <= link
        /\ \A i \in DOMAIN queue :
              Speaks(i) =>
                  \/ \E k \in DOMAIN queue : k < i /\ Ends(k)
                  \/ queue[i].link = Heard
        /\ \/ \E k \in DOMAIN queue : Ends(k)
           \/ /\ announced = link
              /\ \/ session = "ready"
                 \/ session = "failed" /\ \E k \in DOMAIN queue : Faults(k)
           \/ /\ Overlooked
              /\ \/ session = "stopped" /\ link = torn
                 \/ session \in {"connecting", "ready"} /\ link = torn + 1
                 \/ /\ session = "failed" /\ link = torn + 1
                    /\ \E k \in DOMAIN queue : Faults(k)

\* The strengthening that every step preserves.
Strong == HandedOver /\ InOrder /\ Torn /\ Announced /\ SessionsOwned /\ CommandsCurrent

LEMMA StrongInit == Init => Strong
BY DEF Init, Configurations, Strong, HandedOver, InOrder, Torn, Announced, SessionsOwned,
       CommandsCurrent

\* The connection of a queued event is a number.
LEMMA LinksAreNumbers ==
  ASSUME InOrder
  PROVE  \A i \in DOMAIN queue : queue[i].link \in Nat
<1> SUFFICES ASSUME NEW i \in DOMAIN queue
             PROVE  queue[i].link \in Nat
  OBVIOUS
<1>1. queue[i] \in Events
  BY DEF InOrder
<1> QED
  BY <1>1 DEF Events

-----------------------------------------------------------------------------
(* The queue: one event less, none, or one more *)

LEMMA TailFacts ==
  ASSUME queue \in Seq(Events), queue # <<>>, queue' = Tail(queue)
  PROVE  /\ queue' \in Seq(Events) /\ Head(queue) = queue[1]
         /\ 1 \in DOMAIN queue /\ DOMAIN queue \subseteq Nat /\ DOMAIN queue' \subseteq Nat
         /\ \A i \in DOMAIN queue' : i + 1 \in DOMAIN queue /\ queue'[i] = queue[i + 1]
         /\ \A i \in DOMAIN queue : i # 1 => i - 1 \in DOMAIN queue' /\ queue'[i - 1] = queue[i]
BY SMTT(30)

\* The order survives the taking of an event.
LEMMA TailInOrder ==
  ASSUME InOrder, Torn, queue # <<>>, queue' = Tail(queue), UNCHANGED <<session, link, torn>>
  PROVE  InOrder' /\ Torn'
<1>1. queue \in Seq(Events)
  BY DEF InOrder
<1>2. /\ queue' \in Seq(Events) /\ 1 \in DOMAIN queue
      /\ DOMAIN queue \subseteq Nat /\ DOMAIN queue' \subseteq Nat
      /\ \A i \in DOMAIN queue' : i + 1 \in DOMAIN queue /\ queue'[i] = queue[i + 1]
      /\ \A i \in DOMAIN queue : i # 1 => i - 1 \in DOMAIN queue' /\ queue'[i - 1] = queue[i]
  BY <1>1, TailFacts
<1>3. ASSUME NEW i \in DOMAIN queue', NEW j \in DOMAIN queue', i < j,
             Speaks(i)', Speaks(j)', queue'[i].link # queue'[j].link
      PROVE  \E k \in DOMAIN queue' : i < k /\ k < j /\ Ends(k)'
  <2>1. PICK k \in DOMAIN queue : i + 1 < k /\ k < j + 1 /\ Ends(k)
    BY <1>2, <1>3 DEF InOrder, Speaks
  <2>2. k - 1 \in DOMAIN queue' /\ i < k - 1 /\ k - 1 < j /\ queue'[k - 1] = queue[k]
    BY <1>2, <2>1
  <2> QED
    BY <2>1, <2>2 DEF Ends
<1>4. ASSUME NEW i \in DOMAIN queue', Speaks(i)'
      PROVE  \/ \E k \in DOMAIN queue' : i < k /\ Ends(k)'
             \/ /\ queue'[i].link = link'
                /\ session' \in {"connecting", "ready", "failed"}
                /\ queue'[i].kind = "READY" =>
                      \/ session' = "ready"
                      \/ session' = "failed" /\ \E k \in DOMAIN queue' : i < k /\ Faults(k)'
  <2>1. i + 1 \in DOMAIN queue /\ Speaks(i + 1) /\ queue'[i] = queue[i + 1]
    BY <1>2, <1>4 DEF Speaks
  <2>2. CASE \E k \in DOMAIN queue : i + 1 < k /\ Ends(k)
    <3>1. PICK k \in DOMAIN queue : i + 1 < k /\ Ends(k)
      BY <2>2
    <3>2. k - 1 \in DOMAIN queue' /\ i < k - 1 /\ queue'[k - 1] = queue[k]
      BY <1>2, <3>1
    <3> QED
      BY <3>1, <3>2 DEF Ends
  <2>3. CASE ~\E k \in DOMAIN queue : i + 1 < k /\ Ends(k)
    <3>1. /\ queue[i + 1].link = link /\ session \in {"connecting", "ready", "failed"}
          /\ queue[i + 1].kind = "READY" =>
                \/ session = "ready"
                \/ session = "failed" /\ \E k \in DOMAIN queue : i + 1 < k /\ Faults(k)
      BY <2>1, <2>3 DEF InOrder
    <3>2. ASSUME NEW k \in DOMAIN queue, i + 1 < k, Faults(k)
          PROVE  \E n \in DOMAIN queue' : i < n /\ Faults(n)'
      <4>1. k - 1 \in DOMAIN queue' /\ i < k - 1 /\ queue'[k - 1] = queue[k]
        BY <1>2, <3>2
      <4> QED
        BY <3>2, <4>1 DEF Faults
    <3> QED
      BY <2>1, <3>1, <3>2
  <2> QED
    BY <2>2, <2>3
<1>5. session' # "stopped" \/ queue' = <<>>
  BY DEF InOrder
<1>6. Torn'
  BY <1>2 DEF Torn
<1> QED
  BY <1>2, <1>3, <1>4, <1>5, <1>6 DEF InOrder

\* What the owner believes survives the taking of an event that ends nothing, and of one
\* that tells of a failure if the owner is ready only on a ready session after it.
LEMMA TailAnnounced ==
  ASSUME InOrder, Announced, queue # <<>>, queue' = Tail(queue),
         Head(queue).kind # "DISCONNECTED",
         Head(queue).kind = "ERROR" => (ready' => session = "ready"),
         ready' => ready, UNCHANGED <<session, link, announced, torn>>
  PROVE  Announced'
<1>1. queue \in Seq(Events)
  BY DEF InOrder
<1>2. /\ Head(queue) = queue[1] /\ ~Ends(1) /\ (ready' => ~Faults(1) \/ session = "ready")
      /\ DOMAIN queue \subseteq Nat /\ DOMAIN queue' \subseteq Nat
      /\ \A i \in DOMAIN queue' : i + 1 \in DOMAIN queue /\ queue'[i] = queue[i + 1]
      /\ \A i \in DOMAIN queue : i # 1 => i - 1 \in DOMAIN queue' /\ queue'[i - 1] = queue[i]
  BY <1>1, TailFacts DEF Ends, Faults
<1>3. ASSUME NEW k \in DOMAIN queue, Ends(k)
      PROVE  k - 1 \in DOMAIN queue' /\ Ends(k - 1)'
  BY <1>2, <1>3 DEF Ends
<1>4. Heard' = Heard
  BY DEF Heard, Overlooked
<1>5. ASSUME ready', NEW i \in DOMAIN queue', Speaks(i)'
      PROVE  (\E k \in DOMAIN queue' : k < i /\ Ends(k)') \/ queue'[i].link = Heard'
  <2>1. i + 1 \in DOMAIN queue /\ Speaks(i + 1) /\ queue'[i] = queue[i + 1]
    BY <1>2, <1>5 DEF Speaks
  <2>2. CASE \E k \in DOMAIN queue : k < i + 1 /\ Ends(k)
    <3>1. PICK k \in DOMAIN queue : k < i + 1 /\ Ends(k)
      BY <2>2
    <3>2. k - 1 \in DOMAIN queue' /\ Ends(k - 1)' /\ k - 1 < i
      BY <1>2, <1>3, <3>1
    <3> QED
      BY <3>2
  <2>3. CASE ~\E k \in DOMAIN queue : k < i + 1 /\ Ends(k)
    BY <1>4, <1>5, <2>1, <2>3 DEF Announced
  <2> QED
    BY <2>2, <2>3
<1>6. ready' => \/ \E k \in DOMAIN queue' : Ends(k)'
                \/ /\ announced' = link'
                   /\ \/ session' = "ready"
                      \/ session' = "failed" /\ \E k \in DOMAIN queue' : Faults(k)'
                \/ /\ Overlooked'
                   /\ \/ session' = "stopped" /\ link' = torn'
                      \/ session' \in {"connecting", "ready"} /\ link' = torn' + 1
                      \/ /\ session' = "failed" /\ link' = torn' + 1
                         /\ \E k \in DOMAIN queue' : Faults(k)'
  <2> SUFFICES ASSUME ready'
               PROVE  \/ \E k \in DOMAIN queue' : Ends(k)'
                      \/ /\ announced' = link'
                         /\ \/ session' = "ready"
                            \/ session' = "failed" /\ \E k \in DOMAIN queue' : Faults(k)'
                      \/ /\ Overlooked'
                         /\ \/ session' = "stopped" /\ link' = torn'
                            \/ session' \in {"connecting", "ready"} /\ link' = torn' + 1
                            \/ /\ session' = "failed" /\ link' = torn' + 1
                               /\ \E k \in DOMAIN queue' : Faults(k)'
    OBVIOUS
  <2>1. CASE \E k \in DOMAIN queue : Ends(k)
    BY <1>3, <2>1
  <2>2. CASE announced = link /\ session = "ready"
    BY <2>2
  <2>3. CASE announced = link /\ session = "failed" /\ \E k \in DOMAIN queue : Faults(k)
    <3>1. PICK k \in DOMAIN queue : Faults(k)
      BY <2>3
    <3>2. k - 1 \in DOMAIN queue' /\ Faults(k - 1)'
      BY <1>2, <2>3, <3>1 DEF Faults
    <3> QED
      BY <2>3, <3>2
  <2>4. CASE /\ Overlooked
             /\ \/ session = "stopped" /\ link = torn
                \/ session \in {"connecting", "ready"} /\ link = torn + 1
    BY <2>4 DEF Overlooked
  <2>5. CASE /\ Overlooked /\ session = "failed" /\ link = torn + 1
             /\ \E k \in DOMAIN queue : Faults(k)
    <3>1. PICK k \in DOMAIN queue : Faults(k)
      BY <2>5
    <3>2. k - 1 \in DOMAIN queue' /\ Faults(k - 1)'
      BY <1>2, <2>5, <3>1 DEF Faults
    <3> QED
      BY <2>5, <3>2 DEF Overlooked
  <2> QED
    BY <2>1, <2>2, <2>3, <2>4, <2>5 DEF Announced
<1> QED
  BY <1>5, <1>6 DEF Announced

\* A ready owner with no end in its queue hears the connection that is up.
LEMMA HeardIsUp ==
  ASSUME InOrder, Torn, Announced, ready, session # "stopped",
         ~\E k \in DOMAIN queue : Ends(k)
  PROVE  Heard = link
BY DEF InOrder, Torn, Announced, Heard, Overlooked

LEMMA TellsFacts ==
  ASSUME NEW event \in Events, NEW next, queue \in Seq(Events), Tells(next, event)
  PROVE  /\ queue' \in Seq(Events) /\ session' = next
         /\ Len(queue) + 1 \in DOMAIN queue' /\ queue'[Len(queue) + 1] = event
         /\ Len(queue) \in Nat /\ DOMAIN queue \subseteq Nat
         /\ \A i \in DOMAIN queue : i \in DOMAIN queue' /\ queue'[i] = queue[i]
                                   /\ i < Len(queue) + 1
         /\ \A i \in DOMAIN queue' : i \in DOMAIN queue \/ i = Len(queue) + 1
BY SMTT(30) DEF Tells

\* The order survives whatever the link tells, and the owner's belief does too.
LEMMA TellsInOrder ==
  ASSUME NEW event \in Events, NEW next, InOrder, Torn, Announced, Tells(next, event),
         UNCHANGED <<link, ready, announced, torn>>,
         event.link = link, session # "stopped", next # "stopped",
         event.kind = "MESSAGE" => next \in {"connecting", "ready"},
         event.kind = "READY" => session = "connecting" /\ next = "ready",
         \/ event.kind = "DISCONNECTED"
         \/ next = session
         \/ session = "connecting" /\ next = "ready"
         \/ event.kind = "ERROR" /\ next = "failed"
  PROVE  InOrder' /\ Torn' /\ Announced'
<1> DEFINE new == Len(queue) + 1
<1>1. /\ queue' \in Seq(Events) /\ session' = next
      /\ new \in DOMAIN queue' /\ queue'[new] = event
      /\ \A i \in DOMAIN queue : i \in DOMAIN queue' /\ queue'[i] = queue[i] /\ i < new
      /\ \A i \in DOMAIN queue' : i \in DOMAIN queue \/ i = new
  BY TellsFacts DEF InOrder
<1>2. \A i \in DOMAIN queue : (Ends(i) => Ends(i)') /\ (Faults(i) => Faults(i)')
  BY <1>1 DEF Ends, Faults
<1>3. event.kind = "DISCONNECTED" =>
        \E k \in DOMAIN queue' : Ends(k)' /\ \A i \in DOMAIN queue : i < k
  <2> SUFFICES ASSUME event.kind = "DISCONNECTED"
               PROVE  \E k \in DOMAIN queue' : queue'[k].kind = "DISCONNECTED"
                                              /\ \A i \in DOMAIN queue : i < k
    BY DEF Ends
  <2> QED
    BY <1>1
<1>10. event.kind = "ERROR" =>
        \E k \in DOMAIN queue' : Faults(k)' /\ \A i \in DOMAIN queue : i < k
  <2> SUFFICES ASSUME event.kind = "ERROR"
               PROVE  \E k \in DOMAIN queue' : queue'[k].kind = "ERROR"
                                              /\ \A i \in DOMAIN queue : i < k
    BY DEF Faults
  <2> QED
    BY <1>1
<1> HIDE DEF new
<1>4. ASSUME NEW i \in DOMAIN queue, Speaks(i)
      PROVE  \/ \E k \in DOMAIN queue' : i < k /\ Ends(k)'
             \/ /\ queue[i].link = link /\ session' \in {"connecting", "ready", "failed"}
                /\ queue[i].kind = "READY" =>
                      \/ session' = "ready"
                      \/ session' = "failed" /\ \E k \in DOMAIN queue' : i < k /\ Faults(k)'
  <2>1. CASE \E k \in DOMAIN queue : i < k /\ Ends(k)
    BY <1>1, <1>2, <2>1
  <2>2. CASE event.kind = "DISCONNECTED"
    BY <1>3, <2>2
  <2>3. CASE event.kind # "DISCONNECTED" /\ ~\E k \in DOMAIN queue : i < k /\ Ends(k)
    <3>1. /\ queue[i].link = link /\ session \in {"connecting", "ready", "failed"}
          /\ queue[i].kind = "READY" =>
                \/ session = "ready"
                \/ session = "failed" /\ \E k \in DOMAIN queue : i < k /\ Faults(k)
      BY <1>4, <2>3 DEF InOrder
    <3>2. (\E k \in DOMAIN queue : i < k /\ Faults(k)) =>
             \E k \in DOMAIN queue' : i < k /\ Faults(k)'
      BY <1>1, <1>2
    <3>3. CASE next = "failed" /\ event.kind = "ERROR"
      BY <1>1, <1>10, <3>1, <3>3
    <3>4. CASE next = session
      BY <1>1, <3>1, <3>2, <3>4
    <3>5. CASE session = "connecting" /\ next = "ready"
      BY <1>1, <3>1, <3>5
    <3> QED
      BY <2>3, <3>3, <3>4, <3>5
  <2> QED
    BY <2>1, <2>2, <2>3
<1>5. ASSUME NEW i \in DOMAIN queue', NEW j \in DOMAIN queue', i < j,
             Speaks(i)', Speaks(j)', queue'[i].link # queue'[j].link
      PROVE  \E k \in DOMAIN queue' : i < k /\ k < j /\ Ends(k)'
  <2>1. i \in DOMAIN queue /\ queue'[i] = queue[i] /\ Speaks(i)
    <3>1. i \in Nat /\ new \in Nat /\ (j \in DOMAIN queue => j < new)
      BY <1>1 DEF InOrder, new
    <3>2. i # new
      BY <1>1, <1>5, <3>1
    <3> QED
      BY <1>1, <1>5, <3>2 DEF Speaks
  <2>2. CASE j \in DOMAIN queue
    <3>1. PICK k \in DOMAIN queue : i < k /\ k < j /\ Ends(k)
      BY <1>1, <1>5, <2>1, <2>2 DEF InOrder, Speaks
    <3> QED
      BY <1>1, <1>2, <3>1
  <2>3. CASE j = new
    <3>1. queue'[j].link = link /\ event.kind \in {"READY", "MESSAGE"}
      BY <1>1, <1>5, <2>3 DEF Speaks
    <3>2. PICK k \in DOMAIN queue : i < k /\ Ends(k)
      BY <1>5, <2>1, <3>1 DEF InOrder
    <3> QED
      BY <1>1, <1>2, <2>3, <3>2
  <2> QED
    BY <1>1, <2>2, <2>3
<1>6. ASSUME NEW i \in DOMAIN queue', Speaks(i)'
      PROVE  \/ \E k \in DOMAIN queue' : i < k /\ Ends(k)'
             \/ /\ queue'[i].link = link'
                /\ session' \in {"connecting", "ready", "failed"}
                /\ queue'[i].kind = "READY" =>
                      \/ session' = "ready"
                      \/ session' = "failed" /\ \E k \in DOMAIN queue' : i < k /\ Faults(k)'
  <2>1. CASE i \in DOMAIN queue
    BY <1>1, <1>4, <1>6, <2>1 DEF Speaks
  <2>2. CASE i = new
    BY <1>1, <1>6, <2>2 DEF Speaks
  <2> QED
    BY <1>1, <2>1, <2>2
<1>7. InOrder'
  BY <1>1, <1>5, <1>6 DEF InOrder
<1>11. Torn'
  BY <1>1 DEF Torn, InOrder
<1>12. Heard' = Heard
  BY DEF Heard, Overlooked
<1>8. ASSUME ready, NEW i \in DOMAIN queue', Speaks(i)'
      PROVE  (\E k \in DOMAIN queue' : k < i /\ Ends(k)') \/ queue'[i].link = Heard'
  <2>1. CASE i \in DOMAIN queue
    BY <1>1, <1>2, <1>8, <1>12, <2>1 DEF Announced, Speaks
  <2>2. CASE i = new /\ \E k \in DOMAIN queue : Ends(k)
    BY <1>1, <1>2, <2>2
  <2>3. CASE i = new /\ ~\E k \in DOMAIN queue : Ends(k)
    <3>1. Heard = link
      BY <1>8, <2>3, HeardIsUp
    <3> QED
      BY <1>1, <1>12, <2>3, <3>1
  <2> QED
    BY <1>1, <2>1, <2>2, <2>3
<1> DEFINE
      Up == \/ \E k \in DOMAIN queue' : Ends(k)'
            \/ /\ announced' = link'
               /\ \/ session' = "ready"
                  \/ session' = "failed" /\ \E k \in DOMAIN queue' : Faults(k)'
            \/ /\ Overlooked'
               /\ \/ session' = "stopped" /\ link' = torn'
                  \/ session' \in {"connecting", "ready"} /\ link' = torn' + 1
                  \/ /\ session' = "failed" /\ link' = torn' + 1
                     /\ \E k \in DOMAIN queue' : Faults(k)'
<1>9. ready => Up
  <2> SUFFICES ASSUME ready
               PROVE  Up
    OBVIOUS
  <2>1. CASE \E k \in DOMAIN queue : Ends(k)
    BY <1>1, <1>2, <2>1
  <2>2. CASE event.kind = "DISCONNECTED"
    BY <1>3, <2>2
  <2>3. CASE announced = link /\ session = "ready" /\ event.kind # "DISCONNECTED"
    BY <1>1, <1>10, <2>3
  <2>4. CASE /\ announced = link /\ session = "failed" /\ event.kind # "DISCONNECTED"
             /\ \E k \in DOMAIN queue : Faults(k)
    BY <1>1, <1>2, <2>4
  <2>5. CASE /\ Overlooked /\ event.kind # "DISCONNECTED" /\ link = torn + 1
             /\ session \in {"connecting", "ready"}
    BY <1>1, <1>10, <2>5 DEF Overlooked
  <2>6. CASE /\ Overlooked /\ event.kind # "DISCONNECTED" /\ link = torn + 1
             /\ session = "failed" /\ \E k \in DOMAIN queue : Faults(k)
    BY <1>1, <1>2, <2>6 DEF Overlooked
  <2> QED
    BY <2>1, <2>2, <2>3, <2>4, <2>5, <2>6 DEF Announced
<1> QED
  BY <1>7, <1>8, <1>9, <1>11 DEF Announced

\* What the link tells is an event of its own connection.
LEMMA LinkKeeps ==
  ASSUME Strong, LinkStep
  PROVE  Strong'
<1>1. /\ UNCHANGED <<config, mqtt_revision, pc, runtime, management_key, configured, started,
                     ready, failed, link, announced, torn, executed>>
      /\ InOrder /\ Torn /\ Announced /\ link \in Nat
  BY DEF LinkStep, Strong, InOrder, taskVars, pollVars, ownerVars, setup
<1>2. \A kind \in Kinds : Event(kind) \in Events /\ Event(kind).kind = kind
                          /\ Event(kind).link = link
  BY <1>1 DEF Event, Events
<1>3. InOrder' /\ Torn' /\ Announced' /\ session' # "stopped" /\ session # "stopped"
  <2>1. CASE Subscribed
    <3>1. Tells("ready", Event("READY")) /\ session = "connecting"
      BY <2>1 DEF Subscribed
    <3> QED
      BY <1>1, <1>2, <3>1, TellsInOrder DEF Kinds, Tells
  <2>2. CASE Fails
    <3>1. Tells("failed", Event("ERROR")) /\ session \in {"connecting", "ready", "disconnected"}
      BY <2>2 DEF Fails
    <3> QED
      BY <1>1, <1>2, <3>1, TellsInOrder DEF Kinds, Tells
  <2>3. CASE Dropped
    <3>1. Tells("disconnected", Event("DISCONNECTED")) /\ session \in {"connecting", "ready"}
      BY <2>3 DEF Dropped
    <3> QED
      BY <1>1, <1>2, <3>1, TellsInOrder DEF Kinds, Tells
  <2>4. CASE Trouble
    <3>1. Tells(session, Event("ERROR")) /\ session \in {"connecting", "ready", "disconnected"}
      BY <2>4 DEF Trouble
    <3> QED
      BY <1>1, <1>2, <3>1, TellsInOrder DEF Kinds, Tells
  <2>5. CASE Deliver
    <3>1. PICK key \in Keys \cup {Bad} : Tells(session, [Event("MESSAGE") EXCEPT !.key = key])
      BY <2>5 DEF Deliver
    <3> DEFINE message == [Event("MESSAGE") EXCEPT !.key = key]
    <3>2. message \in Events /\ message.kind = "MESSAGE" /\ message.link = link
      BY <1>1 DEF Event, Events, Kinds
    <3>3. session \in {"connecting", "ready"} /\ Tells(session, message)
      BY <2>5, <3>1 DEF Deliver
    <3> HIDE DEF message
    <3> QED
      BY <1>1, <3>2, <3>3, TellsInOrder DEF Tells
  <2>6. CASE Expire
    <3>1. Tells(session, Event("DELETED")) /\ session # "stopped"
      BY <2>6 DEF Expire
    <3> QED
      BY <1>1, <1>2, <3>1, TellsInOrder DEF Kinds, Tells
  <2> QED
    BY <2>1, <2>2, <2>3, <2>4, <2>5, <2>6 DEF LinkStep
<1> QED
  BY <1>1, <1>3 DEF Strong, HandedOver, SessionsOwned, CommandsCurrent, Heard, Overlooked

-----------------------------------------------------------------------------
(* The control task and the owner *)

\* What the proof is about stays.
LEMMA Untouched ==
  ASSUME Strong,
         UNCHANGED <<config, mqtt_revision, pc, runtime, management_key, configured, started,
                     ready, failed, session, queue, link, announced, torn, executed>>
  PROVE  Strong'
<1>1. InOrder' /\ Torn'
  BY DEF Strong, InOrder, Torn, Speaks, Ends, Faults
<1>2. Announced'
  BY DEF Strong, Announced, Speaks, Ends, Faults, Heard, Overlooked
<1> QED
  BY <1>1, <1>2
     DEF Strong, HandedOver, SessionsOwned, CommandsCurrent, Heard, Overlooked

\* The queue and the session stay, and a ready owner is one that was ready.
LEMMA Settled ==
  ASSUME Strong, ready' => ready, UNCHANGED <<session, queue, link, announced, torn>>
  PROVE  InOrder' /\ Torn' /\ Announced'
<1>1. InOrder' /\ Torn'
  BY DEF Strong, InOrder, Torn, Speaks, Ends, Faults
<1>2. Announced'
  BY DEF Strong, Announced, Speaks, Ends, Faults, Heard, Overlooked
<1> QED
  BY <1>1, <1>2

\* A stopped session leaves nothing in the queue.
LEMMA Emptied ==
  ASSUME InOrder, Torn, session' = "stopped", queue' = <<>>, ready' = FALSE,
         UNCHANGED <<link, torn>>
  PROVE  InOrder' /\ Torn' /\ Announced'
BY DEF InOrder, Torn, Announced

LEMMA CommitKeeps ==
  ASSUME Strong, CommitConfiguration
  PROVE  Strong'
<1>1. /\ UNCHANGED <<mqtt_revision, pc, runtime, management_key, configured, started, ready,
                     failed, session, queue, link, announced, torn, executed>>
      /\ pc = "pass" /\ executed = {}
  BY DEF CommitConfiguration, pollVars, ownerVars, setup, emqttVars, Strong, HandedOver
<1>2. config' \in [rev : Nat, key : Keys \cup {NoKey}] /\ config'.rev = config.rev + 1
  <2>1. PICK key \in Keys \cup {NoKey} : config' = [rev |-> config.rev + 1, key |-> key]
    BY DEF CommitConfiguration
  <2> QED
    BY <2>1 DEF Strong, HandedOver
<1>3. HandedOver'
  <2>1. \A r \in mqtt_revision : r \in Nat /\ r < config'.rev
    BY <1>2 DEF Strong, HandedOver
  <2> QED
    BY <1>1, <1>2, <2>1 DEF Strong, HandedOver
<1>4. InOrder' /\ Torn' /\ Announced'
  BY <1>1, Settled
<1> QED
  BY <1>1, <1>3, <1>4 DEF Strong, SessionsOwned, CommandsCurrent

LEMMA ConfigureKeeps ==
  ASSUME Strong, Configure
  PROVE  Strong'
<1>1. /\ UNCHANGED <<config, pc, link, announced, torn, executed>>
      /\ pc = "pass" /\ executed = {}
      /\ mqtt_revision' = {config.rev} /\ ready' = FALSE
      /\ config \in [rev : Nat, key : Keys \cup {NoKey}]
  BY DEF Configure, pollVars, Strong, HandedOver
<1>2. CASE KeepRuntime
  <2>1. UNCHANGED <<session, queue>> /\ failed' = TRUE /\ configured' = FALSE
    BY <1>2 DEF KeepRuntime, emqttVars
  <2>2. InOrder' /\ Torn' /\ Announced'
    BY <1>1, <2>1, Settled
  <2> QED
    BY <1>1, <2>1, <2>2 DEF Strong, HandedOver, SessionsOwned, CommandsCurrent
<1>3. CASE Replace
  <2>1. session' = "stopped" /\ queue' = <<>>
    BY <1>3 DEF Replace
  <2>2. \/ configured' = FALSE
        \/ configured' = TRUE /\ runtime' = {config.rev} /\ management_key' = config.key
    BY <1>3 DEF Replace
  <2>3. InOrder' /\ Torn' /\ Announced'
    BY <1>1, <2>1, Emptied DEF Strong
  <2> QED
    BY <1>1, <2>1, <2>2, <2>3 DEF Strong, HandedOver, SessionsOwned, CommandsCurrent
<1> QED
  BY <1>2, <1>3 DEF Configure

LEMMA OfflineKeeps ==
  ASSUME Strong, PollOffline
  PROVE  Strong'
<1>1. /\ UNCHANGED <<config, mqtt_revision, pc, runtime, management_key, configured, link,
                     announced, torn>>
      /\ pc = "pass" /\ executed' = {} /\ ready' = FALSE
  BY DEF PollOffline, PollDue, taskVars, pollVars, setup
<1>2. \/ session' = "stopped" /\ queue' = <<>>
      \/ UNCHANGED <<session, queue>> /\ (failed' = TRUE \/ UNCHANGED <<started, failed>>)
  BY DEF PollOffline, StopSession, emqttVars
<1>3. InOrder' /\ Torn' /\ Announced'
  <2>1. CASE session' = "stopped" /\ queue' = <<>>
    BY <1>1, <2>1, Emptied DEF Strong
  <2>2. CASE UNCHANGED <<session, queue>>
    BY <1>1, <2>2, Settled
  <2> QED
    BY <1>2, <2>1, <2>2
<1> QED
  BY <1>1, <1>2, <1>3 DEF Strong, HandedOver, SessionsOwned, CommandsCurrent

LEMMA OnlineKeeps ==
  ASSUME Strong, PollOnline
  PROVE  Strong'
<1>1. /\ UNCHANGED <<config, mqtt_revision, runtime, management_key, configured, ready,
                     failed, queue, announced, torn>>
      /\ executed' = {} /\ PollDue /\ pc' \in {"pass", "events"}
  BY DEF PollOnline, PollDue, taskVars, pollVars, setup
<1>2. runtime = mqtt_revision /\ HandedOver'
  BY <1>1 DEF PollDue, Strong, HandedOver
<1>3. CASE UNCHANGED <<started, session, link>>
  <2>1. InOrder' /\ Torn' /\ Announced'
    BY <1>1, <1>3, Settled
  <2> QED
    BY <1>1, <1>2, <1>3, <2>1 DEF Strong, SessionsOwned, CommandsCurrent
<1>4. CASE ~started /\ session' = "connecting" /\ link' = link + 1 /\ started' = TRUE
  <2>1. session = "stopped" /\ queue = <<>> /\ queue' = <<>>
    BY <1>1, <1>4 DEF PollDue, Strong, SessionsOwned, InOrder
  <2>2. InOrder' /\ Torn'
    BY <1>1, <1>4, <2>1 DEF Strong, InOrder, Torn
  <2>3. Announced'
    <3> SUFFICES ASSUME ready
                 PROVE  Announced'
      BY <1>1 DEF Announced
    <3>1. Overlooked /\ link = torn
      BY <2>1 DEF Strong, Announced
    <3>2. announced \in Nat /\ 0 < announced /\ announced <= link /\ link \in Nat
      BY DEF Strong, Announced, InOrder
    <3> QED
      BY <1>1, <1>4, <2>1, <3>1, <3>2 DEF Announced, Overlooked
  <2> QED
    BY <1>1, <1>2, <1>4, <2>2, <2>3 DEF Strong, SessionsOwned, CommandsCurrent
<1> QED
  BY <1>3, <1>4 DEF PollOnline

\* A new connection is dialled only after the end of the old one was told.
LEMMA RedialKeeps ==
  ASSUME Strong, Redial
  PROVE  Strong'
<1>1. /\ UNCHANGED <<config, mqtt_revision, pc, runtime, management_key, configured, started,
                     ready, failed, queue, announced, torn, executed>>
      /\ session = "disconnected" /\ session' = "connecting" /\ link' = link + 1
  BY DEF Redial, taskVars, pollVars, ownerVars, setup
<1>2. \A i \in DOMAIN queue : Speaks(i) => \E k \in DOMAIN queue : i < k /\ Ends(k)
  BY <1>1 DEF Strong, InOrder
<1>3. InOrder' /\ Torn'
  <2>1. InOrder'
    BY <1>1, <1>2 DEF Strong, InOrder, Speaks, Ends, Faults
  <2>2. \A i \in DOMAIN queue : queue[i].link \in Nat
    BY LinksAreNumbers DEF Strong
  <2>3. Torn'
    BY <1>1, <2>2 DEF Strong, InOrder, Torn
  <2> QED
    BY <2>1, <2>3
<1>4. Announced'
  <2>1. Heard' = Heard
    BY <1>1 DEF Heard, Overlooked
  <2>2. ready => \E k \in DOMAIN queue : Ends(k)
    BY <1>1 DEF Strong, Announced
  <2> QED
    BY <1>1, <2>1, <2>2 DEF Strong, Announced, InOrder, Speaks, Ends
<1> QED
  BY <1>1, <1>3, <1>4
     DEF Strong, HandedOver, SessionsOwned, CommandsCurrent, Heard, Overlooked

-----------------------------------------------------------------------------
(* The event loop *)

\* Taking an event leaves the control task and the setup alone.
LEMMA TakeFrame ==
  ASSUME Strong, TakeEvent
  PROVE  /\ UNCHANGED <<config, mqtt_revision, runtime, management_key, configured, link>>
         /\ pc # "pass" /\ pc' \in {"pass", "events", "error"}
         /\ runtime = mqtt_revision /\ management_key = config.key
         /\ executed' = {} => HandedOver'
<1>1. /\ UNCHANGED <<config, mqtt_revision, runtime, management_key, configured, link>>
      /\ pc # "pass" /\ pc' \in {"pass", "events", "error"}
  <2>1. CASE TakeReady \/ TakeDisconnected \/ TakeDeleted \/ TakeMessage
    BY <2>1 DEF Take, TakeReady, TakeDisconnected, TakeDeleted, TakeMessage,
         taskVars, ownerVars, setup
  <2>2. CASE TakeError \/ StopIfFailed
    BY <2>2 DEF Take, TakeError, StopIfFailed, taskVars, ownerVars, setup
  <2> QED
    BY <2>1, <2>2 DEF TakeEvent
<1>2. configured /\ mqtt_revision = {config.rev}
  BY <1>1 DEF Strong, HandedOver
<1> QED
  BY <1>1, <1>2 DEF Strong, HandedOver

\* A stop after a fault empties the queue with the session, or closes the owner.
LEMMA FaultKeeps ==
  ASSUME Strong, ready' = FALSE, queue # <<>>, StopAfterFault(Tail(queue)),
         UNCHANGED <<config, mqtt_revision, runtime, management_key, configured, link, torn>>
  PROVE  InOrder' /\ Torn' /\ Announced' /\ SessionsOwned'
<1>1. CASE session' = "stopped" /\ queue' = <<>>
  BY <1>1, Emptied DEF Strong, SessionsOwned
<1>2. CASE failed' = TRUE /\ queue' = Tail(queue) /\ UNCHANGED session
  <2>1. InOrder' /\ Torn'
    BY <1>2, TailInOrder DEF Strong
  <2> QED
    BY <1>2, <2>1 DEF Announced, SessionsOwned
<1> QED
  BY <1>1, <1>2 DEF StopAfterFault, StopSession

LEMMA DisconnectedKeeps ==
  ASSUME Strong, TakeDisconnected
  PROVE  Strong'
<1>1. /\ queue # <<>> /\ queue' = Tail(queue) /\ executed' = {} /\ ready' = FALSE
      /\ UNCHANGED <<started, failed, session, link, torn, mqtt_revision, runtime>>
  BY DEF TakeDisconnected, Take, taskVars, setup
<1>2. HandedOver'
  BY <1>1, TakeFrame DEF TakeEvent
<1>3. InOrder' /\ Torn'
  BY <1>1, TailInOrder DEF Strong
<1> QED
  BY <1>1, <1>2, <1>3 DEF Strong, Announced, SessionsOwned, CommandsCurrent

LEMMA DeletedKeeps ==
  ASSUME Strong, TakeDeleted
  PROVE  Strong'
<1>1. /\ executed' = {} /\ ready' = FALSE /\ torn' = torn
      /\ queue # <<>> /\ StopAfterFault(Tail(queue))
  BY DEF TakeDeleted, Take
<1>2. /\ UNCHANGED <<config, mqtt_revision, runtime, management_key, configured, link>>
      /\ HandedOver'
  BY <1>1, TakeFrame DEF TakeEvent
<1>3. InOrder' /\ Torn' /\ Announced' /\ SessionsOwned'
  BY <1>1, <1>2, FaultKeeps
<1> QED
  BY <1>1, <1>2, <1>3 DEF Strong, CommandsCurrent

LEMMA ErrorKeeps ==
  ASSUME Strong, TakeError
  PROVE  Strong'
<1>1. /\ executed' = {} /\ ready' = (ready /\ session = "ready")
      /\ queue # <<>> /\ Head(queue).kind = "ERROR" /\ queue' = Tail(queue)
      /\ UNCHANGED <<session, started, failed, announced, torn>>
  BY DEF TakeError, Take
<1>2. /\ UNCHANGED <<config, mqtt_revision, runtime, management_key, configured, link>>
      /\ HandedOver'
  BY <1>1, TakeFrame DEF TakeEvent
<1>3. InOrder' /\ Torn'
  BY <1>1, <1>2, TailInOrder DEF Strong
<1>4. (ready' => ready) /\ (ready' => session = "ready")
  BY <1>1
<1>5. Announced'
  BY <1>1, <1>2, <1>4, TailAnnounced DEF Strong
<1> QED
  BY <1>1, <1>2, <1>3, <1>5 DEF Strong, SessionsOwned, CommandsCurrent

\* The second look may stop the session under an owner that the first left ready: then
\* nothing of the session is left, and the next one begins where the last was torn off.
LEMMA StopKeeps ==
  ASSUME Strong, StopIfFailed
  PROVE  Strong'
<1>1. executed' = {} /\ UNCHANGED <<ready, announced>>
  BY DEF StopIfFailed
<1>2. /\ UNCHANGED <<config, mqtt_revision, runtime, management_key, configured, link>>
      /\ HandedOver'
  BY <1>1, TakeFrame DEF TakeEvent
<1>3. CASE UNCHANGED <<session, queue, started, failed, torn>>
  <2>1. InOrder' /\ Torn' /\ Announced'
    BY <1>1, <1>2, <1>3, Settled
  <2> QED
    BY <1>1, <1>2, <1>3, <2>1 DEF Strong, SessionsOwned, CommandsCurrent
<1>4. CASE session = "failed" /\ session' = "stopped" /\ queue' = <<>>
  <2>1. torn' = IF ready THEN link ELSE torn
    BY <1>4 DEF StopIfFailed, emqttVars
  <2>2. InOrder' /\ Torn'
    BY <1>2, <1>4, <2>1 DEF Strong, InOrder, Torn
  <2>3. Announced'
    BY <1>1, <1>2, <1>4, <2>1 DEF Strong, InOrder, Torn, Announced, Overlooked
  <2> QED
    BY <1>1, <1>2, <1>4, <2>2, <2>3 DEF Strong, SessionsOwned, CommandsCurrent
<1>5. CASE session = "failed" /\ failed' = TRUE /\ UNCHANGED <<session, queue>>
  <2>1. torn' = torn
    BY <1>5 DEF StopIfFailed
  <2>2. InOrder' /\ Torn' /\ Announced'
    BY <1>1, <1>2, <1>5, <2>1, Settled
  <2> QED
    BY <1>1, <1>2, <1>5, <2>2 DEF Strong, SessionsOwned, CommandsCurrent
<1> QED
  BY <1>3, <1>4, <1>5 DEF StopIfFailed, StopAfterFault, StopSession, emqttVars

\* What stands in the queue behind a SUBACK is of the same connection, or behind its end.
LEMMA ReadyKeeps ==
  ASSUME Strong, TakeReady
  PROVE  Strong'
<1>1. executed' = {} /\ torn' = torn /\ Head(queue).kind = "READY" /\ queue # <<>>
  BY DEF TakeReady, Take
<1>2. /\ UNCHANGED <<config, mqtt_revision, runtime, management_key, configured, link>>
      /\ HandedOver' /\ queue \in Seq(Events)
  BY <1>1, TakeFrame DEF TakeEvent, Strong, InOrder
<1>3. CASE /\ announced' = Head(queue).link /\ queue' = Tail(queue)
           /\ UNCHANGED <<session, started, failed>>
  <2>1. InOrder' /\ Torn'
    BY <1>1, <1>2, <1>3, TailInOrder DEF Strong
  <2>2. /\ Head(queue) = queue[1] /\ 1 \in DOMAIN queue
        /\ DOMAIN queue \subseteq Nat /\ DOMAIN queue' \subseteq Nat
        /\ \A i \in DOMAIN queue' : i + 1 \in DOMAIN queue /\ queue'[i] = queue[i + 1]
        /\ \A i \in DOMAIN queue : i # 1 => i - 1 \in DOMAIN queue' /\ queue'[i - 1] = queue[i]
    BY <1>1, <1>2, <1>3, TailFacts
  <2>3. Speaks(1) /\ queue[1].kind # "DISCONNECTED"
    BY <1>1, <2>2 DEF Speaks
  <2>8. /\ announced' \in Nat /\ 0 < announced' /\ announced' <= link'
        /\ Heard' = queue[1].link
    <3>1. torn \in Nat /\ torn < queue[1].link /\ queue[1].link <= link /\ link \in Nat
      BY <2>2 DEF Strong, Torn, InOrder
    <3>2. queue[1].link \in Nat
      BY <2>2, LinksAreNumbers DEF Strong
    <3>3. announced' = queue[1].link
      BY <1>3, <2>2
    <3> QED
      BY <1>1, <1>2, <3>1, <3>2, <3>3 DEF Heard, Overlooked
  <2>4. ASSUME NEW k \in DOMAIN queue, 1 < k
        PROVE  k - 1 \in DOMAIN queue' /\ (Ends(k) => Ends(k - 1)') /\ (Faults(k) => Faults(k - 1)')
    BY <2>2, <2>4 DEF Ends, Faults
  <2>5. ASSUME NEW i \in DOMAIN queue', Speaks(i)'
        PROVE  (\E k \in DOMAIN queue' : k < i /\ Ends(k)') \/ queue'[i].link = Heard'
    <3>1. i + 1 \in DOMAIN queue /\ Speaks(i + 1) /\ queue'[i] = queue[i + 1] /\ 1 < i + 1
      <4>1. DOMAIN queue' = 1 .. Len(queue')
        BY <2>1 DEF InOrder
      <4> QED
        BY <2>2, <2>5, <4>1 DEF Speaks
    <3>2. CASE queue[i + 1].link = queue[1].link
      BY <2>8, <3>1, <3>2
    <3>3. CASE queue[i + 1].link # queue[1].link
      <4>1. PICK k \in DOMAIN queue : 1 < k /\ k < i + 1 /\ Ends(k)
        BY <2>2, <2>3, <3>1, <3>3 DEF Strong, InOrder
      <4>2. k - 1 \in DOMAIN queue' /\ Ends(k - 1)' /\ k - 1 < i
        BY <2>2, <2>4, <2>5, <4>1
      <4> QED
        BY <4>2
    <3> QED
      BY <3>2, <3>3
  <2>6. \/ \E k \in DOMAIN queue' : Ends(k)'
        \/ /\ announced' = link'
           /\ \/ session' = "ready"
              \/ session' = "failed" /\ \E k \in DOMAIN queue' : Faults(k)'
    <3>1. \/ \E k \in DOMAIN queue : 1 < k /\ Ends(k)
          \/ queue[1].link = link /\ session = "ready"
          \/ /\ queue[1].link = link /\ session = "failed"
             /\ \E k \in DOMAIN queue : 1 < k /\ Faults(k)
      BY <1>1, <2>2, <2>3 DEF Strong, InOrder
    <3> QED
      BY <1>2, <1>3, <2>2, <2>4, <3>1
  <2>7. Announced'
    BY <2>5, <2>6, <2>8 DEF Announced
  <2> QED
    BY <1>1, <1>2, <1>3, <2>1, <2>7 DEF Strong, SessionsOwned, CommandsCurrent
<1>4. CASE ready' = FALSE /\ StopAfterFault(Tail(queue))
  <2>1. InOrder' /\ Torn' /\ Announced' /\ SessionsOwned'
    BY <1>1, <1>2, <1>4, FaultKeeps
  <2> QED
    BY <1>1, <1>2, <2>1 DEF Strong, CommandsCurrent
<1> QED
  BY <1>3, <1>4 DEF TakeReady

\* A ready owner takes a message of the connection it announced itself on: no end of it
\* can stand before the head of the queue.
LEMMA MessageKeeps ==
  ASSUME Strong, TakeMessage
  PROVE  Strong'
<1>1. /\ queue # <<>> /\ Head(queue).kind = "MESSAGE" /\ queue' = Tail(queue)
      /\ executed' = {m \in {Head(queue)} : ready /\ m.key = management_key}
      /\ UNCHANGED <<started, ready, failed, session, announced, torn, pc>>
  BY DEF TakeMessage, Take, ownerVars
<1>2. /\ UNCHANGED <<config, mqtt_revision, runtime, management_key, configured, link>>
      /\ pc # "pass" /\ management_key = config.key
      /\ queue \in Seq(Events)
  BY TakeFrame DEF TakeEvent, Strong, InOrder
<1>3. InOrder' /\ Torn' /\ Announced'
  BY <1>1, <1>2, TailInOrder, TailAnnounced DEF Strong
<1>4. ready => Head(queue).link = Heard
  <2>1. /\ Head(queue) = queue[1] /\ 1 \in DOMAIN queue
        /\ \A k \in DOMAIN queue : ~(k < 1)
    BY <1>1, <1>2
  <2> QED
    BY <1>1, <2>1 DEF Strong, Announced, Speaks
<1>5. CommandsCurrent'
  BY <1>1, <1>2, <1>4 DEF CommandsCurrent, Heard, Overlooked
<1>6. HandedOver'
  BY <1>1, <1>2 DEF Strong, HandedOver
<1> QED
  BY <1>1, <1>2, <1>3, <1>5, <1>6 DEF Strong, SessionsOwned

LEMMA EndKeeps ==
  ASSUME Strong, EndPoll
  PROVE  Strong'
<1>1. /\ UNCHANGED <<config, mqtt_revision, runtime, management_key, configured, started,
                     ready, failed, session, queue, link, announced, torn>>
      /\ pc' = "pass" /\ executed' = {}
  BY DEF EndPoll, taskVars, ownerVars, setup, emqttVars
<1>2. InOrder' /\ Torn' /\ Announced'
  BY <1>1, Settled
<1> QED
  BY <1>1, <1>2 DEF Strong, HandedOver, SessionsOwned, CommandsCurrent

-----------------------------------------------------------------------------

LEMMA StrongStep == Strong /\ [Next]_vars => Strong'
<1> SUFFICES ASSUME Strong, [Next]_vars
             PROVE  Strong'
  OBVIOUS
<1>1. CASE CommitConfiguration
  BY <1>1, CommitKeeps
<1>2. CASE NetworkChanges
  BY <1>2, Untouched DEF NetworkChanges, pollVars, ownerVars, setup, emqttVars
<1>3. CASE Publish
  BY <1>3, Untouched DEF Publish, taskVars, pollVars, ownerVars, setup
<1>4. CASE OwnerStep
  BY <1>4, ConfigureKeeps, OfflineKeeps, OnlineKeeps, ReadyKeeps, DisconnectedKeeps,
     DeletedKeeps, ErrorKeeps, StopKeeps, MessageKeeps, EndKeeps DEF OwnerStep, TakeEvent
<1>5. CASE LinkStep
  BY <1>5, LinkKeeps
<1>6. CASE Redial
  BY <1>6, RedialKeeps
<1>7. CASE Tick
  BY <1>7, Untouched DEF Tick, taskVars, pollVars, setup, emqttVars
<1>8. CASE UNCHANGED vars
  BY <1>8, Untouched DEF vars, taskVars, pollVars, ownerVars, setup, emqttVars
<1> QED
  BY <1>1, <1>2, <1>3, <1>4, <1>5, <1>6, <1>7, <1>8 DEF Next

LEMMA StrongAlways == Spec => []Strong
BY StrongInit, StrongStep, PTL DEF Spec

\* A command reaches its handler only if it is signed with the key of the configuration in
\* force and came over the connection whose SUBACK the owner answered with `online`, or,
\* after a stop between the two looks at a failing session, over the next one: for poll's
\* event loop and configure in mqtt_owner.c, in whatever order events were queued.
THEOREM NoStaleCommand == Spec => []CommandsCurrent
<1>1. Strong => CommandsCurrent
  BY DEF Strong
<1> QED
  BY <1>1, StrongAlways, PTL

\* While the owner of mqtt_owner.c is in order, a session that runs is the one it started
\* from the configuration that the control task last handed to configure.
THEOREM NoUnownedSession == Spec => []SessionsOwned
<1>1. Strong => SessionsOwned
  BY DEF Strong
<1> QED
  BY <1>1, StrongAlways, PTL

\* s_ready is never left standing over a lost link unless an event that clears it is still
\* queued or the session was stopped between the two looks after an ERROR, and then no
\* further than to the next session: for poll's handling of every event in mqtt_owner.c.
THEOREM LossIsNoticed == Spec => []ReadyLagsQueue
<1>1. Strong => ReadyLagsQueue
  BY DEF Strong, Announced, Ends, Faults, ReadyLagsQueue
<1> QED
  BY <1>1, StrongAlways, PTL
=============================================================================
