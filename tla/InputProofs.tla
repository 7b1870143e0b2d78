--------------------------- MODULE InputProofs ------------------------------
(***************************************************************************)
(* The table of answered status requests, for any number of slots,         *)
(* identifiers and any window: types, one live slot per identifier, and    *)
(* the promise of StatusAnswers, which it implements.                      *)
(***************************************************************************)
EXTENDS MCInput, SequenceTheorems, FiniteSetTheorems, TLAPS

\* The state of the table after a request or a tick is well typed: deadlines stay
\* within the window of the clock that accepted them.
THEOREM TypeCorrect == Spec => []TypeOK
<1>1. Init => TypeOK
  BY StatusAssumption DEF Init, TypeOK, Held, Slots
<1>2. TypeOK /\ [Next]_vars => TypeOK'
  <2> SUFFICES ASSUME TypeOK, [Next]_vars
               PROVE  TypeOK'
    OBVIOUS
  <2> USE StatusAssumption DEF TypeOK
  <2>1. CASE Tick
    BY <2>1 DEF Tick
  <2>2. ASSUME NEW r \in Requests, Cached(r)
        PROVE  TypeOK'
    BY <2>2 DEF Cached, Matching, Free, Held
  <2>3. ASSUME NEW r \in Requests, Store(r)
        PROVE  TypeOK'
    <3>1. PICK s \in Statuses :
             /\ slots' = [slots EXCEPT ![Min(Free)] =
                             [id |-> r.id, expires |-> r.expires, status |-> s]]
             /\ reply' = {[request |-> r, status |-> s]}
      BY <2>3 DEF Store
    <3>2. [id |-> r.id, expires |-> r.expires, status |-> s] \in Held
      BY <2>3 DEF Store, Valid, Requests, Held
    <3> QED
      BY <2>3, <3>1, <3>2 DEF Store
  <2>4. ASSUME NEW r \in Requests, Refused(r)
        PROVE  TypeOK'
    BY <2>4 DEF Refused
  <2>5. CASE UNCHANGED vars
    BY <2>5 DEF vars
  <2> QED
    BY <2>1, <2>2, <2>3, <2>4, <2>5 DEF Next
<1> QED
  BY <1>1, <1>2, PTL DEF Spec

\* A slot that is taken never makes a second one for the same identifier: a request
\* is stored only when no live slot holds its identifier, and time only frees slots.
THEOREM OneSlot == Spec => []OneSlotPerId
<1>1. Init => OneSlotPerId
  BY DEF Init, OneSlotPerId, Free
<1>2. TypeOK /\ OneSlotPerId /\ [Next]_vars => OneSlotPerId'
  <2> SUFFICES ASSUME TypeOK, OneSlotPerId, [Next]_vars
               PROVE  OneSlotPerId'
    OBVIOUS
  <2>1. CASE Tick
    <3>1. slots' = slots /\ now' = now + 1 /\ now \in Nat
      BY <2>1 DEF Tick, TypeOK
    <3>2. Free \subseteq Free'
      BY <3>1 DEF Free, TypeOK, Held
    <3> QED
      BY <3>1, <3>2 DEF OneSlotPerId
  <2>2. ASSUME NEW r \in Requests, Store(r)
        PROVE  OneSlotPerId'
    <3> DEFINE m == Min(Free)
    <3>1. PICK s \in Statuses :
             slots' = [slots EXCEPT ![m] =
                          [id |-> r.id, expires |-> r.expires, status |-> s]]
      BY <2>2 DEF Store
    <3> HIDE DEF m
    <3>2. now' = now /\ Matching(r) = {}
      BY <2>2 DEF Store
    <3>3. ASSUME NEW i \in Slots, i # m
          PROVE  slots'[i] = slots[i] /\ (i \notin Free' => i \notin Free)
      BY <3>1, <3>2, <3>3 DEF Free, TypeOK
    <3>4. m \in Slots => slots'[m].id = r.id
      BY <3>1 DEF TypeOK
    <3>5. ASSUME NEW i \in Slots \ Free', i # m
          PROVE  slots'[i].id # r.id
      BY <3>2, <3>3, <3>5 DEF Matching
    <3> QED
      BY <3>3, <3>4, <3>5 DEF OneSlotPerId
  <2>3. ASSUME NEW r \in Requests, Cached(r) \/ Refused(r)
        PROVE  OneSlotPerId'
    BY <2>3 DEF Cached, Refused, OneSlotPerId, Free
  <2>4. CASE UNCHANGED vars
    BY <2>4 DEF vars, OneSlotPerId, Free
  <2> QED
    BY <2>1, <2>2, <2>3, <2>4 DEF Next
<1> QED
  BY <1>1, <1>2, TypeCorrect, PTL DEF Spec

-----------------------------------------------------------------------------
(* The table keeps the promise of the endpoint                               *)

\* The operator that picks a slot (the for loop of handle_frp_status, which stops at the
\* first free one) returns the least element of a set that is not empty.
LEMMA MinIsLeast ==
    ASSUME NEW S, S \subseteq Nat, S # {}
    PROVE  Min(S) \in S /\ \A y \in S : Min(S) <= y
<1> DEFINE R == OpToRel(<, Nat)
<1>1. IsWellFoundedOn(R, Nat)
  BY NatLessThanWellFounded
<1>2. \A x, y \in Nat : x < y => <<x, y>> \in R
  BY DEF OpToRel
<1> HIDE DEF R
<1>3. PICK x \in S : \A y \in S : ~(<<y, x>> \in R)
  BY <1>1, WFMin
<1>4. \A y \in S : x <= y
  <2> SUFFICES ASSUME NEW y \in S PROVE x <= y
    OBVIOUS
  <2>1. x \in Nat /\ y \in Nat /\ ~(y < x)
    BY <1>2, <1>3
  <2> QED
    BY <2>1
<1> QED
  BY <1>4 DEF Min

\* No deadline the table holds is further away than the window.
WithinWindow == \A i \in Slots : slots[i].expires <= now + Window

\* What the mapping to StatusAnswers needs of a state.
TableInv == TypeOK /\ OneSlotPerId /\ WithinWindow

\* The values the mapping gives to the variables of StatusAnswers.
Memory(slot) == [expires |-> slot.expires, status |-> slot.status]
Holders(id) == {j \in Slots \ Free : slots[j].id = id}
Remembered == [id \in Ids |-> {Memory(slots[i]) : i \in Holders(id)}]
Answered == {[request |-> Here(a.request), status |-> a.status] : a \in reply}

LEMMA WindowKept ==
    ASSUME TypeOK, WithinWindow, [Next]_vars
    PROVE  WithinWindow'
<1>1. /\ now \in Nat /\ Window \in Nat
      /\ slots \in [Slots -> Held] /\ \A i \in Slots : slots[i].expires \in Nat
  BY StatusAssumption DEF TypeOK, Held
<1>2. CASE Tick
  <2>1. slots' = slots /\ now' = now + 1
    BY <1>2 DEF Tick
  <2> QED
    BY <1>1, <2>1 DEF WithinWindow
<1>3. ASSUME NEW r \in Requests, Store(r)
      PROVE  WithinWindow'
  <2>1. PICK s \in Statuses :
          slots' = [slots EXCEPT ![Min(Free)] = [id |-> r.id, expires |-> r.expires, status |-> s]]
    BY <1>3 DEF Store
  <2>2. now' = now /\ r.expires - now <= Window /\ r.expires \in Nat
    BY <1>3, StatusAssumption DEF Store, Valid, Requests
  <2>3. r.expires <= now + Window
    BY <1>1, <2>2
  <2>4. ASSUME NEW i \in Slots
        PROVE  slots'[i].expires <= now + Window
    BY <1>1, <2>1, <2>3 DEF WithinWindow
  <2> QED
    BY <2>2, <2>4 DEF WithinWindow
<1>4. ASSUME NEW r \in Requests, Cached(r) \/ Refused(r)
      PROVE  WithinWindow'
  BY <1>4 DEF Cached, Refused, WithinWindow
<1>5. CASE UNCHANGED vars
  BY <1>5 DEF vars, WithinWindow
<1> QED
  BY <1>2, <1>3, <1>4, <1>5 DEF Next

LEMMA TableInvAlways == Spec => []TableInv
<1>1. Init => WithinWindow
  <2> SUFFICES ASSUME Init, NEW i \in Slots
               PROVE  slots[i].expires <= now + Window
    BY DEF WithinWindow
  <2>1. slots[i].expires = 0 /\ now = 0
    BY DEF Init
  <2> QED
    BY <2>1, StatusAssumption
<1>2. TypeOK /\ WithinWindow /\ [Next]_vars => WithinWindow'
  BY WindowKept
<1> QED
  BY <1>1, <1>2, TypeCorrect, OneSlot, PTL DEF Spec, TableInv

\* The mapped variables; the three steps of StatusAnswers in terms of them.
LEMMA MappedInit ==
    ASSUME now = 0, Remembered = [id \in Ids |-> {}], Answered = {}
    PROVE  Answers!Init
  BY DEF Answers!Init, Remembered, Answered, Memory, Holders

LEMMA MappedStutter ==
    ASSUME UNCHANGED <<now, Remembered, Answered>>
    PROVE  UNCHANGED Answers!vars
  BY DEF Answers!vars, Remembered, Answered, Memory, Holders

LEMMA MappedTick ==
    ASSUME now' = now + 1, Answered' = Answered,
           Remembered' = [id \in Ids |-> {m \in Remembered[id] : m.expires > now'}]
    PROVE  Answers!Next
<1>1. Answers!Tick
  BY DEF Answers!Tick, Remembered, Answered, Memory, Holders
<1> QED
  BY <1>1 DEF Answers!Next

LEMMA MappedRepeat ==
    ASSUME NEW a \in Answers!Requests, a.here, NEW m \in Remembered[a.id],
           m.expires = a.expires, Answered' = {[request |-> a, status |-> m.status]},
           UNCHANGED <<now, Remembered>>
    PROVE  Answers!Next
<1>1. Answers!Repeat(a)
  BY DEF Answers!Repeat, Answers!Known, Remembered, Answered, Memory, Holders
<1> QED
  BY <1>1 DEF Answers!Next

LEMMA MappedFirst ==
    ASSUME NEW a \in Answers!Requests, a.here, Remembered[a.id] = {},
           a.expires \in now + 1 .. now + Window, NEW s \in Statuses,
           Remembered' = [Remembered EXCEPT ![a.id] = {[expires |-> a.expires, status |-> s]}],
           Answered' = {[request |-> a, status |-> s]}, UNCHANGED now
    PROVE  Answers!Next
<1>1. Answers!First(a)
  BY DEF Answers!First, Remembered, Answered, Memory, Holders
<1> QED
  BY <1>1 DEF Answers!Next

LEMMA MappedRefuse ==
    ASSUME NEW a \in Answers!Requests, Answered' = {}, UNCHANGED <<now, Remembered>>,
           \A m \in Remembered[a.id] : ~(a.here /\ m.expires = a.expires)
    PROVE  Answers!Next
<1>1. Answers!Refuse(a)
  BY DEF Answers!Refuse, Answers!Known, Remembered, Answered, Memory, Holders
<1> QED
  BY <1>1 DEF Answers!Next

\* A request as the promise sees it.
LEMMA HereRequest ==
    ASSUME NEW r \in Requests
    PROVE  /\ Here(r) \in Answers!Requests
           /\ Here(r).id = r.id /\ Here(r).expires = r.expires
           /\ Here(r).here = (r.target = "here")
  BY DEF Here, Requests, Answers!Requests

\* What is remembered under an identifier comes from a live slot.
LEMMA RememberedFrom ==
    ASSUME NEW id \in Ids
    PROVE  /\ \A i \in Holders(id) : Memory(slots[i]) \in Remembered[id]
           /\ \A m \in Remembered[id] : \E i \in Holders(id) : m = Memory(slots[i])
  BY DEF Remembered

\* Time forgets exactly the answers whose deadline is over.
LEMMA TickForgets ==
    ASSUME TableInv, Tick
    PROVE  Answers!Next
<1>1. now' = now + 1 /\ slots' = slots /\ reply' = reply
  BY DEF Tick
<1>2. now \in Nat /\ slots \in [Slots -> Held] /\ \A i \in Slots : slots[i].expires \in Nat
  BY StatusAssumption DEF TableInv, TypeOK, Held
<1>3. Answered' = Answered
  BY <1>1 DEF Answered
<1>4. ASSUME NEW id \in Ids
      PROVE  Remembered'[id] = {m \in Remembered[id] : m.expires > now'}
  <2>1. Holders(id)' = {i \in Holders(id) : slots[i].expires > now'}
    BY <1>1, <1>2 DEF Holders, Free
  <2>2. \A i \in Slots : Memory(slots[i]).expires = slots[i].expires
    BY DEF Memory
  <2>3. Remembered'[id] = {Memory(slots[i]) : i \in Holders(id)'}
    BY <1>1 DEF Remembered
  <2>4. Remembered[id] = {Memory(slots[i]) : i \in Holders(id)}
    BY DEF Remembered
  <2>5. Holders(id) \subseteq Slots
    BY DEF Holders
  <2> QED
    BY <2>1, <2>2, <2>3, <2>4, <2>5
<1>5. Remembered' = [id \in Ids |-> {m \in Remembered[id] : m.expires > now'}]
  BY <1>4 DEF Remembered
<1> QED
  BY <1>1, <1>3, <1>5, MappedTick

\* A repetition gets what is remembered.
LEMMA CachedRepeats ==
    ASSUME TableInv, NEW r \in Requests, Cached(r)
    PROVE  Answers!Next
<1>1. PICK i \in Matching(r) :
        /\ Same(r, i)
        /\ reply' = {[request |-> r, status |-> slots[i].status]}
        /\ UNCHANGED <<now, slots>>
  BY DEF Cached
<1>2. i \in Holders(r.id) /\ r.target = "here" /\ r.expires = slots[i].expires
  BY <1>1 DEF Matching, Holders, Same
<1> DEFINE m == Memory(slots[i])
<1>3. r.id \in Ids
  BY DEF Requests
<1>4. m \in Remembered[r.id] /\ m.expires = r.expires /\ m.status = slots[i].status
  BY <1>2, <1>3, RememberedFrom DEF Memory
<1> HIDE DEF m
<1>5. Answered' = {[request |-> Here(r), status |-> m.status]}
  BY <1>1, <1>4 DEF Answered
<1>6. UNCHANGED <<now, Remembered>>
  BY <1>1 DEF Remembered, Holders, Free
<1> DEFINE a == Here(r)
<1>7. a \in Answers!Requests /\ a.here /\ m \in Remembered[a.id] /\ m.expires = a.expires
  BY <1>2, <1>4, HereRequest
<1>8. Answered' = {[request |-> a, status |-> m.status]}
  BY <1>5
<1> HIDE DEF a
<1> QED
  BY <1>6, <1>7, <1>8, MappedRepeat

\* A request of a new identifier is remembered with its answer, and nothing else changes.
LEMMA StoreRemembers ==
    ASSUME TableInv, NEW r \in Requests, Store(r)
    PROVE  Answers!Next
<1> DEFINE k == Min(Free)
<1>1. PICK s \in Statuses :
        /\ slots' = [slots EXCEPT ![k] = [id |-> r.id, expires |-> r.expires, status |-> s]]
        /\ reply' = {[request |-> r, status |-> s]}
  BY DEF Store
<1>2. /\ now' = now /\ Matching(r) = {} /\ r.target = "here"
      /\ r.expires > now /\ r.expires - now <= Window
  BY DEF Store, Valid
<1>3. /\ now \in Nat /\ slots \in [Slots -> Held] /\ r.expires \in Nat /\ r.id \in Ids
      /\ Window \in Nat
  BY StatusAssumption DEF TableInv, TypeOK, Requests
<1>4. k \in Free
  <2>1. Free \subseteq Nat /\ Free # {}
    BY StatusAssumption DEF Free, Slots, Store
  <2> QED
    BY <2>1, MinIsLeast
<1> HIDE DEF k
<1>5. k \in Slots
  BY <1>4 DEF Free
<1>6. slots'[k] = [id |-> r.id, expires |-> r.expires, status |-> s]
  BY <1>1, <1>3, <1>5
<1>7. \A i \in Slots : i # k => slots'[i] = slots[i]
  BY <1>1, <1>3
<1>8. /\ k \notin Free'
      /\ \A i \in Slots : i # k => (i \in Free' <=> i \in Free)
  BY <1>2, <1>3, <1>5, <1>6, <1>7 DEF Free
<1>9. Holders(r.id) = {} /\ Holders(r.id)' = {k}
  <2>1. Holders(r.id) = {}
    BY <1>2 DEF Matching, Holders
  <2>2. k \in Holders(r.id)'
    BY <1>5, <1>6, <1>8 DEF Holders
  <2>3. ASSUME NEW i \in Slots, i # k
        PROVE  i \notin Holders(r.id)'
    BY <1>7, <1>8, <2>1, <2>3 DEF Holders
  <2>4. Holders(r.id)' \subseteq Slots
    BY DEF Holders
  <2> QED
    BY <2>1, <2>2, <2>3, <2>4
<1>10. ASSUME NEW id \in Ids, id # r.id
       PROVE  /\ Holders(id)' = Holders(id)
              /\ \A i \in Holders(id) : slots'[i] = slots[i]
  <2>1. k \notin Holders(id) /\ k \notin Holders(id)'
    BY <1>4, <1>6, <1>10 DEF Holders
  <2>2. \A i \in Slots : i # k => (i \in Holders(id)' <=> i \in Holders(id))
    BY <1>7, <1>8 DEF Holders
  <2>3. Holders(id)' \subseteq Slots /\ Holders(id) \subseteq Slots
    BY DEF Holders
  <2>4. Holders(id)' = Holders(id)
    BY <2>1, <2>2, <2>3
  <2> QED
    BY <1>7, <2>1, <2>3, <2>4
<1>11. Remembered[r.id] = {}
  BY <1>3, <1>9 DEF Remembered
<1>12. Remembered'[r.id] = {[expires |-> r.expires, status |-> s]}
  <2>1. Remembered'[r.id] = {Memory(slots'[i]) : i \in {k}}
    BY <1>3, <1>9 DEF Remembered
  <2>2. Memory(slots'[k]) = [expires |-> r.expires, status |-> s]
    BY <1>6 DEF Memory
  <2> QED
    BY <2>1, <2>2
<1>13. ASSUME NEW id \in Ids, id # r.id
       PROVE  Remembered'[id] = Remembered[id]
  <2>1. /\ Remembered'[id] = {Memory(slots'[i]) : i \in Holders(id)'}
        /\ Remembered[id] = {Memory(slots[i]) : i \in Holders(id)}
    BY DEF Remembered
  <2> QED
    BY <1>10, <1>13, <2>1
<1>14. Remembered' = [Remembered EXCEPT ![r.id] = {[expires |-> r.expires, status |-> s]}]
  <2>1. Remembered \in [Ids -> {Remembered[id] : id \in Ids}] /\ DOMAIN Remembered' = Ids
    BY DEF Remembered
  <2> QED
    BY <1>3, <1>12, <1>13, <2>1 DEF Remembered
<1>15. Answered' = {[request |-> Here(r), status |-> s]}
  BY <1>1 DEF Answered
<1>16. r.expires \in now + 1 .. now + Window
  BY <1>2, <1>3
<1> DEFINE a == Here(r)
<1>17. /\ a \in Answers!Requests /\ a.here /\ Remembered[a.id] = {}
       /\ a.expires \in now + 1 .. now + Window
  BY <1>2, <1>11, <1>16, HereRequest
<1>18. Remembered' = [Remembered EXCEPT ![a.id] = {[expires |-> a.expires, status |-> s]}]
  BY <1>14, HereRequest
<1>19. Answered' = {[request |-> a, status |-> s]} /\ UNCHANGED now
  BY <1>2, <1>15
<1> HIDE DEF a
<1> QED
  BY <1>17, <1>18, <1>19, MappedFirst

\* A refusal never hits a request that is remembered: the slot that matches it is the
\* only one with its identifier, and its deadline passes the checks again.
LEMMA RefusedIsUnknown ==
    ASSUME TableInv, NEW r \in Requests, Refused(r)
    PROVE  Answers!Next
<1>1. reply' = {} /\ UNCHANGED <<now, slots>>
  BY DEF Refused
<1>2. r.id \in Ids
  BY DEF Requests
<1>3. ASSUME NEW m \in Remembered[r.id], r.target = "here", m.expires = r.expires
      PROVE  FALSE
  <2>1. PICK i \in Holders(r.id) : m = Memory(slots[i])
    BY <1>2, RememberedFrom
  <2>2. i \in Matching(r) /\ Same(r, i)
    BY <1>3, <2>1 DEF Matching, Holders, Same, Memory
  <2>3. Valid(r)
    <3>1. /\ i \in Slots /\ i \notin Free /\ now \in Nat /\ Window \in Nat
          /\ slots[i].expires \in Nat /\ slots[i].expires <= now + Window
      BY <2>2, StatusAssumption DEF Matching, TableInv, TypeOK, Held, WithinWindow
    <3>2. r.expires = slots[i].expires /\ slots[i].expires > now
      BY <2>2, <3>1 DEF Same, Free
    <3> QED
      BY <1>3, <3>1, <3>2 DEF Valid
  <2>4. \A j \in Matching(r) : j = i
    BY <2>2 DEF Matching, TableInv, OneSlotPerId
  <2> QED
    BY <2>2, <2>3, <2>4 DEF Refused
<1>4. Answered' = {}
  BY <1>1 DEF Answered
<1>5. UNCHANGED <<now, Remembered>>
  BY <1>1 DEF Remembered, Holders, Free
<1> DEFINE a == Here(r)
<1>6. a \in Answers!Requests /\ \A m \in Remembered[a.id] : ~(a.here /\ m.expires = a.expires)
  BY <1>3, HereRequest
<1> HIDE DEF a
<1> QED
  BY <1>1, <1>4, <1>5, <1>6, MappedRefuse

LEMMA InitImplements == Init => Answers!Init
<1> SUFFICES ASSUME Init PROVE Answers!Init
  OBVIOUS
<1>1. now = 0 /\ reply = {}
  BY DEF Init
<1>2. \A i \in Slots : i \in Free
  <2> SUFFICES ASSUME NEW i \in Slots PROVE slots[i].expires <= now
    BY DEF Free
  <2>1. slots[i].expires = 0
    BY DEF Init
  <2> QED
    BY <1>1, <2>1
<1>3. \A id \in Ids : Holders(id) = {}
  BY <1>2 DEF Holders
<1>4. Remembered = [id \in Ids |-> {}]
  BY <1>3 DEF Remembered
<1>5. Answered = {}
  BY <1>1 DEF Answered
<1> QED
  BY <1>1, <1>4, <1>5, MappedInit

LEMMA StepImplements == TableInv /\ [Next]_vars => [Answers!Next]_(Answers!vars)
<1> SUFFICES ASSUME TableInv, [Next]_vars
             PROVE  [Answers!Next]_(Answers!vars)
  OBVIOUS
<1>1. CASE Tick
  BY <1>1, TickForgets
<1>2. ASSUME NEW r \in Requests, Cached(r) \/ Store(r) \/ Refused(r)
      PROVE  Answers!Next
  BY <1>2, CachedRepeats, StoreRemembers, RefusedIsUnknown
<1>3. CASE UNCHANGED vars
  <2>1. UNCHANGED <<now, Remembered, Answered>>
    BY <1>3 DEF vars, Remembered, Answered, Holders, Free
  <2> QED
    BY <2>1, MappedStutter
<1> QED
  BY <1>1, <1>2, <1>3 DEF Next

\* The table of fixed size keeps the promise of the endpoint for any number of slots,
\* any window and any requests: until its deadline an identifier stands for one request,
\* and each repetition is answered with the status given first (handle_frp_status).
THEOREM TableKeepsThePromise == Spec => AnswersOnce
BY InitImplements, StepImplements, TableInvAlways, PTL DEF Spec, AnswersOnce

-----------------------------------------------------------------------------
(* Lines of the USB port                                                     *)

ReaderTyped ==
    /\ fifo \in Seq(Reader!Bytes) /\ data \in Seq(Reader!Bytes)
    /\ bytes \in Seq(Reader!Bytes) /\ frame \in Seq(Reader!Bytes)
    /\ discard \in BOOLEAN /\ cut \in BOOLEAN
    /\ pc = "feed" => bytes # <<>>

\* What the reader still has to tell of the frame under way.
Dropped == cut \/ Reader!Contains(frame, Reader!Nul) \/ Len(frame) > LineLimit

\* The flag says whether the frame under way is lost, whatever made it so; and a frame
\* that is not lost is kept whole.
FrameKept ==
    /\ Len(frame) <= LineLimit + 1
    /\ discard <=> Dropped
    /\ ~discard => data = frame

ReaderInv == ReaderTyped /\ FrameKept /\ LinesIntact

LEMMA ContainsAppend ==
    ASSUME NEW S, NEW s \in Seq(S), NEW c \in S, NEW e
    PROVE  Reader!Contains(Append(s, c), e) <=> Reader!Contains(s, e) \/ c = e
BY DEF Reader!Contains

LEMMA SplitSeq ==
    ASSUME NEW S, NEW s \in Seq(S), NEW k \in Nat, k <= Len(s)
    PROVE  /\ SubSeq(s, 1, k) \in Seq(S) /\ Len(SubSeq(s, 1, k)) = k
           /\ SubSeq(s, k + 1, Len(s)) \in Seq(S)
<1>1. Len(s) \in Nat
  OBVIOUS
<1>2. \A i \in 1 .. Len(s) : s[i] \in S
  OBVIOUS
<1>3. \A i \in 1 .. k : s[i] \in S
  BY <1>1, <1>2
<1>4. \A i \in k + 1 .. Len(s) : s[i] \in S
  BY <1>1, <1>2
<1>5. SubSeq(s, 1, k) \in Seq(S)
  BY <1>1, <1>3, SubSeqProperties
<1>6. Len(SubSeq(s, 1, k)) = IF 1 <= k THEN k - 1 + 1 ELSE 0
  BY <1>1, <1>3, SubSeqProperties
<1>7. SubSeq(s, k + 1, Len(s)) \in Seq(S)
  BY <1>1, <1>4, SubSeqProperties
<1> QED
  BY <1>5, <1>6, <1>7

LEMMA ReaderInit == Reader!Init => ReaderInv
<1> SUFFICES ASSUME Reader!Init
             PROVE  ReaderInv
  OBVIOUS
<1>1. ReaderTyped
  BY EmptySeq DEF Reader!Init, ReaderTyped
<1>2. FrameKept
  BY InputAssumption DEF Reader!Init, FrameKept, Dropped, Reader!Contains, Reader!LineAssumption
<1>3. LinesIntact
  BY InputAssumption DEF Reader!Init, LinesIntact, Reader!LinesIntact, Reader!Contains,
     Reader!LineAssumption
<1> QED
  BY <1>1, <1>2, <1>3 DEF ReaderInv

\* A half frame that is given up is empty from then on, and marked.
LEMMA IdleDrops ==
    ASSUME ReaderInv, Reader!CheckIdle
    PROVE  ReaderInv'
<1> USE DEF ReaderInv
<1>1. ReaderTyped'
  BY EmptySeq DEF Reader!CheckIdle, ReaderTyped
<1>2. FrameKept'
  BY DEF Reader!CheckIdle, FrameKept, Dropped
<1>3. LinesIntact'
  BY DEF Reader!CheckIdle, LinesIntact, Reader!LinesIntact
<1> QED
  BY <1>1, <1>2, <1>3

\* Reading moves bytes and no frame.
LEMMA ReadingMoves ==
    ASSUME ReaderInv, Reader!ReadBytes
    PROVE  ReaderInv'
<1> DEFINE count == IF Len(fifo) < Burst THEN Len(fifo) ELSE Burst
<1> USE DEF ReaderInv, Reader!ReadBytes, Reader!reader, Reader!history
<1>1. ReaderTyped'
  <2>1. count \in Nat /\ count <= Len(fifo)
    BY InputAssumption DEF ReaderTyped, Reader!LineAssumption
  <2>2. fifo # <<>> => count > 0
    BY InputAssumption DEF ReaderTyped, Reader!LineAssumption
  <2>3. /\ bytes' = SubSeq(fifo, 1, count)
        /\ fifo' = SubSeq(fifo, count + 1, Len(fifo))
    BY DEF Reader!ReadBytes
  <2> HIDE DEF count
  <2>4. /\ bytes' \in Seq(Reader!Bytes) /\ Len(bytes') = count
        /\ fifo' \in Seq(Reader!Bytes)
    BY <2>1, <2>3, SplitSeq, ZenonT(60) DEF ReaderTyped
  <2> QED
    BY <2>2, <2>4, SMTT(40) DEF ReaderTyped
<1>2. FrameKept'
  BY DEF FrameKept, Dropped
<1>3. LinesIntact'
  BY DEF LinesIntact, Reader!LinesIntact
<1> QED
  BY <1>1, <1>2, <1>3

\* A newline hands over the frame, or the news of its loss, and begins another.
LEMMA NewlineHands ==
    ASSUME ReaderInv, Reader!FeedNewline
    PROVE  FrameKept' /\ LinesIntact'
<1> USE DEF ReaderInv, Reader!FeedNewline
<1>1. FrameKept'
  BY InputAssumption DEF FrameKept, Dropped, Reader!Contains, Reader!LineAssumption
<1>2. LinesIntact'
  <2>1. discard <=> Dropped
    BY DEF FrameKept
  <2>2. ~discard => data = frame
    BY DEF FrameKept
  <2> QED
    BY <2>1, <2>2 DEF LinesIntact, Reader!LinesIntact, Dropped
<1> QED
  BY <1>1, <1>2

\* A byte is kept, or its frame is marked as lost.
LEMMA ByteKept ==
    ASSUME ReaderInv, NEW byte \in Reader!Bytes, Reader!FeedByte(byte)
    PROVE  FrameKept' /\ LinesIntact'
<1> USE InputAssumption DEF ReaderInv, Reader!LineAssumption
<1>1. frame' = IF Len(frame) > LineLimit THEN frame ELSE Append(frame, byte)
  BY DEF Reader!FeedByte
<1>2. Reader!Contains(Append(frame, byte), Reader!Nul) <=> Reader!Contains(frame, Reader!Nul) \/ byte = Reader!Nul
  BY ContainsAppend DEF ReaderTyped
<1>3. Len(Append(frame, byte)) = Len(frame) + 1 /\ Len(frame) \in Nat
  BY DEF ReaderTyped
<1>4. FrameKept'
  <2>1. CASE discard
    BY <2>1, <1>1, <1>2, <1>3 DEF FrameKept, Dropped, Reader!FeedByte, ReaderTyped
  <2>2. CASE ~discard
    <3>1. data = frame /\ ~cut /\ Len(frame) <= LineLimit /\ ~Reader!Contains(frame, Reader!Nul)
      BY <2>2, <1>3 DEF FrameKept, Dropped
    <3>2. frame' = Append(frame, byte) /\ cut' = cut
      BY <3>1, <1>1, <1>3 DEF Reader!FeedByte
    <3>3. CASE byte = Reader!Nul \/ Len(data) = LineLimit
      BY <2>2, <3>1, <3>2, <3>3, <1>2, <1>3 DEF FrameKept, Dropped, Reader!FeedByte
    <3>4. CASE ~(byte = Reader!Nul \/ Len(data) = LineLimit)
      BY <2>2, <3>1, <3>2, <3>4, <1>2, <1>3 DEF FrameKept, Dropped, Reader!FeedByte
    <3> QED
      BY <3>3, <3>4
  <2> QED
    BY <2>1, <2>2
<1>5. LinesIntact'
  BY DEF LinesIntact, Reader!LinesIntact, Reader!FeedByte
<1> QED
  BY <1>4, <1>5

LEMMA FeedKeeps ==
    ASSUME ReaderInv, Reader!Feed
    PROVE  ReaderInv'
<1> USE DEF ReaderInv
<1>1. Head(bytes) \in Reader!Bytes /\ Tail(bytes) \in Seq(Reader!Bytes)
  <2>1. bytes \in Seq(Reader!Bytes) /\ bytes # <<>>
    BY DEF Reader!Feed, ReaderTyped
  <2> QED
    BY <2>1
<1>2. FrameKept' /\ LinesIntact'
  BY <1>1, NewlineHands, ByteKept DEF Reader!Feed
<1>3. ReaderTyped'
  <2>1. fifo' = fifo /\ bytes' = Tail(bytes) /\ (pc' = "feed" => Tail(bytes) # <<>>)
    BY DEF Reader!Feed
  <2> DEFINE b == Head(bytes)
  <2>2. Reader!FeedNewline \/ Reader!FeedByte(b)
    BY DEF Reader!Feed
  <2>3. /\ data' \in {<<>>, data, Append(data, b)} /\ discard' \in {TRUE, FALSE, discard}
        /\ frame' \in {<<>>, frame, Append(frame, b)} /\ cut' \in {FALSE, cut}
    <3>1. CASE Reader!FeedNewline
      BY <3>1 DEF Reader!FeedNewline
    <3>2. CASE Reader!FeedByte(b)
      <4> HIDE DEF b
      <4> QED
        BY <3>2 DEF Reader!FeedByte
    <3> QED
      BY <2>2, <3>1, <3>2
  <2>4. b \in Reader!Bytes
    BY <1>1
  <2> HIDE DEF b
  <2>5. discard' \in BOOLEAN /\ cut' \in BOOLEAN
    BY <2>3 DEF ReaderTyped
  <2>6. data' \in Seq(Reader!Bytes) /\ frame' \in Seq(Reader!Bytes)
    <3>1. /\ data \in Seq(Reader!Bytes) /\ Append(data, b) \in Seq(Reader!Bytes)
          /\ frame \in Seq(Reader!Bytes) /\ Append(frame, b) \in Seq(Reader!Bytes)
          /\ <<>> \in Seq(Reader!Bytes)
      BY <2>4, EmptySeq, AppendProperties DEF ReaderTyped
    <3> QED
      BY <2>3, <3>1
  <2> QED
    BY <1>1, <2>1, <2>5, <2>6 DEF ReaderTyped
<1> QED
  BY <1>2, <1>3

LEMMA ReaderStep == ReaderInv /\ [Reader!Next]_(Reader!vars) => ReaderInv'
<1> SUFFICES ASSUME ReaderInv, [Reader!Next]_(Reader!vars)
             PROVE  ReaderInv'
  OBVIOUS
<1>1. CASE Reader!HostSends
  BY <1>1 DEF Reader!HostSends, Reader!reader, Reader!history, ReaderInv, ReaderTyped,
     FrameKept, Dropped, LinesIntact, Reader!LinesIntact
<1>2. CASE Reader!Tick
  BY <1>2 DEF Reader!Tick, Reader!reader, Reader!history, ReaderInv, ReaderTyped,
     FrameKept, Dropped, LinesIntact, Reader!LinesIntact
<1>3. CASE UNCHANGED Reader!vars
  BY <1>3 DEF Reader!vars, Reader!reader, Reader!history, ReaderInv, ReaderTyped,
     FrameKept, Dropped, LinesIntact, Reader!LinesIntact
<1> QED
  BY <1>1, <1>2, <1>3, IdleDrops, ReadingMoves, FeedKeeps DEF Reader!Next

\* For any limits, bursts and idle time: between two newlines stands one request, and
\* what the handler gets is all of it or only the news that it was lost
\* (ebase_line_feed, and the half frame's timeout in control_task).
THEOREM RequestsStayWhole == MCSpec => []LinesIntact
<1>1. MCInit => ReaderInv
  BY ReaderInit DEF MCInit
<1>2. ReaderInv /\ [MCNext]_MCvars => ReaderInv'
  <2> SUFFICES ASSUME ReaderInv, [MCNext]_MCvars
               PROVE  ReaderInv'
    OBVIOUS
  <2>1. CASE UNCHANGED readerVars
    <3>1. UNCHANGED Reader!vars
      BY <2>1 DEF readerVars, Reader!vars, Reader!reader, Reader!history
    <3> QED
      BY <3>1, ReaderStep
  <2>2. CASE Reader!Next
    BY <2>2, ReaderStep
  <2> QED
    BY <2>1, <2>2 DEF MCNext, MCvars
<1>3. ReaderInv => LinesIntact
  BY DEF ReaderInv
<1> QED
  BY <1>1, <1>2, <1>3, PTL DEF MCSpec

-----------------------------------------------------------------------------
(* Documents: what the lookups and counts of the decoder amount to           *)

\* The cardinality that CommandDecoder counts with is that of the theorems.
LEMMA SameCardinality == \A S : Decoder!Cardinality(S) = Cardinality(S)
BY DEF Cardinality, Decoder!Cardinality, IsFiniteSet, Decoder!IsFiniteSet

\* Among the members of an object one has this key, at this place and no other.
Only(m, k, i) == \A j \in DOMAIN m : m[j].key = k <=> j = i

LEMMA ListLength ==
    ASSUME NEW m, Decoder!IsMemberList(m)
    PROVE  Len(m) \in Nat /\ DOMAIN m = 1 .. Len(m)
BY LenProperties DEF Decoder!IsMemberList

LEMMA OnceIsOnly ==
    ASSUME NEW m, Decoder!IsMemberList(m), NEW k
    PROVE  Decoder!Times(m, k) = 1 <=> \E i \in DOMAIN m : Only(m, k, i)
<1> DEFINE T == {i \in DOMAIN m : m[i].key = k}
<1>1. IsFiniteSet(T)
  <2>1. IsFiniteSet(DOMAIN m)
    BY ListLength, FS_Interval
  <2> QED
    BY <2>1, FS_Subset
<1>2. Cardinality(T) = 1 <=> \E i : T = {i}
  BY <1>1, FS_Singleton
<1>3. (\E i : T = {i}) <=> \E i \in DOMAIN m : Only(m, k, i)
  BY DEF Only
<1> QED
  BY <1>2, <1>3, SameCardinality DEF Decoder!Times

\* The lookup, which stops at the first member with the key, finds the only one.
LEMMA ItemOfOnly ==
    ASSUME NEW m, Decoder!IsMemberList(m), NEW k, NEW i \in DOMAIN m, Only(m, k, i)
    PROVE  Decoder!Item(m, k) = m[i].value
<1>1. i \in Nat /\ 1 <= i /\ DOMAIN m = 1 .. Len(m)
  BY ListLength
<1>2. {j \in 1 .. Len(m) : m[j].key = k} = {i}
  BY <1>1 DEF Only
<1>3. Decoder!Min({i}) = i
  BY <1>1 DEF Decoder!Min
<1>4. Decoder!SelectInSeq(m, LAMBDA member : member.key = k) = i
  BY <1>2, <1>3 DEF Decoder!SelectInSeq
<1> QED
  BY <1>1, <1>4 DEF Decoder!Item

\* As many members as keys and each key once: the members' keys are the keys, and none
\* comes twice (the pigeonhole principle).
LEMMA ExactlyTheKeys ==
    ASSUME NEW m, Decoder!IsMemberList(m), NEW keys, IsFiniteSet(keys)
    PROVE  Decoder!ExactKeys(m, keys) <=>
              /\ Len(m) = Cardinality(keys)
              /\ {m[i].key : i \in DOMAIN m} = keys
<1> DEFINE places == DOMAIN m
           key == [i \in places |-> m[i].key]
<1>1. /\ IsFiniteSet(places) /\ Cardinality(places) = Len(m)
  <2>1. Len(m) \in Nat /\ places = 1 .. Len(m)
    BY ListLength
  <2>2. IsFiniteSet(1 .. Len(m)) /\ Cardinality(1 .. Len(m)) = Len(m)
    <3> DEFINE n == Len(m)
    <3>1. n \in Int /\ n >= 0
      BY <2>1
    <3> HIDE DEF n
    <3>2. /\ IsFiniteSet(1 .. n)
          /\ Cardinality(1 .. n) = IF 1 > n THEN 0 ELSE n - 1 + 1
      BY <3>1, FS_Interval
    <3>3. Cardinality(1 .. n) = n
      BY <3>1, <3>2
    <3> QED
      BY <3>2, <3>3 DEF n
  <2> QED
    BY <2>1, <2>2
<1>2. ASSUME Decoder!ExactKeys(m, keys)
      PROVE  {m[i].key : i \in DOMAIN m} = keys
  <2> DEFINE place == [k \in keys |-> CHOOSE i \in places : Only(m, k, i)]
  <2>1. \A k \in keys : place[k] \in places /\ Only(m, k, place[k])
    BY <1>2, OnceIsOnly DEF Decoder!ExactKeys
  <2>2. place \in [keys -> places]
    BY <2>1
  <2>3. \A k \in keys : m[place[k]].key = k
    BY <2>1 DEF Only
  <2> HIDE DEF place
  <2>4. place \in Injection(keys, places)
    BY <2>2, <2>3 DEF Injection, IsInjective
  <2>5. place \in Surjection(keys, places)
    <3>1. Cardinality(keys) = Cardinality(places)
      BY <1>1, <1>2, SameCardinality DEF Decoder!ExactKeys
    <3> QED
      BY <1>1, <2>4, <3>1, FS_Injection
  <2>6. \A i \in places : \E k \in keys : place[k] = i
    BY <2>5 DEF Surjection
  <2> QED
    BY <2>2, <2>3, <2>6
<1>3. ASSUME Len(m) = Cardinality(keys), {m[i].key : i \in DOMAIN m} = keys
      PROVE  Decoder!ExactKeys(m, keys)
  <2>1. key \in Surjection(places, keys)
    BY <1>3 DEF Surjection
  <2>2. key \in Injection(places, keys)
    BY <1>1, <1>3, <2>1, FS_SurjSameCardinalityImpliesInj
  <2>3. \A i, j \in places : m[i].key = m[j].key => i = j
    BY <2>2 DEF Injection, IsInjective
  <2>4. \A k \in keys : \E i \in places : Only(m, k, i)
    BY <1>3, <2>3 DEF Only
  <2> QED
    BY <1>3, <2>4, OnceIsOnly, SameCardinality DEF Decoder!ExactKeys
<1> QED
  BY <1>2, <1>3, SameCardinality DEF Decoder!ExactKeys

\* Counting keys and looking up values is the same as the form of the grammar.
LEMMA FillsIsForm ==
    ASSUME NEW m, Decoder!IsMemberList(m), NEW fields, IsFiniteSet(DOMAIN fields)
    PROVE  Decoder!Fills(m, fields) <=> Decoder!Form(m, fields)
<1> DEFINE keys == DOMAIN fields
<1>1. Decoder!ExactKeys(m, keys) =>
         (Decoder!Fit(m, fields) <=> \A i \in DOMAIN m : m[i].value \in fields[m[i].key])
  <2> SUFFICES ASSUME Decoder!ExactKeys(m, keys)
               PROVE  Decoder!Fit(m, fields) <=>
                         \A i \in DOMAIN m : m[i].value \in fields[m[i].key]
    OBVIOUS
  <2>1. \A k \in keys : \E i \in DOMAIN m : Only(m, k, i)
    BY OnceIsOnly DEF Decoder!ExactKeys
  <2>2. {m[i].key : i \in DOMAIN m} = keys
    BY ExactlyTheKeys
  <2>3. \A i \in DOMAIN m : m[i].key \in keys /\ Only(m, m[i].key, i)
    BY <2>1, <2>2 DEF Only
  <2>4. \A i \in DOMAIN m : Decoder!Item(m, m[i].key) = m[i].value
    BY <2>3, ItemOfOnly
  <2>5. \A k \in keys : \E i \in DOMAIN m : m[i].key = k
    BY <2>1 DEF Only
  <2> QED
    BY <2>3, <2>4, <2>5 DEF Decoder!Fit
<1> QED
  BY <1>1, ExactlyTheKeys, SameCardinality DEF Decoder!Fills, Decoder!Form

\* The only member with a key, as the grammar sees it and as the lookup does.
LEMMA MemberIsItem ==
    ASSUME NEW m, Decoder!IsMemberList(m), NEW k, NEW v, Decoder!Times(m, k) = 1
    PROVE  [key |-> k, value |-> v] \in Decoder!ToSet(m) <=> Decoder!Item(m, k) = v
<1>1. PICK i \in DOMAIN m : Only(m, k, i)
  BY OnceIsOnly
<1>2. Decoder!Item(m, k) = m[i].value
  BY <1>1, ItemOfOnly
<1>3. \A j \in DOMAIN m : m[j] = [key |-> m[j].key, value |-> m[j].value]
  BY DEF Decoder!IsMemberList
<1>4. \A j \in DOMAIN m : m[j] = [key |-> k, value |-> v] <=> j = i /\ m[j].value = v
  BY <1>1, <1>3 DEF Only
<1>5. Decoder!ToSet(m) = {m[j] : j \in DOMAIN m}
  BY DEF Decoder!ToSet
<1> QED
  BY <1>2, <1>4, <1>5

\* The form of the fields of two tables.
LEMMA FormOfBoth ==
    ASSUME NEW m, Decoder!IsMemberList(m), NEW f, NEW g,
           IsFiniteSet(DOMAIN f), IsFiniteSet(DOMAIN g), DOMAIN f \cap DOMAIN g = {}
    PROVE  Decoder!Form(m, Decoder!Both(f, g)) <=>
              /\ Decoder!ExactKeys(m, DOMAIN f \cup DOMAIN g)
              /\ Decoder!Fit(m, f) /\ Decoder!Fit(m, g)
<1> DEFINE both == Decoder!Both(f, g)
<1>1. DOMAIN both = DOMAIN f \cup DOMAIN g
  BY DEF Decoder!Both
<1>2. /\ \A k \in DOMAIN f : both[k] = f[k]
      /\ \A k \in DOMAIN g : both[k] = g[k]
  BY DEF Decoder!Both
<1>3. IsFiniteSet(DOMAIN both)
  BY <1>1, FS_Union
<1> HIDE DEF both
<1>4. Decoder!Fit(m, both) <=> Decoder!Fit(m, f) /\ Decoder!Fit(m, g)
  BY <1>1, <1>2 DEF Decoder!Fit
<1>5. Decoder!Form(m, both) <=> Decoder!ExactKeys(m, DOMAIN both) /\ Decoder!Fit(m, both)
  BY <1>3, FillsIsForm DEF Decoder!Fills
<1> QED
  BY <1>1, <1>4, <1>5 DEF both

-----------------------------------------------------------------------------
(* Documents: the tables                                                     *)

StatusKeys == {"protocol_version", "request_id"}
WriteKeys == StatusKeys \cup {"device_id", "target_boot_id", "expires_at_uptime_ms"}

LEMMA FieldNames ==
    /\ DOMAIN Decoder!StatusFields = StatusKeys
    /\ DOMAIN Decoder!WriteFields = WriteKeys
    /\ DOMAIN Decoder!Fields.query = {"operation_id"}
    /\ DOMAIN Decoder!Fields.ota =
          {"operation_id", "image_url", "sha256", "image_size_bytes", "target", "signature"}
    /\ DOMAIN Decoder!Fields.signature = {"scheme"}
    /\ DOMAIN Decoder!Fields.set = {"expected_revision", "config"}
    /\ DOMAIN Decoder!Fields.config = {"schema_version", "wifi", "mqtt", "frp"}
    /\ DOMAIN Decoder!Fields.wifi = {"ssid", "password"}
    /\ DOMAIN Decoder!Fields.mqtt =
          {"hostname", "port", "username", "password", "ca_pem", "management_key_hex"}
    /\ DOMAIN Decoder!Fields.frp =
          {"server_hostname", "server_port", "token", "ca_pem", "proxy_name", "remote_port",
           "local_port", "management_key_hex"}
<1>1. DOMAIN Decoder!StatusFields = StatusKeys
  BY DEF Decoder!StatusFields, StatusKeys
<1>2. DOMAIN Decoder!WriteFields = WriteKeys
  BY <1>1 DEF Decoder!WriteFields, Decoder!Both, WriteKeys
<1> QED
  BY <1>1, <1>2 DEF Decoder!Fields

LEMMA FiniteNames ==
    /\ IsFiniteSet({}) /\ \A a : IsFiniteSet({a})
    /\ \A a, b : IsFiniteSet({a, b})
    /\ \A a, b, c : IsFiniteSet({a, b, c})
    /\ \A a, b, c, d : IsFiniteSet({a, b, c, d})
<1>1. \A S, x : IsFiniteSet(S) => IsFiniteSet(S \cup {x})
  BY FS_AddElement
<1>2. \A a : IsFiniteSet({a})
  BY FS_Singleton
<1>3. \A a, b : IsFiniteSet({a, b})
  <2> TAKE a, b
  <2>1. {a, b} = {a} \cup {b}
    OBVIOUS
  <2> QED
    BY <1>1, <1>2, <2>1, ZenonT(60)
<1>4. \A a, b, c : IsFiniteSet({a, b, c})
  <2> TAKE a, b, c
  <2>1. IsFiniteSet({a, b} \cup {c})
    BY <1>1, <1>3
  <2>2. {a, b, c} = {a, b} \cup {c}
    OBVIOUS
  <2> QED
    BY <2>1, <2>2, Zenon
<1>5. \A a, b, c, d : IsFiniteSet({a, b, c, d})
  <2> TAKE a, b, c, d
  <2>1. IsFiniteSet({a, b, c} \cup {d})
    BY <1>1, <1>4
  <2>2. {a, b, c, d} = {a, b, c} \cup {d}
    OBVIOUS
  <2> QED
    BY <2>1, <2>2, Zenon
<1> QED
  BY <1>2, <1>3, <1>4, <1>5, FS_EmptySet

\* Every table has finitely many fields.
LEMMA FiniteTables ==
    /\ IsFiniteSet(DOMAIN Decoder!StatusFields)
    /\ IsFiniteSet(DOMAIN Decoder!WriteFields)
    /\ \A name \in DOMAIN Decoder!Fields : IsFiniteSet(DOMAIN Decoder!Fields[name])
<1>1. \A S, T : IsFiniteSet(S) /\ IsFiniteSet(T) => IsFiniteSet(S \cup T)
  BY FS_Union
<1>2. IsFiniteSet(StatusKeys)
  BY FiniteNames DEF StatusKeys
<1>3. IsFiniteSet(WriteKeys)
  BY <1>1, <1>2, FiniteNames DEF WriteKeys
<1>4. /\ IsFiniteSet({"operation_id"}) /\ IsFiniteSet({"scheme"})
      /\ IsFiniteSet({"expected_revision", "config"}) /\ IsFiniteSet({"ssid", "password"})
      /\ IsFiniteSet({"schema_version", "wifi", "mqtt", "frp"})
  BY FiniteNames, Zenon
<1>5. IsFiniteSet(DOMAIN Decoder!Fields.ota)
  <2>1. IsFiniteSet({"operation_id", "image_url", "sha256", "image_size_bytes"})
    BY FiniteNames, Zenon
  <2>2. IsFiniteSet({"target", "signature"})
    BY FiniteNames, Zenon
  <2>3. DOMAIN Decoder!Fields.ota =
           {"operation_id", "image_url", "sha256", "image_size_bytes"}
              \cup {"target", "signature"}
    BY FieldNames
  <2> QED
    BY <1>1, <2>1, <2>2, <2>3
<1>6. IsFiniteSet(DOMAIN Decoder!Fields.mqtt)
  <2>1. IsFiniteSet({"hostname", "port", "username", "password"})
    BY FiniteNames, Zenon
  <2>2. IsFiniteSet({"ca_pem", "management_key_hex"})
    BY FiniteNames, Zenon
  <2>3. DOMAIN Decoder!Fields.mqtt =
           {"hostname", "port", "username", "password"}
              \cup {"ca_pem", "management_key_hex"}
    BY FieldNames
  <2> QED
    BY <1>1, <2>1, <2>2, <2>3
<1>7. IsFiniteSet(DOMAIN Decoder!Fields.frp)
  <2>1. IsFiniteSet({"server_hostname", "server_port", "token", "ca_pem"})
    BY FiniteNames, Zenon
  <2>2. IsFiniteSet({"proxy_name", "remote_port", "local_port", "management_key_hex"})
    BY FiniteNames, Zenon
  <2>3. DOMAIN Decoder!Fields.frp =
           {"server_hostname", "server_port", "token", "ca_pem"}
              \cup {"proxy_name", "remote_port", "local_port", "management_key_hex"}
    BY FieldNames
  <2> QED
    BY <1>1, <2>1, <2>2, <2>3
<1>8. DOMAIN Decoder!Fields =
         {"query", "ota", "signature", "set", "config", "wifi", "mqtt", "frp"}
  BY DEF Decoder!Fields
<1> QED
  BY <1>2, <1>3, <1>4, <1>5, <1>6, <1>7, <1>8, FieldNames

LEMMA WordsDiffer ==
    /\ \A a, b : Decoder!Word(a) = Decoder!Word(b) => a = b
    /\ \A a : Decoder!Word(a).type = "string"
    /\ \A a : Decoder!Word(a) # Decoder!Missing
BY DEF Decoder!Word, Decoder!Text, Decoder!Missing

-----------------------------------------------------------------------------
(* Documents: the head and the body of each command                          *)

Named(c) == [command |-> {Decoder!Word(c)}]
NamedAndNested(c) == [command |-> {Decoder!Word(c)}, parameters |-> {Decoder!Object}]

LEMMA ObjectsAreLists ==
    ASSUME NEW d, Decoder!IsDocument(d)
    PROVE  /\ Decoder!IsMemberList(d.root) /\ Decoder!IsMemberList(d.parameters)
           /\ Decoder!IsMemberList(d.signature) /\ Decoder!IsMemberList(d.config)
           /\ \A name \in {"wifi", "mqtt", "frp"} : Decoder!IsMemberList(d[name])
           /\ d.framed \in BOOLEAN /\ d.valid \in BOOLEAN
BY DEF Decoder!IsDocument, Decoder!Parts

\* The grammar's root objects, in terms of the decoder's checks.
LEMMA RootForms ==
    ASSUME NEW d, Decoder!IsDocument(d), NEW c
    PROVE  /\ Decoder!Form(d.root, Decoder!Both(Named(c), Decoder!StatusFields)) <=>
                 /\ Decoder!Command(d) = Decoder!Word(c)
                 /\ Decoder!ExactKeys(d.root, DOMAIN Decoder!StatusFields \cup {"command"})
                 /\ Decoder!Fit(d.root, Decoder!StatusFields)
           /\ Decoder!Form(d.root, Decoder!Both(NamedAndNested(c), Decoder!StatusFields)) <=>
                 /\ Decoder!Command(d) = Decoder!Word(c)
                 /\ Decoder!Item(d.root, "parameters") = Decoder!Object
                 /\ Decoder!ExactKeys(d.root,
                       DOMAIN Decoder!StatusFields \cup {"command"} \cup {"parameters"})
                 /\ Decoder!Fit(d.root, Decoder!StatusFields)
           /\ Decoder!Form(d.root, Decoder!Both(NamedAndNested(c), Decoder!WriteFields)) <=>
                 /\ Decoder!Command(d) = Decoder!Word(c)
                 /\ Decoder!Item(d.root, "parameters") = Decoder!Object
                 /\ Decoder!ExactKeys(d.root,
                       DOMAIN Decoder!WriteFields \cup {"command", "parameters"})
                 /\ Decoder!Fit(d.root, Decoder!WriteFields)
           /\ Decoder!Form(d.root, Decoder!Both(Named(c), Decoder!WriteFields)) <=>
                 Decoder!Fills(d.root, Decoder!Both(Named(c), Decoder!WriteFields))
<1> DEFINE root == d.root
<1>1. Decoder!IsMemberList(root)
  BY ObjectsAreLists
<1>2. /\ DOMAIN Named(c) = {"command"}
      /\ Decoder!Fit(root, Named(c)) <=> Decoder!Item(root, "command") = Decoder!Word(c)
  BY DEF Named, Decoder!Fit
<1>3. /\ DOMAIN NamedAndNested(c) = {"command", "parameters"}
      /\ Decoder!Fit(root, NamedAndNested(c)) <=>
            /\ Decoder!Item(root, "command") = Decoder!Word(c)
            /\ Decoder!Item(root, "parameters") = Decoder!Object
  BY DEF NamedAndNested, Decoder!Fit
<1>4. /\ IsFiniteSet(DOMAIN Named(c)) /\ IsFiniteSet(DOMAIN NamedAndNested(c))
  BY <1>2, <1>3, FiniteNames, ZenonT(60)
<1>5. /\ DOMAIN Named(c) \cap DOMAIN Decoder!StatusFields = {}
      /\ DOMAIN NamedAndNested(c) \cap DOMAIN Decoder!StatusFields = {}
      /\ DOMAIN NamedAndNested(c) \cap DOMAIN Decoder!WriteFields = {}
      /\ DOMAIN Named(c) \cap DOMAIN Decoder!WriteFields = {}
  BY <1>2, <1>3, FieldNames DEF StatusKeys, WriteKeys
<1>6. /\ DOMAIN Named(c) \cup DOMAIN Decoder!StatusFields
            = DOMAIN Decoder!StatusFields \cup {"command"}
      /\ DOMAIN NamedAndNested(c) \cup DOMAIN Decoder!StatusFields
            = DOMAIN Decoder!StatusFields \cup {"command"} \cup {"parameters"}
      /\ DOMAIN NamedAndNested(c) \cup DOMAIN Decoder!WriteFields
            = DOMAIN Decoder!WriteFields \cup {"command", "parameters"}
  BY <1>2, <1>3
<1>7. Decoder!Command(d) = Decoder!Item(root, "command")
  BY DEF Decoder!Command
<1> HIDE DEF root
<1>8. Decoder!Form(root, Decoder!Both(Named(c), Decoder!StatusFields)) <=>
         /\ Decoder!ExactKeys(root, DOMAIN Named(c) \cup DOMAIN Decoder!StatusFields)
         /\ Decoder!Fit(root, Named(c)) /\ Decoder!Fit(root, Decoder!StatusFields)
  BY <1>1, <1>4, <1>5, FiniteTables, FormOfBoth
<1>9. Decoder!Form(root, Decoder!Both(NamedAndNested(c), Decoder!StatusFields)) <=>
         /\ Decoder!ExactKeys(root, DOMAIN NamedAndNested(c) \cup DOMAIN Decoder!StatusFields)
         /\ Decoder!Fit(root, NamedAndNested(c)) /\ Decoder!Fit(root, Decoder!StatusFields)
  BY <1>1, <1>4, <1>5, FiniteTables, FormOfBoth
<1>10. Decoder!Form(root, Decoder!Both(NamedAndNested(c), Decoder!WriteFields)) <=>
         /\ Decoder!ExactKeys(root, DOMAIN NamedAndNested(c) \cup DOMAIN Decoder!WriteFields)
         /\ Decoder!Fit(root, NamedAndNested(c)) /\ Decoder!Fit(root, Decoder!WriteFields)
  BY <1>1, <1>4, <1>5, FiniteTables, FormOfBoth
<1>11. Decoder!Form(root, Decoder!Both(Named(c), Decoder!WriteFields)) <=>
         Decoder!Fills(root, Decoder!Both(Named(c), Decoder!WriteFields))
  <2>1. DOMAIN Decoder!Both(Named(c), Decoder!WriteFields)
           = DOMAIN Named(c) \cup DOMAIN Decoder!WriteFields
    BY DEF Decoder!Both
  <2>2. IsFiniteSet(DOMAIN Decoder!Both(Named(c), Decoder!WriteFields))
    BY <1>4, <2>1, FiniteTables, FS_Union
  <2> QED
    BY <1>1, <2>2, FillsIsForm
<1> QED
  BY <1>2, <1>3, <1>6, <1>7, <1>8, <1>9, <1>10, <1>11 DEF root

\* What the checks that every command passes first say, by command.
LEMMA HeadOf ==
    ASSUME NEW d, Decoder!IsDocument(d)
    PROVE  /\ Decoder!Command(d) = Decoder!Word("status") =>
                 (Decoder!HeadFits(d) <=>
                    /\ d.framed
                    /\ Decoder!ExactKeys(d.root, DOMAIN Decoder!StatusFields \cup {"command"})
                    /\ Decoder!Fit(d.root, Decoder!StatusFields))
           /\ Decoder!Command(d) = Decoder!Word("ota.result") =>
                 (Decoder!HeadFits(d) <=>
                    /\ d.framed
                    /\ Decoder!ExactKeys(d.root,
                          DOMAIN Decoder!StatusFields \cup {"command"} \cup {"parameters"})
                    /\ Decoder!Fit(d.root, Decoder!StatusFields))
           /\ \A c \in {"ota.start", "config.set", "restart"} :
                 Decoder!Command(d) = Decoder!Word(c) =>
                    (Decoder!HeadFits(d) <=>
                       /\ d.framed
                       /\ Decoder!ExactKeys(d.root,
                             DOMAIN Decoder!WriteFields \cup {"command", "parameters"})
                       /\ Decoder!Fit(d.root, Decoder!StatusFields))
           /\ Decoder!Fit(d.root, Decoder!WriteFields) => Decoder!Fit(d.root, Decoder!StatusFields)
<1>1. Decoder!Fit(d.root, Decoder!WriteFields) => Decoder!Fit(d.root, Decoder!StatusFields)
  <2>1. \A k \in DOMAIN Decoder!StatusFields :
           /\ k \in DOMAIN Decoder!WriteFields
           /\ Decoder!WriteFields[k] = Decoder!StatusFields[k]
    BY FieldNames DEF StatusKeys, WriteKeys, Decoder!WriteFields, Decoder!Both
  <2> QED
    BY <2>1 DEF Decoder!Fit
<1>2. \A c : Decoder!Command(d) = Decoder!Word(c) =>
         (Decoder!HeadFits(d) <=> /\ d.framed
                                  /\ Decoder!ExactKeys(d.root, Decoder!RootKeys(d))
                                  /\ Decoder!Fit(d.root, Decoder!StatusFields))
  BY WordsDiffer DEF Decoder!HeadFits
<1>3. Decoder!Command(d) = Decoder!Word("status") =>
         Decoder!RootKeys(d) = DOMAIN Decoder!StatusFields \cup {"command"}
  BY DEF Decoder!RootKeys
<1>4. Decoder!Command(d) = Decoder!Word("ota.result") =>
         Decoder!RootKeys(d) = DOMAIN Decoder!StatusFields \cup {"command"} \cup {"parameters"}
  BY WordsDiffer DEF Decoder!RootKeys
<1>5. \A c \in {"ota.start", "config.set", "restart"} :
         Decoder!Command(d) = Decoder!Word(c) =>
            Decoder!RootKeys(d) = DOMAIN Decoder!WriteFields \cup {"command", "parameters"}
  BY WordsDiffer DEF Decoder!RootKeys
<1> QED
  BY <1>1, <1>2, <1>3, <1>4, <1>5

LEMMA TableForms ==
    ASSUME NEW m, Decoder!IsMemberList(m), NEW name \in DOMAIN Decoder!Fields
    PROVE  Decoder!Fills(m, Decoder!Fields[name]) <=> Decoder!Form(m, Decoder!Fields[name])
BY FiniteTables, FillsIsForm

LEMMA TableNames ==
    DOMAIN Decoder!Fields = {"query", "ota", "signature", "set", "config", "wifi", "mqtt", "frp"}
BY DEF Decoder!Fields

LEMMA StatusConforms ==
    ASSUME NEW d, Decoder!IsDocument(d)
    PROVE  Decoder!Conforms(d, "status") <=>
              Decoder!Command(d) = Decoder!Word("status") /\ Decoder!HeadFits(d)
<1>1. Decoder!Conforms(d, "status") <=>
         d.framed /\ Decoder!Form(d.root, Decoder!Both(Named("status"), Decoder!StatusFields))
  BY DEF Decoder!Conforms, Named
<1> QED
  BY <1>1, RootForms, HeadOf, Zenon

LEMMA QueryConforms ==
    ASSUME NEW d, Decoder!IsDocument(d)
    PROVE  Decoder!Conforms(d, "ota.result") <=>
              /\ Decoder!Command(d) = Decoder!Word("ota.result") /\ Decoder!HeadFits(d)
              /\ Decoder!Parameters(d, Decoder!Fields.query)
<1>1. Decoder!Conforms(d, "ota.result") <=>
         /\ d.framed
         /\ Decoder!Form(d.root, Decoder!Both(NamedAndNested("ota.result"), Decoder!StatusFields))
         /\ Decoder!Form(d.parameters, Decoder!Fields.query)
  BY DEF Decoder!Conforms, NamedAndNested
<1>2. Decoder!Parameters(d, Decoder!Fields.query) <=>
         /\ Decoder!Item(d.root, "parameters") = Decoder!Object
         /\ Decoder!Form(d.parameters, Decoder!Fields.query)
  BY TableForms, TableNames, ObjectsAreLists DEF Decoder!Parameters
<1> QED
  BY <1>1, <1>2, RootForms, HeadOf, Zenon

\* What the three writes have in common.
WriteHead(d, c) ==
    /\ Decoder!Command(d) = Decoder!Word(c) /\ Decoder!HeadFits(d)
    /\ Decoder!Fit(d.root, Decoder!WriteFields)
    /\ Decoder!Item(d.root, "parameters") = Decoder!Object

LEMMA WriteHeadForm ==
    ASSUME NEW d, Decoder!IsDocument(d),
           NEW c \in {"ota.start", "config.set", "restart"}
    PROVE  d.framed /\ Decoder!Form(d.root, Decoder!Both(NamedAndNested(c), Decoder!WriteFields))
              <=> WriteHead(d, c)
<1>1. Decoder!Command(d) = Decoder!Word(c) =>
         (Decoder!HeadFits(d) <=>
            /\ d.framed
            /\ Decoder!ExactKeys(d.root, DOMAIN Decoder!WriteFields \cup {"command", "parameters"})
            /\ Decoder!Fit(d.root, Decoder!StatusFields))
  BY HeadOf
<1>2. Decoder!Fit(d.root, Decoder!WriteFields) => Decoder!Fit(d.root, Decoder!StatusFields)
  BY HeadOf
<1>3. Decoder!Form(d.root, Decoder!Both(NamedAndNested(c), Decoder!WriteFields)) <=>
         /\ Decoder!Command(d) = Decoder!Word(c)
         /\ Decoder!Item(d.root, "parameters") = Decoder!Object
         /\ Decoder!ExactKeys(d.root, DOMAIN Decoder!WriteFields \cup {"command", "parameters"})
         /\ Decoder!Fit(d.root, Decoder!WriteFields)
  BY RootForms
<1> QED
  BY <1>1, <1>2, <1>3, Zenon DEF WriteHead

LEMMA RestartConforms ==
    ASSUME NEW d, Decoder!IsDocument(d)
    PROVE  Decoder!Conforms(d, "restart") <=> WriteHead(d, "restart") /\ d.parameters = <<>>
<1>1. Decoder!Conforms(d, "restart") <=>
         /\ d.framed
         /\ Decoder!Form(d.root, Decoder!Both(NamedAndNested("restart"), Decoder!WriteFields))
         /\ d.parameters = <<>>
  BY DEF Decoder!Conforms, NamedAndNested
<1> QED
  BY <1>1, WriteHeadForm

LEMMA OtaConforms ==
    ASSUME NEW d, Decoder!IsDocument(d)
    PROVE  Decoder!Conforms(d, "ota.start") <=> WriteHead(d, "ota.start") /\ Decoder!OtaFits(d)
<1>1. Decoder!Conforms(d, "ota.start") <=>
         /\ d.framed
         /\ Decoder!Form(d.root, Decoder!Both(NamedAndNested("ota.start"), Decoder!WriteFields))
         /\ Decoder!Form(d.parameters, Decoder!Fields.ota)
         /\ Decoder!Form(d.signature, Decoder!Fields.signature)
  BY DEF Decoder!Conforms, NamedAndNested
<1>2. Decoder!OtaFits(d) <=>
         /\ Decoder!Item(d.root, "parameters") = Decoder!Object
         /\ Decoder!Form(d.parameters, Decoder!Fields.ota)
         /\ Decoder!Form(d.signature, Decoder!Fields.signature)
  BY TableForms, TableNames, ObjectsAreLists DEF Decoder!Parameters, Decoder!OtaFits
<1> QED
  BY <1>1, <1>2, WriteHeadForm DEF WriteHead

\* The configuration's own members: the decoder looks at some of them by name and at the
\* sections one by one, the grammar at all alike.
ConfigForm(d) ==
    Decoder!Form(d.config, Decoder!Both([business |-> {Decoder!Null}], Decoder!Fields.config))

Opened(d, name) == [key |-> name, value |-> Decoder!Object] \in Decoder!ToSet(d.config)

LEMMA ConfigForms ==
    ASSUME NEW d, Decoder!IsDocument(d)
    PROVE  /\ ConfigForm(d)
           /\ \A name \in {"wifi", "mqtt", "frp"} :
                 Opened(d, name) => Decoder!Form(d[name], Decoder!Fields[name])
           <=>
           /\ Decoder!ExactKeys(d.config, DOMAIN Decoder!Fields.config \cup {"business"})
           /\ Decoder!Item(d.config, "schema_version") = Decoder!Number(3)
           /\ Decoder!Item(d.config, "business") = Decoder!Null
           /\ Decoder!SectionsFit(d)
<1> DEFINE m == d.config
           keys == DOMAIN Decoder!Fields.config \cup {"business"}
           business == [business |-> {Decoder!Null}]
           sections == {"wifi", "mqtt", "frp"}
           head == /\ Decoder!ExactKeys(m, keys)
                   /\ Decoder!Item(m, "schema_version") = Decoder!Number(3)
                   /\ Decoder!Item(m, "business") = Decoder!Null
<1>1. Decoder!IsMemberList(m)
  BY ObjectsAreLists
<1>2. ConfigForm(d) <=>
         head /\ \A name \in sections : Decoder!Item(m, name) \in Decoder!Section
  <2>1. DOMAIN business = {"business"} /\ IsFiniteSet(DOMAIN business)
    BY FiniteNames
  <2>2. IsFiniteSet(DOMAIN Decoder!Fields.config)
    BY FiniteTables, TableNames
  <2>3. DOMAIN business \cap DOMAIN Decoder!Fields.config = {}
    BY <2>1, FieldNames
  <2>4. ConfigForm(d) <=>
           /\ Decoder!ExactKeys(m, DOMAIN business \cup DOMAIN Decoder!Fields.config)
           /\ Decoder!Fit(m, business) /\ Decoder!Fit(m, Decoder!Fields.config)
    BY <1>1, <2>1, <2>2, <2>3, FormOfBoth DEF ConfigForm
  <2>5. DOMAIN business \cup DOMAIN Decoder!Fields.config = keys
    BY <2>1
  <2>6. Decoder!Fit(m, business) <=> Decoder!Item(m, "business") = Decoder!Null
    BY DEF Decoder!Fit
  <2>7. Decoder!Fit(m, Decoder!Fields.config) <=>
           /\ Decoder!Item(m, "schema_version") = Decoder!Number(3)
           /\ \A name \in sections : Decoder!Item(m, name) \in Decoder!Section
    BY FieldNames DEF Decoder!Fit, Decoder!Fields
  <2> QED
    BY <2>4, <2>5, <2>6, <2>7
<1>3. Decoder!SectionsFit(d) <=>
         \A name \in sections :
            /\ Decoder!Item(m, name) \in Decoder!Section
            /\ Decoder!Item(m, name) = Decoder!Object =>
                  Decoder!Form(d[name], Decoder!Fields[name])
  <2>1. \A name \in sections :
           Decoder!Fills(d[name], Decoder!Fields[name]) <=>
              Decoder!Form(d[name], Decoder!Fields[name])
    BY TableForms, TableNames, ObjectsAreLists
  <2>2. Decoder!Null # Decoder!Object
    BY DEF Decoder!Null, Decoder!Object
  <2> QED
    BY <2>1, <2>2 DEF Decoder!SectionsFit, Decoder!Section
<1>4. head => \A name \in sections : Opened(d, name) <=> Decoder!Item(m, name) = Decoder!Object
  <2>1. sections \subseteq keys
    BY FieldNames
  <2> QED
    BY <1>1, <2>1, MemberIsItem DEF Decoder!ExactKeys, Opened
<1> HIDE DEF m, keys, sections
<1>5. head <=> /\ Decoder!ExactKeys(m, keys)
               /\ Decoder!Item(m, "schema_version") = Decoder!Number(3)
               /\ Decoder!Item(m, "business") = Decoder!Null
  OBVIOUS
<1> HIDE DEF head
<1> QED
  BY <1>2, <1>3, <1>4, <1>5 DEF m, keys, sections

LEMMA ConfigConforms ==
    ASSUME NEW d, Decoder!IsDocument(d)
    PROVE  Decoder!Conforms(d, "config.set") <=>
              /\ WriteHead(d, "config.set") /\ Decoder!ConfigHeadFits(d)
              /\ Decoder!Item(d.config, "business") = Decoder!Null
              /\ Decoder!SectionsFit(d) /\ d.valid
<1>1. Decoder!Conforms(d, "config.set") <=>
         /\ d.framed
         /\ Decoder!Form(d.root, Decoder!Both(NamedAndNested("config.set"), Decoder!WriteFields))
         /\ d.valid /\ Decoder!Form(d.parameters, Decoder!Fields.set)
         /\ ConfigForm(d)
         /\ \A name \in {"wifi", "mqtt", "frp"} :
               Opened(d, name) => Decoder!Form(d[name], Decoder!Fields[name])
  BY DEF Decoder!Conforms, NamedAndNested, ConfigForm, Opened
<1>2. Decoder!Parameters(d, Decoder!Fields.set) <=>
         /\ Decoder!Item(d.root, "parameters") = Decoder!Object
         /\ Decoder!Form(d.parameters, Decoder!Fields.set)
  BY TableForms, TableNames, ObjectsAreLists DEF Decoder!Parameters
<1>3. Decoder!ConfigHeadFits(d) <=>
         /\ Decoder!Item(d.root, "parameters") = Decoder!Object
         /\ Decoder!Form(d.parameters, Decoder!Fields.set)
         /\ Decoder!ExactKeys(d.config, DOMAIN Decoder!Fields.config \cup {"business"})
         /\ Decoder!Item(d.config, "schema_version") = Decoder!Number(3)
  BY <1>2 DEF Decoder!ConfigHeadFits
<1>4. WriteHead(d, "config.set") => Decoder!Item(d.root, "parameters") = Decoder!Object
  BY DEF WriteHead
<1>5. WriteHead(d, "config.set") <=>
         /\ d.framed
         /\ Decoder!Form(d.root, Decoder!Both(NamedAndNested("config.set"), Decoder!WriteFields))
  BY WriteHeadForm
<1> QED
  BY <1>1, <1>3, <1>4, <1>5, ConfigForms

\* The error the decoder reports, command by command.
LEMMA ErrorFree ==
    ASSUME NEW d, Decoder!IsDocument(d)
    PROVE  Decoder!Error(d) = "none" <=> \E command \in Decoder!Commands : Decoder!Conforms(d, command)
<1> DEFINE command == Decoder!Command(d)
<1>1. /\ \A c \in Decoder!Commands : Decoder!Conforms(d, c) =>
            command = Decoder!Word(c) /\ Decoder!HeadFits(d)
      /\ Decoder!Commands = {"status", "ota.result", "ota.start", "config.set", "restart"}
  BY StatusConforms, QueryConforms, OtaConforms, ConfigConforms, RestartConforms
     DEF Decoder!Commands, WriteHead
<1>2. ASSUME NEW x \in Decoder!Commands, command = Decoder!Word(x)
      PROVE  (\E c \in Decoder!Commands : Decoder!Conforms(d, c)) <=> Decoder!Conforms(d, x)
  <2>1. \A c \in Decoder!Commands : Decoder!Conforms(d, c) => c = x
    BY <1>1, <1>2, WordsDiffer
  <2> QED
    BY <2>1
<1>3. CASE ~Decoder!HeadFits(d)
  BY <1>1, <1>3 DEF Decoder!Error
<1>4. CASE Decoder!HeadFits(d) /\ command = Decoder!Word("status")
  <2>1. Decoder!Error(d) = "none"
    BY <1>4, WordsDiffer DEF Decoder!Error
  <2> QED
    BY <1>1, <1>4, <2>1, StatusConforms
<1>5. CASE Decoder!HeadFits(d) /\ command = Decoder!Word("ota.result")
  <2>1. Decoder!Error(d) = Decoder!Check(Decoder!Parameters(d, Decoder!Fields.query))
    BY <1>5, WordsDiffer DEF Decoder!Error
  <2>2. Decoder!Error(d) = "none" <=> Decoder!Conforms(d, "ota.result")
    BY <1>5, <2>1, QueryConforms DEF Decoder!Check
  <2> QED
    BY <1>1, <1>2, <1>5, <2>2
<1>6. CASE Decoder!HeadFits(d) /\ command \notin {Decoder!Word("status"), Decoder!Word("ota.result")}
  <2>1. Decoder!Error(d) = Decoder!WriteError(d)
    BY <1>6 DEF Decoder!Error
  <2>2. CASE ~Decoder!Fit(d.root, Decoder!WriteFields)
    <3>1. Decoder!Error(d) # "none"
      BY <2>1, <2>2 DEF Decoder!WriteError
    <3>2. \A c \in Decoder!Commands : ~Decoder!Conforms(d, c)
      BY <1>1, <1>6, <2>2, OtaConforms, ConfigConforms, RestartConforms DEF WriteHead
    <3> QED
      BY <3>1, <3>2
  <2>3. CASE Decoder!Fit(d.root, Decoder!WriteFields) /\ command = Decoder!Word("ota.start")
    <3>1. Decoder!Error(d) = Decoder!Check(Decoder!OtaFits(d))
      BY <2>1, <2>3, WordsDiffer DEF Decoder!WriteError
    <3>2. Decoder!OtaFits(d) => Decoder!Item(d.root, "parameters") = Decoder!Object
      BY DEF Decoder!OtaFits, Decoder!Parameters
    <3>3. Decoder!Error(d) = "none" <=> Decoder!Conforms(d, "ota.start")
      BY <1>6, <2>3, <3>1, <3>2, OtaConforms DEF Decoder!Check, WriteHead
    <3> QED
      BY <1>1, <1>2, <2>3, <3>3
  <2>4. CASE Decoder!Fit(d.root, Decoder!WriteFields) /\ command = Decoder!Word("config.set")
    <3>1. Decoder!Error(d) = Decoder!ConfigError(d)
      BY <2>1, <2>4, WordsDiffer DEF Decoder!WriteError
    <3>2. Decoder!ConfigHeadFits(d) => Decoder!Item(d.root, "parameters") = Decoder!Object
      BY DEF Decoder!ConfigHeadFits, Decoder!Parameters
    <3>3. Decoder!Error(d) = "none" <=>
             /\ Decoder!ConfigHeadFits(d) /\ Decoder!Item(d.config, "business") = Decoder!Null
             /\ Decoder!SectionsFit(d) /\ d.valid
      BY <3>1 DEF Decoder!ConfigError, Decoder!Check
    <3>4. Decoder!Error(d) = "none" <=> Decoder!Conforms(d, "config.set")
      BY <1>6, <2>4, <3>2, <3>3, ConfigConforms DEF WriteHead
    <3> QED
      BY <1>1, <1>2, <2>4, <3>4
  <2>5. CASE Decoder!Fit(d.root, Decoder!WriteFields) /\ command = Decoder!Word("restart")
    <3>1. Decoder!Error(d) = Decoder!Check(/\ Decoder!Item(d.root, "parameters") = Decoder!Object
                                           /\ d.parameters = <<>>)
      BY <2>1, <2>5, WordsDiffer DEF Decoder!WriteError
    <3>2. Decoder!Error(d) = "none" <=> Decoder!Conforms(d, "restart")
      BY <1>6, <2>5, <3>1, RestartConforms DEF Decoder!Check, WriteHead
    <3> QED
      BY <1>1, <1>2, <2>5, <3>2
  <2>6. CASE /\ Decoder!Fit(d.root, Decoder!WriteFields)
             /\ command \notin {Decoder!Word(c) : c \in {"ota.start", "config.set", "restart"}}
    <3>1. Decoder!Error(d) # "none"
      BY <2>1, <2>6 DEF Decoder!WriteError
    <3> QED
      BY <1>1, <1>6, <2>6, <3>1
  <2> QED
    BY <2>2, <2>3, <2>4, <2>5, <2>6
<1> QED
  BY <1>3, <1>4, <1>5, <1>6

-----------------------------------------------------------------------------
(* Documents: all that a client may send                                     *)

LEMMA SequenceFacts ==
    ASSUME NEW S, NEW m \in Seq(S)
    PROVE  /\ \A v \in S : Append(m, v) \in Seq(S) /\ <<v>> \o m \in Seq(S)
           /\ \A i \in DOMAIN m : Decoder!RemoveAt(m, i) \in Seq(S)
           /\ \A i \in DOMAIN m : m[i] \in S
           /\ \A i \in DOMAIN m : \A v \in S : [m EXCEPT ![i] = v] \in Seq(S)
<1>1. /\ Len(m) \in Nat /\ DOMAIN m = 1 .. Len(m)
      /\ \A i \in 1 .. Len(m) : m[i] \in S
  BY LenProperties, ElementOfSeq
<1>2. \A v \in S : Append(m, v) \in Seq(S) /\ <<v>> \o m \in Seq(S)
  <2> TAKE v \in S
  <2>1. <<v>> \in Seq(S)
    OBVIOUS
  <2> QED
    BY <2>1, AppendProperties, ConcatProperties
<1>3. ASSUME NEW i \in DOMAIN m
      PROVE  Decoder!RemoveAt(m, i) \in Seq(S)
  <2>1. i \in Nat /\ 1 <= i /\ i <= Len(m)
    BY <1>1
  <2>2. SubSeq(m, 1, i - 1) \in Seq(S)
    <3>1. \A j \in 1 .. i - 1 : m[j] \in S
      BY <1>1, <2>1
    <3> QED
      BY <2>1, <3>1, SubSeqProperties
  <2>3. SubSeq(m, i + 1, Len(m)) \in Seq(S)
    <3>1. \A j \in i + 1 .. Len(m) : m[j] \in S
      BY <1>1, <2>1
    <3> QED
      BY <1>1, <2>1, <3>1, SubSeqProperties
  <2> QED
    BY <2>2, <2>3, ConcatProperties DEF Decoder!RemoveAt
<1>4. \A i \in DOMAIN m : \A v \in S : [m EXCEPT ![i] = v] \in Seq(S)
  BY <1>1, ExceptSeq
<1> QED
  BY <1>1, <1>2, <1>3, <1>4

IsMember(x) == x = [key |-> x.key, value |-> x.value]

\* A sequence of members is a list of members, and the other way round.
LEMMA MembersMakeLists ==
    /\ \A S : \A m \in Seq(S) : (\A x \in S : IsMember(x)) => Decoder!IsMemberList(m)
    /\ \A m : Decoder!IsMemberList(m) =>
                 m \in Seq(Decoder!ToSet(m)) /\ \A x \in Decoder!ToSet(m) : IsMember(x)
<1>1. ASSUME NEW S, NEW m \in Seq(S), \A x \in S : IsMember(x)
      PROVE  Decoder!IsMemberList(m)
  <2>1. /\ Len(m) \in Nat /\ DOMAIN m = 1 .. Len(m)
        /\ \A i \in 1 .. Len(m) : m[i] \in S
    BY LenProperties, ElementOfSeq
  <2>2. m \in Seq({m[i] : i \in 1 .. Len(m)})
    BY IsASeq
  <2>3. \A i \in DOMAIN m : m[i] = [key |-> m[i].key, value |-> m[i].value]
    BY <1>1, <2>1 DEF IsMember
  <2> QED
    BY <2>1, <2>2, <2>3 DEF Decoder!IsMemberList, Decoder!ToSet
<1>2. ASSUME NEW m, Decoder!IsMemberList(m)
      PROVE  m \in Seq(Decoder!ToSet(m)) /\ \A x \in Decoder!ToSet(m) : IsMember(x)
  BY <1>2 DEF Decoder!IsMemberList, Decoder!ToSet, IsMember
<1> QED
  BY <1>1, <1>2

\* What a client may do to one object.
LEMMA ListEdits ==
    ASSUME NEW m, Decoder!IsMemberList(m), NEW i \in DOMAIN m
    PROVE  /\ Decoder!IsMemberList(Decoder!RemoveAt(m, i))
           /\ \A v : Decoder!IsMemberList([m EXCEPT ![i].value = v])
           /\ \A k, v : /\ Decoder!IsMemberList(Append(m, [key |-> k, value |-> v]))
                        /\ Decoder!IsMemberList(<<[key |-> k, value |-> v]>> \o m)
<1> DEFINE S == Decoder!ToSet(m)
<1>1. m \in Seq(S) /\ \A x \in S : IsMember(x)
  BY MembersMakeLists
<1> HIDE DEF S
<1>2. m[i] \in S /\ Decoder!RemoveAt(m, i) \in Seq(S)
  BY <1>1, SequenceFacts
<1>3. \A k, v : IsMember([key |-> k, value |-> v])
  BY DEF IsMember
<1>4. Decoder!IsMemberList(Decoder!RemoveAt(m, i))
  BY <1>1, <1>2, MembersMakeLists
<1>5. ASSUME NEW k, NEW v
      PROVE  /\ Decoder!IsMemberList(Append(m, [key |-> k, value |-> v]))
             /\ Decoder!IsMemberList(<<[key |-> k, value |-> v]>> \o m)
             /\ Decoder!IsMemberList([m EXCEPT ![i] = [key |-> k, value |-> v]])
  <2> DEFINE x == [key |-> k, value |-> v]
             T == S \cup {x}
  <2>1. \A y \in T : IsMember(y)
    BY <1>1, <1>3
  <2>2. x \in T /\ S \subseteq T
    OBVIOUS
  <2> HIDE DEF x, T
  <2>3. m \in Seq(T)
    BY <1>1, <2>2, SeqMonotonic
  <2>4. Append(m, x) \in Seq(T) /\ <<x>> \o m \in Seq(T) /\ [m EXCEPT ![i] = x] \in Seq(T)
    BY <2>2, <2>3, SequenceFacts
  <2> QED
    BY <2>1, <2>4, MembersMakeLists DEF x
<1>6. ASSUME NEW v
      PROVE  Decoder!IsMemberList([m EXCEPT ![i].value = v])
  <2>1. m[i] = [key |-> m[i].key, value |-> m[i].value]
    BY <1>1, <1>2 DEF IsMember
  <2>2. [m[i] EXCEPT !.value = v] = [key |-> m[i].key, value |-> v]
    BY <2>1
  <2>3. [m EXCEPT ![i].value = v] = [m EXCEPT ![i] = [m[i] EXCEPT !.value = v]]
    OBVIOUS
  <2> QED
    BY <1>5, <2>2, <2>3
<1> QED
  BY <1>4, <1>5, <1>6

LEMMA EditKeeps ==
    ASSUME Decoder!IsDocument(doc), NEW name \in Decoder!Parts,
           NEW list, Decoder!IsMemberList(list), Decoder!Edit(name, list)
    PROVE  Decoder!IsDocument(doc)'
<1>1. doc' = [doc EXCEPT ![name] = list] /\ name \notin {"framed", "valid"}
  BY DEF Decoder!Edit, Decoder!Parts
<1>2. DOMAIN doc = {"framed", "valid"} \cup Decoder!Parts
  BY DEF Decoder!IsDocument
<1>3. DOMAIN doc' = DOMAIN doc /\ \A n \in DOMAIN doc : doc'[n] = IF n = name THEN list ELSE doc[n]
  BY <1>1, <1>2
<1>4. doc' = [n \in {"framed", "valid"} \cup Decoder!Parts |-> doc'[n]]
  BY <1>1, <1>2, <1>3
<1>5. doc'["framed"] \in BOOLEAN /\ doc'["valid"] \in BOOLEAN
  BY <1>1, <1>2, <1>3 DEF Decoder!IsDocument
<1>6. \A n \in Decoder!Parts : Decoder!IsMemberList(doc'[n])
  BY <1>2, <1>3 DEF Decoder!IsDocument
<1> QED
  BY <1>4, <1>5, <1>6 DEF Decoder!IsDocument

\* Whatever a client does to a document, it stays one that the parser may hand over.
LEMMA DocumentsStay ==
    ASSUME Decoder!IsDocument(doc), [Decoder!Next]_(Decoder!vars)
    PROVE  Decoder!IsDocument(doc)'
<1>1. \A name \in Decoder!Parts : Decoder!IsMemberList(doc[name])
  BY DEF Decoder!IsDocument
<1>2. CASE Decoder!Replace
  <2>1. PICK name \in Decoder!Parts :
           \E i \in DOMAIN doc[name], v \in Values :
              Decoder!Edit(name, [doc[name] EXCEPT ![i].value = v])
    BY <1>2 DEF Decoder!Replace
  <2> QED
    BY <1>1, <2>1, ListEdits, EditKeeps
<1>3. CASE Decoder!Omit
  <2>1. PICK name \in Decoder!Parts :
           \E i \in DOMAIN doc[name] : Decoder!Edit(name, Decoder!RemoveAt(doc[name], i))
    BY <1>3 DEF Decoder!Omit
  <2> QED
    BY <1>1, <2>1, ListEdits, EditKeeps
<1>4. CASE Decoder!Repeat
  <2>1. PICK name \in Decoder!Parts :
           \E i \in DOMAIN doc[name] :
              \E again \in [key : {doc[name][i].key, "other"},
                             value : {Decoder!Null, doc[name][i].value}] :
                 \/ Decoder!Edit(name, <<again>> \o doc[name])
                 \/ Decoder!Edit(name, Append(doc[name], again))
    BY <1>4 DEF Decoder!Repeat
  <2>2. PICK i \in DOMAIN doc[name] :
           \E again \in [key : {doc[name][i].key, "other"},
                          value : {Decoder!Null, doc[name][i].value}] :
              \/ Decoder!Edit(name, <<again>> \o doc[name])
              \/ Decoder!Edit(name, Append(doc[name], again))
    BY <2>1
  <2>3. PICK again \in [key : {doc[name][i].key, "other"},
                        value : {Decoder!Null, doc[name][i].value}] :
           \/ Decoder!Edit(name, <<again>> \o doc[name])
           \/ Decoder!Edit(name, Append(doc[name], again))
    BY <2>2
  <2>4. again = [key |-> again.key, value |-> again.value]
    OBVIOUS
  <2>5. /\ Decoder!IsMemberList(Append(doc[name], [key |-> again.key, value |-> again.value]))
        /\ Decoder!IsMemberList(<<[key |-> again.key, value |-> again.value]>> \o doc[name])
    BY <1>1, ListEdits
  <2> QED
    BY <2>3, <2>4, <2>5, EditKeeps
<1>5. CASE Decoder!Flag
  <2>1. PICK flag \in {"framed", "valid"} : doc' = [doc EXCEPT ![flag] = FALSE]
    BY <1>5 DEF Decoder!Flag
  <2>2. DOMAIN doc = {"framed", "valid"} \cup Decoder!Parts
    BY DEF Decoder!IsDocument
  <2>3. \A n \in DOMAIN doc : doc'[n] = IF n = flag THEN FALSE ELSE doc[n]
    BY <2>1, <2>2
  <2>4. doc' = [n \in {"framed", "valid"} \cup Decoder!Parts |-> doc'[n]]
    BY <2>1, <2>2, <2>3
  <2>5. \A n \in Decoder!Parts : n # flag
    BY DEF Decoder!Parts
  <2> QED
    BY <2>2, <2>3, <2>4, <2>5 DEF Decoder!IsDocument
<1>6. CASE UNCHANGED Decoder!vars
  BY <1>6 DEF Decoder!vars
<1> QED
  BY <1>2, <1>3, <1>4, <1>5, <1>6 DEF Decoder!Next

LEMMA GrammarHolds ==
    ASSUME Decoder!IsDocument(doc)
    PROVE  Decoder!OnlyTheGrammar
<1> DEFINE id == Decoder!RequestId(doc)
           root == doc.root
<1>1. Decoder!IsMemberList(root)
  BY ObjectsAreLists
<1>2. Decoder!FrpStatusFits(doc) <=>
         doc.framed /\ Decoder!Form(root, Decoder!Both([command |-> {Decoder!Word("status")}],
                                                       Decoder!WriteFields))
  BY RootForms DEF Decoder!FrpStatusFits, Named
<1>3. ASSUME id # Decoder!Missing
      PROVE  \E i \in DOMAIN root :
                /\ root[i] = [key |-> "request_id", value |-> id]
                /\ \A j \in DOMAIN root \ {i} : root[j].key # "request_id"
  <2>1. /\ Decoder!ExactKeys(root, Decoder!RootKeys(doc))
        /\ id = Decoder!Item(root, "request_id")
    BY <1>3 DEF Decoder!RequestId, Decoder!HeadFits
  <2>2. "request_id" \in Decoder!RootKeys(doc)
    BY FieldNames DEF Decoder!RootKeys, StatusKeys, WriteKeys
  <2>3. Decoder!Times(root, "request_id") = 1
    BY <2>1, <2>2 DEF Decoder!ExactKeys
  <2>4. PICK i \in DOMAIN root : Only(root, "request_id", i)
    BY <1>1, <2>3, OnceIsOnly
  <2>5. id = root[i].value
    BY <1>1, <2>1, <2>4, ItemOfOnly
  <2>6. root[i] = [key |-> root[i].key, value |-> root[i].value]
    BY <1>1 DEF Decoder!IsMemberList
  <2>7. root[i] = [key |-> "request_id", value |-> id]
    BY <2>4, <2>5, <2>6 DEF Only
  <2> QED
    BY <2>4, <2>7 DEF Only
<1> QED
  BY <1>2, <1>3, ErrorFree DEF Decoder!OnlyTheGrammar

\* For any document of any length, whatever its members, their order and repetitions: a
\* command is taken exactly when it conforms to the grammar of one of the five, the
\* listener takes exactly the status request, and an answer carries an identifier only
\* if the request holds it once (ebase_parse_command, ebase_parse_frp_status).
THEOREM GrammarIsExact == MCSpec => []OnlyTheGrammar
<1> DEFINE Parsed == part = "decoder" => Decoder!IsDocument(doc)
<1>1. MCInit => Parsed
  BY InputAssumption DEF MCInit, Decoder!Init, Decoder!CommandDecoderAssumption
<1>2. Parsed /\ [MCNext]_MCvars => Parsed'
  <2> SUFFICES ASSUME Parsed, [MCNext]_MCvars, part' = "decoder"
               PROVE  Decoder!IsDocument(doc)'
    OBVIOUS
  <2>1. part = "decoder" /\ [Decoder!Next]_(Decoder!vars)
    BY DEF MCNext, MCvars, decoderVars, Decoder!vars
  <2> QED
    BY <2>1, DocumentsStay
<1>3. Parsed => OnlyTheGrammar
  BY GrammarHolds DEF OnlyTheGrammar
<1> QED
  BY <1>1, <1>2, <1>3, PTL DEF MCSpec

=============================================================================
