---------------------------- MODULE StorageProofs ---------------------------
(***************************************************************************)
(* What the device keeps and who may write it.  The storage owner, for any *)
(* set of claim objects and any width of the token counter: exclusion,     *)
(* tokens, and the abstract claim it implements.  The identity, for any    *)
(* random bytes: one for life.  The firmware set of the container adapter, *)
(* for any images and any number of restarts: what it is told is the truth,*)
(* and stays so.  The composition MCStorage of the three and of the window *)
(* of a boot under verification, into which what PendingBootProofs shows   *)
(* carries over.                                                           *)
(***************************************************************************)
EXTENDS MCStorage, TLAPS

\* A call that has reserved the owner has an empty claim object, and the steps
\* of the call agree with the counter.
CallsConsistent ==
    \A c \in Claimants :
        /\ pc[c] \in {"load", "give_up", "store_next", "publish", "adopt"} => claim[c] = 0
        /\ pc[c] = "clear" => claim[c] # 0
        /\ pc[c] = "store_next" => previous[c] = next_token /\ next_token < UintMax - 1
        /\ pc[c] \in {"publish", "adopt"} => previous[c] + 1 = next_token

\* Tokens granted so far are among those counted, and the one being published
\* has not been granted before.
GrantsCounted ==
    /\ \A t \in granted : t <= next_token
    /\ \A c \in Claimants :
         /\ pc[c] \in {"publish", "adopt"} => next_token \notin granted
         /\ claim[c] # 0 => claim[c] \in granted

\* The inductive invariant.
IInv ==
    /\ TypeOK
    /\ MutualExclusion
    /\ ActiveTokenAccurate
    /\ CallsConsistent
    /\ GrantsCounted

LEMMA InitEstablishes == Init => IInv
  BY UintMaxAssumption DEF Init, IInv, TypeOK, MutualExclusion, ActiveTokenAccurate,
     CallsConsistent, GrantsCounted, Inside, PCs, Tokens

\* A call that finishes without having touched the owner.
LEMMA RefusedCall ==
    ASSUME IInv, NEW c \in Claimants, pc[c] = "idle", Return(c, "false"),
           UNCHANGED <<next_token, active_token, claim, previous, granted>>
    PROVE  IInv'
<1>1. TypeOK'
  BY DEF IInv, TypeOK, Return, PCs, Tokens
<1>2. pc' = pc
  BY DEF IInv, TypeOK, Return
<1>3. QED
  BY <1>1, <1>2 DEF IInv, MutualExclusion, ActiveTokenAccurate, CallsConsistent,
     GrantsCounted, Inside, Return

LEMMA ReserveStep ==
    ASSUME IInv, NEW c \in Claimants, ClaimReserve(c)
    PROVE  IInv'
<1>1. CASE active_token = 0
  <2> USE <1>1, UintMaxAssumption DEF IInv, ClaimReserve
  <2>1. TypeOK'
    BY DEF TypeOK, PCs, Tokens
  <2>2. \A d \in Claimants : ~Inside(d)
    BY DEF ActiveTokenAccurate
  <2>3. \A d \in Claimants : d # c => ~Inside(d)'
    BY <2>2 DEF Inside, TypeOK
  <2>4. Inside(c)'
    BY DEF Inside, TypeOK
  <2>5. MutualExclusion'
    BY <2>3 DEF MutualExclusion
  <2>6. ActiveTokenAccurate'
    BY <2>2, <2>3, <2>4 DEF ActiveTokenAccurate, Inside, TypeOK
  <2>7. CallsConsistent'
    BY DEF CallsConsistent, TypeOK
  <2>8. GrantsCounted'
    BY DEF GrantsCounted, TypeOK
  <2>9. QED
    BY <2>1, <2>5, <2>6, <2>7, <2>8
<1>2. CASE active_token # 0
  BY <1>2, RefusedCall DEF ClaimReserve
<1>3. QED
  BY <1>1, <1>2

\* The steps a call takes while it alone is inside: the reservation excludes
\* every other claim object.
LEMMA AloneInside ==
    ASSUME IInv, NEW c \in Claimants, Inside(c)
    PROVE  /\ active_token # 0
           /\ \A d \in Claimants : d # c => ~Inside(d)
  BY DEF IInv, MutualExclusion, ActiveTokenAccurate

LEMMA LoadStep ==
    ASSUME IInv, NEW c \in Claimants, ClaimLoad(c)
    PROVE  IInv'
<1> USE UintMaxAssumption DEF ClaimLoad
<1>1. TypeOK'
  BY DEF IInv, TypeOK, PCs, Tokens
<1>2. \A d \in Claimants : Inside(d)' <=> Inside(d)
  BY DEF IInv, TypeOK, Inside
<1>3. MutualExclusion'
  BY <1>2 DEF IInv, MutualExclusion
<1>4. ActiveTokenAccurate'
  BY <1>2 DEF IInv, TypeOK, ActiveTokenAccurate
<1>5. CallsConsistent'
  BY DEF IInv, TypeOK, CallsConsistent
<1>6. GrantsCounted'
  BY DEF IInv, TypeOK, GrantsCounted
<1>7. QED
  BY <1>1, <1>3, <1>4, <1>5, <1>6 DEF IInv

LEMMA GiveUpStep ==
    ASSUME IInv, NEW c \in Claimants, ClaimGiveUp(c)
    PROVE  IInv'
<1> USE UintMaxAssumption DEF ClaimGiveUp, Return
<1>1. TypeOK'
  BY DEF IInv, TypeOK, PCs, Tokens
<1>2. \A d \in Claimants : d # c => ~Inside(d)
  BY AloneInside DEF Inside
<1>3. \A d \in Claimants : ~Inside(d)'
  BY <1>2 DEF IInv, TypeOK, Inside, CallsConsistent
<1>4. MutualExclusion' /\ ActiveTokenAccurate'
  BY <1>3 DEF IInv, TypeOK, Inside, MutualExclusion, ActiveTokenAccurate
<1>5. CallsConsistent'
  BY DEF IInv, TypeOK, CallsConsistent
<1>6. GrantsCounted'
  BY DEF IInv, TypeOK, GrantsCounted
<1>7. QED
  BY <1>1, <1>4, <1>5, <1>6 DEF IInv

LEMMA StoreNextStep ==
    ASSUME IInv, NEW c \in Claimants, ClaimStoreNext(c)
    PROVE  IInv'
<1> USE UintMaxAssumption DEF ClaimStoreNext
<1>1. next_token' = next_token + 1 /\ next_token' <= UintMax - 1
  BY DEF IInv, TypeOK, CallsConsistent
<1>2. TypeOK'
  BY <1>1 DEF IInv, TypeOK, PCs, Tokens
<1>3. \A d \in Claimants : d # c => ~Inside(d)
  BY AloneInside DEF Inside
<1>4. \A d \in Claimants : Inside(d)' <=> Inside(d)
  BY DEF IInv, TypeOK, Inside
<1>5. MutualExclusion'
  BY <1>4 DEF IInv, MutualExclusion
<1>6. ActiveTokenAccurate'
  BY <1>4 DEF IInv, TypeOK, ActiveTokenAccurate
<1>7. CallsConsistent'
  BY <1>3 DEF IInv, TypeOK, CallsConsistent, Inside
<1>8. GrantsCounted'
  <2>1. \A t \in granted : t <= next_token /\ t \in Nat
    BY DEF IInv, GrantsCounted, TypeOK, Tokens
  <2>2. next_token' \notin granted
    BY <1>1, <2>1 DEF IInv, TypeOK
  <2>3. \A t \in granted' : t <= next_token'
    BY <1>1, <2>1 DEF IInv, TypeOK
  <2>4. QED
    BY <2>2, <2>3 DEF IInv, GrantsCounted
<1>9. QED
  BY <1>2, <1>5, <1>6, <1>7, <1>8 DEF IInv

LEMMA PublishStep ==
    ASSUME IInv, NEW c \in Claimants, ClaimPublish(c)
    PROVE  IInv'
<1> USE UintMaxAssumption DEF ClaimPublish
<1>1. active_token' = next_token /\ active_token' # 0
  BY DEF IInv, TypeOK, CallsConsistent
<1>2. TypeOK'
  BY <1>1 DEF IInv, TypeOK, PCs, Tokens
<1>3. \A d \in Claimants : d # c => ~Inside(d)
  BY AloneInside DEF Inside
<1>4. \A d \in Claimants : Inside(d)' <=> Inside(d)
  BY DEF IInv, TypeOK, Inside
<1>5. MutualExclusion'
  BY <1>4 DEF IInv, MutualExclusion
<1>6. ActiveTokenAccurate'
  <2>1. Inside(c)'
    BY DEF IInv, TypeOK, Inside
  <2>2. \A d \in Claimants : d # c => ~Inside(d)'
    BY <1>3, <1>4
  <2>3. QED
    BY <1>1, <2>1, <2>2 DEF IInv, TypeOK, ActiveTokenAccurate, Inside
<1>7. CallsConsistent'
  BY DEF IInv, TypeOK, CallsConsistent
<1>8. GrantsCounted'
  BY DEF IInv, TypeOK, GrantsCounted
<1>9. QED
  BY <1>2, <1>5, <1>6, <1>7, <1>8 DEF IInv

LEMMA AdoptStep ==
    ASSUME IInv, NEW c \in Claimants, ClaimAdopt(c)
    PROVE  IInv'
<1> USE UintMaxAssumption DEF ClaimAdopt, Return
<1>1. claim'[c] = next_token /\ next_token # 0 /\ granted' = granted \cup {next_token}
  BY DEF IInv, TypeOK, CallsConsistent
<1>2. TypeOK'
  <2>1. next_token \in Tokens
    BY <1>1 DEF IInv, TypeOK, Tokens
  <2>2. claim' \in [Claimants -> 0 .. (UintMax - 1)] /\ granted' \subseteq Tokens
    BY <1>1, <2>1 DEF IInv, TypeOK, Tokens
  <2>3. QED
    BY <2>2 DEF IInv, TypeOK, PCs
<1>3. \A d \in Claimants : d # c => ~Inside(d)
  BY AloneInside DEF Inside
<1>4. \A d \in Claimants : Inside(d)' <=> Inside(d)
  BY <1>1 DEF IInv, TypeOK, Inside
<1>5. MutualExclusion'
  BY <1>4 DEF IInv, MutualExclusion
<1>6. ActiveTokenAccurate'
  BY <1>1, <1>4 DEF IInv, TypeOK, ActiveTokenAccurate, CallsConsistent
<1>7. CallsConsistent'
  BY DEF IInv, TypeOK, CallsConsistent
<1>8. GrantsCounted'
  <2>1. \A t \in granted' : t <= next_token'
    BY <1>1 DEF IInv, TypeOK, GrantsCounted
  <2>2. \A d \in Claimants : pc'[d] \notin {"publish", "adopt"}
    BY <1>3 DEF IInv, TypeOK, Inside
  <2>3. \A d \in Claimants : claim'[d] # 0 => claim'[d] \in granted'
    BY <1>1 DEF IInv, TypeOK, GrantsCounted
  <2>4. QED
    BY <2>1, <2>2, <2>3 DEF GrantsCounted
<1>9. QED
  BY <1>2, <1>5, <1>6, <1>7, <1>8 DEF IInv

LEMMA ReleaseStep ==
    ASSUME IInv, NEW c \in Claimants, Release(c)
    PROVE  IInv'
<1>1. CASE active_token = claim[c]
  <2> USE <1>1, UintMaxAssumption DEF Release
  <2>1. TypeOK'
    BY DEF IInv, TypeOK, PCs, Tokens
  <2>2. \A d \in Claimants : d # c => ~Inside(d)
    BY AloneInside DEF Inside
  <2>3. \A d \in Claimants : ~Inside(d)'
    BY <2>2 DEF IInv, TypeOK, Inside
  <2>4. MutualExclusion' /\ ActiveTokenAccurate'
    BY <2>3 DEF IInv, TypeOK, Inside, MutualExclusion, ActiveTokenAccurate
  <2>5. CallsConsistent'
    BY DEF IInv, TypeOK, CallsConsistent
  <2>6. GrantsCounted'
    BY DEF IInv, TypeOK, GrantsCounted
  <2>7. QED
    BY <2>1, <2>4, <2>5, <2>6 DEF IInv
<1>2. CASE active_token # claim[c]
  BY <1>2, RefusedCall DEF Release
<1>3. QED
  BY <1>1, <1>2

LEMMA ReleaseClearStep ==
    ASSUME IInv, NEW c \in Claimants, ReleaseClear(c)
    PROVE  IInv'
<1> USE UintMaxAssumption DEF ReleaseClear, Return
<1>1. TypeOK'
  BY DEF IInv, TypeOK, PCs, Tokens
<1>2. \A d \in Claimants : Inside(d)' <=> Inside(d)
  BY DEF IInv, TypeOK, Inside
<1>3. MutualExclusion'
  BY <1>2 DEF IInv, MutualExclusion
<1>4. ActiveTokenAccurate'
  BY <1>2 DEF IInv, TypeOK, ActiveTokenAccurate
<1>5. CallsConsistent'
  BY DEF IInv, TypeOK, CallsConsistent
<1>6. GrantsCounted'
  BY DEF IInv, TypeOK, GrantsCounted
<1>7. QED
  BY <1>1, <1>3, <1>4, <1>5, <1>6 DEF IInv

\* An outdated or forged claim matches no token that is active.
LEMMA StaleReleaseIsIdle ==
    ASSUME IInv, NEW t \in StaleTokens, ReleaseStale(t)
    PROVE  UNCHANGED vars
<1>1. CASE t = UintMax
  BY <1>1 DEF ReleaseStale, vars
<1>2. CASE t # UintMax
  <2>1. t \in granted /\ \A c \in Claimants : claim[c] # t
    BY <1>2 DEF StaleTokens
  <2>2. t # 0 /\ t # UintMax
    BY <2>1, UintMaxAssumption DEF IInv, TypeOK, Tokens
  <2>3. active_token # t
    <3>1. SUFFICES ASSUME active_token = t PROVE FALSE
      OBVIOUS
    <3>2. PICK c \in Claimants : Inside(c)
      BY <2>2, <3>1 DEF IInv, ActiveTokenAccurate
    <3>3. CASE pc[c] = "adopt"
      BY <2>1, <3>1, <3>3 DEF IInv, ActiveTokenAccurate, CallsConsistent, GrantsCounted
    <3>4. CASE pc[c] = "idle"
      BY <2>1, <3>1, <3>2, <3>4 DEF IInv, ActiveTokenAccurate, Inside
    <3>5. CASE pc[c] \in {"load", "give_up", "store_next", "publish"}
      BY <2>2, <3>1, <3>5 DEF IInv, ActiveTokenAccurate
    <3>6. QED
      BY <3>2, <3>3, <3>4, <3>5 DEF Inside
  <2>4. QED
    BY <2>3 DEF ReleaseStale, vars
<1>3. QED
  BY <1>1, <1>2

LEMMA StepPreserves == IInv /\ [Next]_vars => IInv'
<1> SUFFICES ASSUME IInv, [Next]_vars PROVE IInv'
  OBVIOUS
<1>1. ASSUME NEW c \in Claimants, ClaimInUse(c) PROVE IInv'
  BY <1>1, RefusedCall DEF ClaimInUse
<1>2. ASSUME NEW c \in Claimants, ClaimReserve(c) PROVE IInv'
  BY <1>2, ReserveStep
<1>3. ASSUME NEW c \in Claimants, ReleaseEmpty(c) PROVE IInv'
  BY <1>3, RefusedCall DEF ReleaseEmpty
<1>4. ASSUME NEW c \in Claimants, Release(c) PROVE IInv'
  BY <1>4, ReleaseStep
<1>5. ASSUME NEW c \in Claimants, ClaimLoad(c) PROVE IInv'
  BY <1>5, LoadStep
<1>6. ASSUME NEW c \in Claimants, ClaimGiveUp(c) PROVE IInv'
  BY <1>6, GiveUpStep
<1>7. ASSUME NEW c \in Claimants, ClaimStoreNext(c) PROVE IInv'
  BY <1>7, StoreNextStep
<1>8. ASSUME NEW c \in Claimants, ClaimPublish(c) PROVE IInv'
  BY <1>8, PublishStep
<1>9. ASSUME NEW c \in Claimants, ClaimAdopt(c) PROVE IInv'
  BY <1>9, AdoptStep
<1>10. ASSUME NEW c \in Claimants, ReleaseClear(c) PROVE IInv'
  BY <1>10, ReleaseClearStep
<1>11. ASSUME UNCHANGED vars PROVE IInv'
  BY <1>11 DEF IInv, vars, TypeOK, MutualExclusion, ActiveTokenAccurate,
     CallsConsistent, GrantsCounted, Inside
<1>12. ASSUME NEW t \in StaleTokens, ReleaseStale(t) PROVE IInv'
  BY <1>11, <1>12, StaleReleaseIsIdle
<1>13. QED
  BY <1>1, <1>2, <1>3, <1>4, <1>5, <1>6, <1>7, <1>8, <1>9, <1>10, <1>11, <1>12
     DEF Next, Call, Continue

LEMMA Invariance == Spec => []IInv
<1>1. Init => IInv
  BY InitEstablishes
<1>2. IInv /\ [Next]_vars => IInv'
  BY StepPreserves
<1>3. QED
  BY <1>1, <1>2, PTL DEF Spec

\* The counters and claim objects keep their ranges: next_token never reaches
\* the reserved UINT_MAX.
THEOREM TypeCorrect == Spec => []TypeOK
<1>1. IInv => TypeOK
  BY DEF IInv
<1>2. QED
  BY <1>1, Invariance, PTL

\* Two claim objects are never inside at once, for any number of tasks.
THEOREM Exclusion == Spec => []MutualExclusion
<1>1. IInv => MutualExclusion
  BY DEF IInv
<1>2. QED
  BY <1>1, Invariance, PTL

\* active_token always names who is inside, so a holder's own release is never
\* refused.
THEOREM ActiveToken == Spec => []ActiveTokenAccurate
<1>1. IInv => ActiveTokenAccurate
  BY DEF IInv
<1>2. QED
  BY <1>1, Invariance, PTL

\* The only step that gives a claim object a token gives it one that was never
\* granted before, and never the reserved value.
THEOREM Uniqueness == Spec => TokensUnique
<1> DEFINE Fresh == \A c \in Claimants :
                       claim'[c] # claim[c] /\ claim'[c] # 0
                         => claim'[c] \notin granted /\ claim'[c] < UintMax
<1>1. IInv /\ [Next]_vars => [Fresh]_vars
  <2> SUFFICES ASSUME IInv, Next PROVE Fresh
    BY DEF Fresh
  <2>1. ASSUME NEW c \in Claimants, ClaimAdopt(c) PROVE Fresh
    BY <2>1, UintMaxAssumption DEF IInv, TypeOK, ClaimAdopt, CallsConsistent, GrantsCounted
  <2>2. ASSUME NEW c \in Claimants, ReleaseClear(c) PROVE Fresh
    BY <2>2 DEF IInv, TypeOK, ReleaseClear
  <2>3. ASSUME claim' = claim PROVE Fresh
    BY <2>3
  <2>4. QED
    BY <2>1, <2>2, <2>3 DEF Next, Call, Continue, ClaimInUse, ClaimReserve, ReleaseEmpty,
       Release, ClaimLoad, ClaimGiveUp, ClaimStoreNext, ClaimPublish, ReleaseStale
<1>2. QED
  BY <1>1, Invariance, PTL DEF Spec, TokensUnique

\* Whoever frees the owner was inside: an outdated or forged claim frees nobody.
THEOREM HolderFrees == Spec => OnlyHolderFrees
<1> DEFINE ByHolder == active_token # 0 /\ active_token' = 0
                         => \E c \in Claimants : Inside(c) /\ pc'[c] # pc[c]
<1>1. IInv /\ [Next]_vars => [ByHolder]_vars
  <2> SUFFICES ASSUME IInv, Next, active_token # 0, active_token' = 0
               PROVE  \E c \in Claimants : Inside(c) /\ pc'[c] # pc[c]
    BY DEF ByHolder
  <2>1. ASSUME NEW c \in Claimants, Release(c) PROVE Inside(c) /\ pc'[c] # pc[c]
    BY <2>1 DEF IInv, TypeOK, Release, Inside
  <2>2. ASSUME NEW c \in Claimants, ClaimGiveUp(c) PROVE Inside(c) /\ pc'[c] # pc[c]
    BY <2>2 DEF IInv, TypeOK, ClaimGiveUp, Return, Inside
  <2>3. ASSUME NEW t \in StaleTokens, ReleaseStale(t) PROVE FALSE
    BY <2>3, StaleReleaseIsIdle DEF vars
  <2>4. ASSUME NEW c \in Claimants, ClaimPublish(c) PROVE FALSE
    BY <2>4 DEF IInv, TypeOK, ClaimPublish
  <2>5. ASSUME NEW c \in Claimants, ClaimReserve(c) PROVE FALSE
    BY <2>5 DEF ClaimReserve
  <2>6. QED
    BY <2>1, <2>2, <2>3, <2>4, <2>5 DEF Next, Call, Continue, ClaimInUse, ReleaseEmpty,
       ClaimLoad, ClaimStoreNext, ClaimAdopt, ReleaseClear
<1>2. QED
  BY <1>1, Invariance, PTL DEF Spec, OnlyHolderFrees

-----------------------------------------------------------------------------
(* The refinement *)

Numbered(c) == pc[c] \in {"publish", "adopt"} \/ (pc[c] = "idle" /\ claim[c] # 0)

\* The two state functions of the refinement, and the same facts one step later.
LEMMA MappingInside ==
    ASSUME MutualExclusion, NEW c \in Claimants, Inside(c)
    PROVE  /\ AbstractHolder = c
           /\ Numbered(c) => AbstractCurrent = next_token
           /\ ~Numbered(c) => AbstractCurrent = 0
<1>1. \A d \in Claimants : Inside(d) => d = c
  BY DEF MutualExclusion
<1>2. \A d \in Claimants : Numbered(d) => Inside(d)
  BY DEF Numbered, Inside
<1>3. AbstractHolder = c
  BY <1>1 DEF AbstractHolder
<1>4. QED
  BY <1>1, <1>2, <1>3 DEF AbstractCurrent, Numbered

LEMMA MappingInsideNext ==
    ASSUME MutualExclusion', NEW c \in Claimants, Inside(c)'
    PROVE  /\ AbstractHolder' = c
           /\ Numbered(c)' => AbstractCurrent' = next_token'
           /\ ~Numbered(c)' => AbstractCurrent' = 0
<1>1. \A d \in Claimants : Inside(d)' => d = c
  BY DEF MutualExclusion
<1>2. \A d \in Claimants : Numbered(d)' => Inside(d)'
  BY DEF Numbered, Inside
<1>3. AbstractHolder' = c
  BY <1>1 DEF AbstractHolder
<1>4. QED
  BY <1>1, <1>2, <1>3 DEF AbstractCurrent, Numbered

LEMMA MappingFree ==
    ASSUME \A c \in Claimants : ~Inside(c)
    PROVE  AbstractHolder = Nobody /\ AbstractCurrent = 0
  BY DEF AbstractHolder, AbstractCurrent, Inside

LEMMA MappingFreeNext ==
    ASSUME \A c \in Claimants : ~Inside(c)'
    PROVE  AbstractHolder' = Nobody /\ AbstractCurrent' = 0
  BY DEF AbstractHolder, AbstractCurrent, Inside

\* A step that changes nobody's standing and not the counter is a stutter.
LEMMA MappingStutter ==
    ASSUME next_token' = next_token,
           \A c \in Claimants : (Inside(c)' <=> Inside(c)) /\ (Numbered(c)' <=> Numbered(c)),
           MutualExclusion, MutualExclusion'
    PROVE  UNCHANGED Abstract!vars
<1>1. CASE \E c \in Claimants : Inside(c)
  <2>1. PICK c \in Claimants : Inside(c)
    BY <1>1
  <2>2. QED
    BY <2>1, MappingInside, MappingInsideNext DEF Abstract!vars
<1>2. CASE \A c \in Claimants : ~Inside(c)
  BY <1>2, MappingFree, MappingFreeNext DEF Abstract!vars
<1>3. QED
  BY <1>1, <1>2

LEMMA StepRefines ==
    ASSUME IInv, IInv', Next
    PROVE  [Abstract!Next]_(Abstract!vars)
<1> USE DEF IInv
<1>1. ASSUME NEW c \in Claimants, ClaimReserve(c), active_token = 0 PROVE Abstract!Take(c)
  <2>1. \A d \in Claimants : ~Inside(d)
    BY <1>1 DEF ActiveTokenAccurate
  <2>2. Inside(c)' /\ ~Numbered(c)' /\ next_token' = next_token
    BY <1>1 DEF ClaimReserve, Inside, Numbered, TypeOK
  <2>3. QED
    BY <2>1, <2>2, MappingFree, MappingInsideNext DEF Abstract!Take
<1>2. ASSUME NEW c \in Claimants, ClaimStoreNext(c) PROVE Abstract!Issue(c)
  <2>1. Inside(c) /\ ~Numbered(c) /\ Inside(c)' /\ Numbered(c)'
    BY <1>2 DEF ClaimStoreNext, Inside, Numbered, TypeOK
  <2>2. next_token < UintMax - 1 /\ next_token' = next_token + 1
    BY <1>2 DEF ClaimStoreNext, CallsConsistent
  <2>3. QED
    BY <2>1, <2>2, MappingInside, MappingInsideNext DEF Abstract!Issue
<1>3. ASSUME NEW c \in Claimants, ClaimGiveUp(c) PROVE Abstract!Give(c)
  <2>1. Inside(c) /\ active_token' = 0 /\ next_token' = next_token
    BY <1>3 DEF ClaimGiveUp, Inside
  <2>2. \A d \in Claimants : ~Inside(d)'
    BY <2>1 DEF ActiveTokenAccurate
  <2>3. QED
    BY <2>1, <2>2, MappingInside, MappingFreeNext DEF Abstract!Give
<1>4. ASSUME NEW c \in Claimants, Release(c), active_token = claim[c] PROVE Abstract!Give(c)
  <2>1. Inside(c) /\ active_token' = 0 /\ next_token' = next_token
    BY <1>4 DEF Release, Inside
  <2>2. \A d \in Claimants : ~Inside(d)'
    BY <2>1 DEF ActiveTokenAccurate
  <2>3. QED
    BY <2>1, <2>2, MappingInside, MappingFreeNext DEF Abstract!Give
<1>5. ASSUME NEW c \in Claimants, Return(c, "false"), pc[c] = "idle",
             UNCHANGED <<next_token, claim>>
      PROVE  UNCHANGED Abstract!vars
  <2>1. pc' = pc
    BY <1>5 DEF Return, TypeOK
  <2>2. QED
    BY <1>5, <2>1, MappingStutter DEF Inside, Numbered
<1>6. ASSUME NEW c \in Claimants, ClaimLoad(c) \/ ClaimPublish(c) \/ ReleaseClear(c) \/ ClaimAdopt(c)
      PROVE  UNCHANGED Abstract!vars
  <2>1. \A d \in Claimants : (Inside(d)' <=> Inside(d)) /\ (Numbered(d)' <=> Numbered(d))
    <3>1. CASE ClaimLoad(c)
      BY <3>1 DEF ClaimLoad, Inside, Numbered, TypeOK
    <3>2. CASE ClaimPublish(c)
      BY <3>2 DEF ClaimPublish, Inside, Numbered, TypeOK
    <3>3. CASE ReleaseClear(c)
      BY <3>3 DEF ReleaseClear, Return, Inside, Numbered, TypeOK
    <3>4. CASE ClaimAdopt(c)
      BY <3>4 DEF ClaimAdopt, Return, Inside, Numbered, TypeOK
    <3>5. QED
      BY <1>6, <3>1, <3>2, <3>3, <3>4
  <2>2. next_token' = next_token
    BY <1>6 DEF ClaimLoad, ClaimPublish, ReleaseClear, ClaimAdopt
  <2>3. QED
    BY <2>1, <2>2, MappingStutter
<1>7. ASSUME NEW t \in StaleTokens, ReleaseStale(t) PROVE UNCHANGED Abstract!vars
  BY <1>7, MappingStutter DEF ReleaseStale, Inside, Numbered
<1>8. ASSUME NEW c \in Claimants, Call(c) PROVE [Abstract!Next]_(Abstract!vars)
  BY <1>1, <1>4, <1>5, <1>8 DEF Call, ClaimInUse, ClaimReserve, ReleaseEmpty, Release,
     Abstract!Next
<1>9. ASSUME NEW c \in Claimants, Continue(c) PROVE [Abstract!Next]_(Abstract!vars)
  BY <1>2, <1>3, <1>6, <1>9 DEF Continue, Abstract!Next
<1>10. QED
  BY <1>7, <1>8, <1>9 DEF Next

\* The storage owner implements the exclusive claim of ExclusiveClaim: every
\* atomic access is a take, an issue of a fresh token, a return, or invisible.
THEOREM Refinement == Spec => ImplementsExclusiveClaim
<1>1. Init => Abstract!Init
  BY MappingFree DEF Init, Inside, Abstract!Init
<1>2. IInv /\ IInv' /\ [Next]_vars => [Abstract!Next]_(Abstract!vars)
  <2>1. ASSUME IInv, IInv', Next PROVE [Abstract!Next]_(Abstract!vars)
    BY <2>1, StepRefines
  <2>2. ASSUME IInv, IInv', UNCHANGED vars PROVE UNCHANGED Abstract!vars
    BY <2>2, MappingStutter DEF vars, IInv, Inside, Numbered
  <2>3. QED
    BY <2>1, <2>2
<1>3. QED
  BY <1>1, <1>2, Invariance, PTL DEF Spec, ImplementsExclusiveClaim, Abstract!Spec

-----------------------------------------------------------------------------
(* The identity in NVS                                                       *)

\* The identities that the device makes for itself.
Own == [name : Names, well : {TRUE}, version : {4}, variant : 8 .. 11]

\* Where the key of the first boot is on its way to flash.
OnItsWay ==
    /\ id_pc \in {"off", "open", "get", "generate", "set", "commit", "done"}
    /\ id_pc \in {"open", "get", "generate"} => staged = stored
    /\ id_pc \in {"generate", "set"} => stored = Id!Nothing
    /\ id_pc \in {"set", "commit"} => output \in Own
    /\ id_pc = "commit" => staged = output /\ stored \in {Id!Nothing, output}

\* From the moment the device has come up flash holds its identity, the boots that are
\* up have it, and no other maker's key is ever taken for one.
OnceToldKept ==
    /\ told # Id!Nothing => stored = told
    /\ id_pc = "commit" => told \in {Id!Nothing, output}
    /\ id_pc = "done" /\ id_result = "ok" => told # Id!Nothing /\ output = told
    /\ id_pc = "done" /\ id_result = "invalid_state" => stored \in Id!Foreign /\ told = Id!Nothing

IdentityInv ==
    /\ stored \in {Id!Nothing} \cup Id!Foreign \cup Own
    /\ told \in {Id!Nothing} \cup Own
    /\ OnItsWay
    /\ OnceToldKept

\* The kinds of keys exclude each other, and is_uuid_v4 takes exactly the device's own.
LEMMA KindsOfKeys ==
    /\ Id!Nothing \notin Own /\ Id!Nothing \notin Id!Foreign /\ ~Id!IsUuidV4(Id!Nothing)
    /\ \A u \in Own : Id!IsUuidV4(u) /\ u \notin Id!Foreign
    /\ \A u \in Id!Foreign : ~Id!IsUuidV4(u)
<1>1. \A u \in Own : Id!IsUuidV4(u)
  BY DEF Own, Id!IsUuidV4
<1>2. ASSUME NEW u \in Id!Foreign
      PROVE  ~Id!IsUuidV4(u)
  <2>1. u.well = FALSE \/ u.variant \in {3, 12}
    BY DEF Id!Foreign
  <2>2. CASE u.well = FALSE
    BY <2>2 DEF Id!IsUuidV4
  <2>3. CASE u.variant \in {3, 12}
    <3>1. u.variant \notin 8 .. 11
      BY <2>3
    <3> QED
      BY <3>1 DEF Id!IsUuidV4
  <2> QED
    BY <2>1, <2>2, <2>3
<1>3. ~Id!IsUuidV4(Id!Nothing)
  BY DEF Id!Nothing, Id!IsUuidV4
<1>4. (\A u \in Id!Foreign : u.name \in Names) /\ Id!Nothing.name \notin Names
  BY PartsAssumption DEF Id!Foreign, Id!Nothing, Id!IdentityAssumption
<1> QED
  BY <1>1, <1>2, <1>3, <1>4

\* generate_uuid makes an identity of the device of whatever the random bytes are.
LEMMA GeneratedIsOwn ==
    ASSUME NEW name \in Names, NEW six \in Bytes, NEW eight \in Bytes
    PROVE  Id!Generated(name, six, eight) \in Own
<1>1. six \in 0 .. 255 /\ eight \in 0 .. 255
  BY PartsAssumption DEF Id!IdentityAssumption
<1>2. ((six % 16) + 64) \div 16 = 4
  BY <1>1
<1>3. ((eight % 64) + 128) \div 16 \in 8 .. 11
  BY <1>1
<1> QED
  BY <1>2, <1>3 DEF Id!Generated, Own

LEMMA IdentityInvInit == Id!Init => IdentityInv
  BY KindsOfKeys DEF Id!Init, IdentityInv, OnItsWay, OnceToldKept

LEMMA IdentityInvStep ==
    ASSUME IdentityInv, [Id!Next]_identityVars
    PROVE  IdentityInv'
<1> USE DEF IdentityInv, OnItsWay, OnceToldKept
<1>1. CASE Id!Boot
  BY <1>1 DEF Id!Boot
<1>2. CASE Id!OpenFails \/ Id!GetFails \/ Id!SetFails \/ Id!CommitFails
  BY <1>2 DEF Id!OpenFails, Id!GetFails, Id!SetFails, Id!CommitFails, Id!Ends
<1>3. CASE Id!Open
  BY <1>3 DEF Id!Open
<1>4. CASE Id!GetFound
  <2>1. CASE stored \in Own
    <3>1. Id!IsUuidV4(staged) /\ output' = stored
      BY <1>4, <2>1, KindsOfKeys DEF Id!GetFound
    <3> QED
      BY <1>4, <2>1, <3>1, KindsOfKeys DEF Id!GetFound, Id!Ends
  <2>2. CASE stored \in Id!Foreign
    <3>1. ~Id!IsUuidV4(staged) /\ told = Id!Nothing
      BY <1>4, <2>2, KindsOfKeys DEF Id!GetFound
    <3> QED
      BY <1>4, <2>2, <3>1, KindsOfKeys DEF Id!GetFound, Id!Ends
  <2> QED
    BY <1>4, <2>1, <2>2 DEF Id!GetFound
<1>5. CASE Id!GetNotFound
  BY <1>5 DEF Id!GetNotFound
<1>6. CASE Id!Generate
  <2>1. output' \in Own
    BY <1>6, GeneratedIsOwn DEF Id!Generate
  <2> QED
    BY <1>6, <2>1 DEF Id!Generate
<1>7. CASE Id!Set
  <2>1. told = Id!Nothing
    BY <1>7, KindsOfKeys DEF Id!Set
  <2> QED
    BY <1>7, <2>1 DEF Id!Set
<1>8. CASE Id!Commit
  BY <1>8, KindsOfKeys DEF Id!Commit, Id!Ends
<1>9. CASE Id!PowerLost
  BY <1>9 DEF Id!PowerLost
<1>10. CASE UNCHANGED identityVars
  BY <1>10 DEF identityVars
<1> QED
  BY <1>1, <1>2, <1>3, <1>4, <1>5, <1>6, <1>7, <1>8, <1>9, <1>10 DEF Id!Next

-----------------------------------------------------------------------------
(* The container operation.  A set handed to it is the truth, and after an    *)
(* outcome nobody knows nothing that boots changes.                           *)

Stages == {"idle", "before", "mapped", "after", "leave"}

SlotsTyped ==
    /\ running \in Container!Slots /\ boot \in Container!Slots
    /\ image \in [Container!Slots -> Container!Signed \cup {Container!Forged}]
    /\ entry \in [Container!Slots -> Container!EntryStates]
    /\ stage \in Stages

\* What an observation has established by the step it is in; under the claim none of
\* it can have changed.
Established ==
    /\ ~Container!Observing => step = "none"
    /\ step \in {"running", "target", "again"} => seen = Container!Here
    /\ step \in {"target", "again"} => image[running] \in BaseImages
    /\ step = "again" =>
          IF entry[Container!Target] = "valid" THEN image[Container!Target] \in BaseImages
          ELSE image[Container!Target] \notin Container!Signed

\* A set is the truth from its observation on.
SetHolds ==
    stage \in {"mapped", "after", "leave"} /\ set # Container!NoSet =>
        /\ set.running = image[running] /\ set.bootable = Container!Bootable
        /\ Container!Bootable \subseteq BaseImages

\* From the operation on the claim is kept until its outcome is known.
BoundHolds ==
    /\ stage # "idle" \/ bound # {} => holder = "container"
    /\ stage \in {"before", "mapped"} => bound = {}
    /\ stage = "after" => set # Container!NoSet
    /\ stage = "leave" /\ bound # {} => set # Container!NoSet
    /\ bound # {} => bound = Container!Bootable
    /\ bound # {} /\ stage = "idle" => decision = "blocked"

ContainerInv == SlotsTyped /\ Established /\ SetHolds /\ BoundHolds

LEMMA ContainerInvInit == Container!Init => ContainerInv
BY DEF Container!Init, ContainerInv, SlotsTyped, Established, SetHolds, BoundHolds,
       Container!Slots, Container!EntryStates, Stages,
       Container!Observing

\* Startup and OTA move only while the claim is not the container's: no operation is
\* under way and none has left its outcome open.
LEMMA OthersKeep ==
  ASSUME ContainerInv,
         \/ Container!BootReady \/ Container!OtaClaims \/ Container!OtaErases
         \/ Container!OtaWrites \/ Container!OtaSelects \/ Container!OtaFails
  PROVE  ContainerInv'
<1>1. /\ stage = "idle" /\ bound = {} /\ step = "none"
      /\ UNCHANGED <<running, stage, step, seen, set, again, outcome, decision, bound>>
  BY DEF ContainerInv, BoundHolds, Established, Container!Observing,
         Container!observation, Container!answer, Container!flash,
         Container!BootReady, Container!OtaClaims, Container!OtaErases,
              Container!OtaWrites, Container!OtaSelects, Container!OtaFails
<1>2. SlotsTyped'
  <2> USE DEF ContainerInv, SlotsTyped, Container!Slots, Container!EntryStates,
       Container!Target, Container!flash
  <2>1. CASE Container!BootReady
    BY <2>1 DEF Container!BootReady
  <2>2. CASE Container!OtaClaims \/ Container!OtaFails
    BY <2>2 DEF Container!OtaClaims, Container!OtaFails
  <2>3. CASE Container!OtaErases
    BY <2>3 DEF Container!OtaErases
  <2>4. CASE Container!OtaWrites
    BY <2>4 DEF Container!OtaWrites
  <2>5. CASE Container!OtaSelects
    BY <2>5 DEF Container!OtaSelects
  <2> QED
    BY <2>1, <2>2, <2>3, <2>4, <2>5
<1> QED
  BY <1>1, <1>2 DEF ContainerInv, Established, SetHolds, BoundHolds, Container!Observing

LEMMA RestartKeeps ==
  ASSUME ContainerInv, Container!Restart
  PROVE  ContainerInv'
<1>1. /\ stage' = "idle" /\ step' = "none" /\ bound' = {} /\ set' = Container!NoSet
      /\ image' = image /\ boot' = running'
  BY DEF Container!Restart
<1>2. SlotsTyped'
  <2>1. running' \in Container!Slots
    BY DEF Container!Restart, ContainerInv, SlotsTyped, Container!Slots
  <2>2. entry' \in [Container!Slots -> Container!EntryStates]
    BY DEF Container!Restart, ContainerInv, SlotsTyped, Container!EntryStates
  <2> QED
    BY <1>1, <2>1, <2>2 DEF ContainerInv, SlotsTyped, Stages
<1> QED
  BY <1>1, <1>2 DEF ContainerInv, Established, SetHolds, BoundHolds, Container!Observing

\* A step of an observation; only its last one yields a set.
LEMMA ObservationKeeps ==
  ASSUME ContainerInv,
         \/ Container!Unsure \/ Container!LookFirst
         \/ Container!VerifyRunning \/ Container!VerifyTarget
  PROVE  ContainerInv'
<1>1. UNCHANGED <<image, entry, boot, running, holder, decision,
     bound>> /\ Container!Observing
      /\ Container!Bootable' = Container!Bootable /\ Container!Target' = Container!Target
      /\ Container!Here' = Container!Here
  BY DEF Container!Unsure, Container!LookFirst, Container!VerifyRunning,
         Container!VerifyTarget, Container!flash, Container!answer, Container!Bootable,
              Container!Target, Container!Here
<1>2. CASE Container!Unsure
  BY <1>1, <1>2
     DEF Container!Unsure, Container!Observed, ContainerInv, SlotsTyped, Established,
         SetHolds, BoundHolds, Container!Observing,
         Stages
<1>3. CASE Container!LookFirst
  BY <1>1, <1>3
     DEF Container!LookFirst, ContainerInv, SlotsTyped, Established, SetHolds,
         BoundHolds, Container!Observing
<1>4. CASE Container!VerifyRunning
  BY <1>1, <1>4
     DEF Container!VerifyRunning, Container!Matching, Container!Here, ContainerInv,
         SlotsTyped, Established, SetHolds, BoundHolds,
         Container!Observing
<1>5. CASE Container!VerifyTarget
  BY <1>1, <1>5
     DEF Container!VerifyTarget, Container!Matching, Container!Here,
         Container!HasRollback, Container!Target, ContainerInv, SlotsTyped, Established,
         SetHolds, BoundHolds, Container!Observing
<1> QED
  BY <1>2, <1>3, <1>4, <1>5

\* What the two slots hold, by the steps of the observation, is all that could boot.
LEMMA ObservedIsTrue ==
  ASSUME SlotsTyped, Established, step = "again"
  PROVE  /\ Container!Bootable \subseteq BaseImages
         /\ Container!Bootable = {image[running]} \cup
                       (IF Container!HasRollback THEN {image[Container!Target]} ELSE {})
<1>1. Container!Slots = {running, Container!Target} /\ seen = Container!Here
  BY DEF SlotsTyped, Established, Container!Slots, Container!Target
<1>2. Container!HasRollback <=> entry[Container!Target] = "valid"
  BY <1>1 DEF Container!HasRollback, Container!Here, Container!Target
<1>3. Container!Bootable = {image[running], image[Container!Target]} \cap Container!Signed
  BY <1>1 DEF Container!Bootable
<1>4. image[running] \in BaseImages
  BY DEF Established
<1>5. CASE Container!HasRollback
  <2>1. image[Container!Target] \in BaseImages
    BY <1>2, <1>5 DEF Established
  <2> QED
    BY <1>3, <1>4, <1>5, <2>1 DEF Container!Signed
<1>6. CASE ~Container!HasRollback
  <2>1. image[Container!Target] \notin Container!Signed
    BY <1>2, <1>6 DEF Established
  <2> QED
    BY <1>3, <1>4, <1>6, <2>1 DEF Container!Signed
<1> QED
  BY <1>5, <1>6

LEMMA LookAgainKeeps ==
  ASSUME ContainerInv, Container!LookAgain
  PROVE  ContainerInv'
<1>1. UNCHANGED <<image, entry, boot, running, holder, decision, bound>>
      /\ Container!Bootable' = Container!Bootable /\ step' = "none"
  BY DEF Container!LookAgain, Container!flash, Container!answer, Container!Bootable
<1>2. seen.running = running /\ 1 - seen.running = Container!Target
  BY DEF Container!LookAgain, Container!Here, Container!Target
<1>3. /\ Container!Bootable \subseteq BaseImages
      /\ Container!Bootable =
           {image[running]} \cup (IF Container!HasRollback THEN {image[Container!Target]} ELSE {})
  BY ObservedIsTrue DEF Container!LookAgain, ContainerInv
<1>4. \/ /\ stage = "before" /\ stage' = "mapped"
         /\ set'.running = image[running] /\ set'.bootable = Container!Bootable
      \/ stage = "after" /\ stage' = "leave" /\ set' = set
  BY <1>2, <1>3 DEF Container!LookAgain, Container!Observed
<1> QED
  BY <1>1, <1>3, <1>4
     DEF ContainerInv, SlotsTyped, Established, SetHolds, BoundHolds,
         Container!Observing, Stages

\* The adapter around the operation.
LEMMA AdapterKeeps ==
  ASSUME ContainerInv,
       Container!Reconcile \/ Container!Operate \/ Container!OperateNot \/ Container!Leave
  PROVE  ContainerInv'
<1>1. UNCHANGED <<image, entry, boot, running>> /\ Container!Bootable' = Container!Bootable
  BY DEF Container!Reconcile, Container!Operate, Container!OperateNot, Container!Leave,
         Container!flash, Container!Bootable
<1>2. CASE Container!Reconcile
  BY <1>1, <1>2
     DEF Container!Reconcile, ContainerInv, SlotsTyped, Established, SetHolds,
         BoundHolds, Container!Observing, Stages,
         Container!Here
<1>3. CASE Container!Operate
  BY <1>1, <1>3
     DEF Container!Operate, ContainerInv, SlotsTyped, Established, SetHolds, BoundHolds,
         Container!Observing, Stages
<1>4. CASE Container!OperateNot
  BY <1>1, <1>4
     DEF Container!OperateNot, ContainerInv, SlotsTyped, Established, SetHolds,
         BoundHolds, Container!Observing, Stages,
         Container!observation, Container!answer
<1>5. CASE Container!Leave
  BY <1>1, <1>5
     DEF Container!Leave, Container!Known, ContainerInv, SlotsTyped, Established,
         SetHolds, BoundHolds, Container!Observing,
         Stages, Container!observation, Container!answer
<1> QED
  BY <1>2, <1>3, <1>4, <1>5

LEMMA ContainerInvStep ==
  ASSUME ContainerInv, [Container!Next]_containerVars
  PROVE  ContainerInv'
<1>1. UNCHANGED containerVars => ContainerInv'
  BY DEF containerVars, ContainerInv, SlotsTyped, Established, SetHolds, BoundHolds,
         Container!Observing, Container!Bootable, Container!Target, Container!Here
<1> QED
  BY <1>1, OthersKeep, RestartKeeps, ObservationKeeps, LookAgainKeeps, AdapterKeeps
     DEF Container!Next

-----------------------------------------------------------------------------
(* The four parts side by side.  A behaviour  of the composition is one of    *)
(* each part: it takes that part's steps or leaves its variables alone.       *)

LEMMA ContainerInvAlways == MCSpec => []ContainerInv
<1>1. MCInit => ContainerInv
  BY ContainerInvInit DEF MCInit
<1>2. ContainerInv /\ [MCNext]_MCvars => ContainerInv'
  <2> SUFFICES ASSUME ContainerInv, [MCNext]_MCvars
               PROVE  ContainerInv'
    OBVIOUS
  <2>1. [Container!Next]_containerVars
    BY DEF MCNext, MCvars, restOfOwner, restOfIdentity, restOfWindow
  <2> QED
    BY <2>1, ContainerInvStep
<1> QED
  BY <1>1, <1>2, PTL DEF MCSpec

\* While the operation has a set, its members are all that the boot loader could
\* start, its fallback scan included, and each is an image of this product
\* (esp_base_ota_observe_firmware_set, esp_base_container_with_firmware_set).
THEOREM ObservedSetIsComplete == MCSpec => []SetIsComplete
<1>1. ContainerInv => SetIsComplete
  BY DEF ContainerInv, SetHolds, SetIsComplete, Container!SetIsComplete
<1> QED
  BY <1>1, ContainerInvAlways, PTL

\* After an operation whose outcome is not known, nothing that boots changes before the
\* restart, and nobody is told to start the package (line 66: the claim is kept).
THEOREM UnknownIsFrozen == MCSpec => []UnknownFreezes
<1>1. ContainerInv => UnknownFreezes
  BY DEF ContainerInv, BoundHolds, UnknownFreezes, Container!UnknownFreezes
<1> QED
  BY <1>1, ContainerInvAlways, PTL

\* The device has one identity for life, whatever NVS calls fail and wherever the power
\* goes between the set and the commit of its key, and whatever the random bytes are: and
\* it never turns that identity down (esp_base_identity_read, generate_uuid, is_uuid_v4).
THEOREM OneIdentity == MCSpec => []IdentityStable
<1>1. MCInit => IdentityInv
  BY IdentityInvInit DEF MCInit
<1>2. IdentityInv /\ [MCNext]_MCvars => IdentityInv'
  <2> SUFFICES ASSUME IdentityInv, [MCNext]_MCvars
               PROVE  IdentityInv'
    OBVIOUS
  <2>1. [Id!Next]_identityVars
    BY DEF MCNext, MCvars, restOfOwner, restOfContainer, restOfWindow
  <2> QED
    BY <2>1, IdentityInvStep
<1>3. IdentityInv => IdentityStable
  BY DEF IdentityInv, OnceToldKept, IdentityStable, Id!IdentityStable
<1> QED
  BY <1>1, <1>2, <1>3, PTL DEF MCSpec

\* The window is watched in the composition as it is alone.
LEMMA WindowInside == MCSpec => Watch!Spec
<1>1. MCInit => Watch!Init
  BY DEF MCInit
<1>2. [MCNext]_MCvars => [Watch!Next]_(Watch!vars)
  <2>1. CASE UNCHANGED windowVars
    BY <2>1 DEF windowVars, Watch!vars, Watch!controlVars, Watch!mainVars
  <2>2. CASE Watch!Next
    BY <2>2
  <2> QED
    BY <2>1, <2>2 DEF MCNext, MCvars, restOfOwner, restOfContainer, restOfIdentity
<1> QED
  BY <1>1, <1>2, PTL DEF MCSpec, Watch!Spec

\* app_main calls eota_confirm_pending only if the control task never fell silent for
\* longer than the freshness limit, a pause of the window and twice app_main's lateness
\* (wait_for_control_start and the confirmation window of esp_base_main.c).
THEOREM SilenceIsNotConfirmed == MCSpec => []ConfirmedOnlyAlive
<1>1. Watch!WindowAssumption /\ Watch!LimitsAssumption
  BY PartsAssumption
<1>2. Watch!WindowAssumption /\ Watch!LimitsAssumption /\ Watch!Spec
        => []Watch!ConfirmedOnlyAlive
  BY Watch!NoHangConfirmed
<1> QED
  BY <1>1, <1>2, WindowInside, PTL DEF ConfirmedOnlyAlive

\* A control task that reads the clock twice within every limit is never the reason of a
\* rollback (control_state.c as app_main reads it).
THEOREM QuickIsNotRejected == MCSpec => []LiveNotRejected
<1>1. Watch!WindowAssumption /\ Watch!LimitsAssumption
  BY PartsAssumption
<1>2. Watch!WindowAssumption /\ Watch!LimitsAssumption /\ Watch!Spec
        => []Watch!LiveNotRejected
  BY Watch!NoRaceRejected
<1> QED
  BY <1>1, <1>2, WindowInside, PTL DEF LiveNotRejected

\* app_main leaves its waits within the sum of their limits and pauses (the same).
THEOREM DecisionInTime == MCSpec => []DecidedInTime
<1>1. Watch!WindowAssumption /\ Watch!LimitsAssumption
  BY PartsAssumption
<1>2. Watch!WindowAssumption /\ Watch!LimitsAssumption /\ Watch!Spec
        => []Watch!DecidedInTime
  BY Watch!WaitsAreBounded
<1> QED
  BY <1>1, <1>2, WindowInside, PTL DEF DecidedInTime
=============================================================================
