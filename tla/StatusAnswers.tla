---------------------------- MODULE StatusAnswers ---------------------------
(***************************************************************************)
(* What the FRP status endpoint promises a caller who may repeat requests: *)
(* until its deadline an identifier stands for one request, and every      *)
(* repetition of that request gets the status given first.                 *)
(***************************************************************************)
EXTENDS Naturals

CONSTANTS Ids, Statuses, Window, MaxNow

VARIABLES
    now,
    remembered,  \* for each identifier {} or {[expires, status]}
    reply        \* the last reply: {} or {[request, status]}; {} is a refusal

vars == <<now, remembered, reply>>

Requests == [id : Ids, here : BOOLEAN, expires : 0 .. MaxNow + Window + 1]

Init == now = 0 /\ remembered = [id \in Ids |-> {}] /\ reply = {}

Known(r) == {m \in remembered[r.id] : r.here /\ m.expires = r.expires}

Repeat(r) ==
    \E m \in Known(r) :
        /\ reply' = {[request |-> r, status |-> m.status]}
        /\ UNCHANGED <<now, remembered>>

First(r) ==
    /\ remembered[r.id] = {}
    /\ r.here /\ r.expires \in now + 1 .. now + Window
    /\ \E s \in Statuses :
          /\ remembered' = [remembered EXCEPT ![r.id] = {[expires |-> r.expires, status |-> s]}]
          /\ reply' = {[request |-> r, status |-> s]}
    /\ UNCHANGED now

Refuse(r) ==
    /\ Known(r) = {}
    /\ reply' = {}
    /\ UNCHANGED <<now, remembered>>

Tick ==
    /\ now' = now + 1
    /\ remembered' = [id \in Ids |-> {m \in remembered[id] : m.expires > now'}]
    /\ UNCHANGED reply

Next == Tick \/ \E r \in Requests : Repeat(r) \/ First(r) \/ Refuse(r)

Spec == Init /\ [][Next]_vars
=============================================================================
