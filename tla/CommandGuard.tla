---------------------------- MODULE CommandGuard ----------------------------
(***************************************************************************)
(* Admission of write commands, command_guard.c.  A request names its      *)
(* identifier, the device and the boot it is meant for, its deadline and   *)
(* its body; the body stands for the SHA-256 fingerprint, which is equal   *)
(* exactly for equal bodies.  `wellformed` says that the three identifiers *)
(* pass ebase_is_uuid.                                                     *)
(***************************************************************************)
EXTENDS Naturals, Sequences

CONSTANTS
    RequestSlots,   \* EBASE_REQUEST_SLOTS
    RequestWindow   \* EBASE_REQUEST_WINDOW_MS

ASSUME GuardAssumption ==
    /\ RequestSlots \in Nat \ {0}
    /\ RequestWindow \in Nat \ {0}

\* The slots of earlier requests that carry the identifier of r.
SameId(guard, r) == {i \in DOMAIN guard : guard[i].id = r.id}

SamePayload(p, r) == p.expires = r.expires /\ p.body = r.body

\* Mutant: the boot a request is bound to is not compared.
AdmitAnyBoot(guard, r, device, boot, now) ==
    IF ~r.wellformed THEN "bad_identity"
    ELSE IF r.device # device THEN "wrong_device"
    ELSE IF SameId(guard, r) # {} THEN
        (IF \A i \in SameId(guard, r) : SamePayload(guard[i], r) THEN "replay" ELSE "conflict")
    ELSE IF r.expires <= now THEN "expired"
    ELSE IF r.expires - now > RequestWindow THEN "bad_window"
    ELSE IF Len(guard) = RequestSlots THEN "queue_full"
    ELSE "accept"

\* The decision for request r on this device, in this boot, at time now.  The
\* lookup by identifier precedes the deadline, so a retry after the deadline
\* still finds its first outcome; the subtraction follows the ordering test.
Admit(guard, r, device, boot, now) ==
    IF ~r.wellformed THEN "bad_identity"
    ELSE IF r.device # device THEN "wrong_device"
    ELSE IF r.boot # boot THEN "wrong_boot"
    ELSE IF SameId(guard, r) # {} THEN
        (IF \A i \in SameId(guard, r) : SamePayload(guard[i], r) THEN "replay" ELSE "conflict")
    ELSE IF r.expires <= now THEN "expired"
    ELSE IF r.expires - now > RequestWindow THEN "bad_window"
    ELSE IF Len(guard) = RequestSlots THEN "queue_full"
    ELSE "accept"
=============================================================================
