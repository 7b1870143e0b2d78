--------------------------- MODULE ExclusiveClaim ---------------------------
(***************************************************************************)
(* What the storage owner promises its callers (the boot task, the OTA     *)
(* control path and the optional container adapter): at most one of them   *)
(* is inside at a time, every grant carries a token that no earlier grant  *)
(* carried, and the number of grants is bounded because the counter never  *)
(* wraps.  StorageOwner refines this specification.                        *)
(***************************************************************************)
EXTENDS Naturals

CONSTANTS
    Claimants,  \* the claim objects of the boot task, OTA and the adapter
    Nobody,     \* the holder when the owner is free
    Limit       \* the last token that may be granted

VARIABLES
    holder,     \* who is inside, or Nobody
    last,       \* the last token issued
    current     \* the token of the holder, 0 until it has one

vars == <<holder, last, current>>

Init == /\ holder = Nobody
        /\ last = 0
        /\ current = 0

Take(c) == /\ holder = Nobody
           /\ holder' = c
           /\ UNCHANGED <<last, current>>

Issue(c) == /\ holder = c
            /\ current = 0
            /\ last < Limit
            /\ last' = last + 1
            /\ current' = last + 1
            /\ UNCHANGED holder

Give(c) == /\ holder = c
           /\ holder' = Nobody
           /\ current' = 0
           /\ UNCHANGED last

Next == \E c \in Claimants : Take(c) \/ Issue(c) \/ Give(c)

Spec == Init /\ [][Next]_vars
=============================================================================
