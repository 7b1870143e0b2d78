------------------------------- MODULE Identity -----------------------------
(***************************************************************************)
(* The identity of the device, esp_base_identity.c: read from NVS in every *)
(* boot, made up and stored in the first one.  NVS is external and may     *)
(* fail at every call; what was set but not committed may or may not be    *)
(* there after a loss of power, and what was committed is.  A device whose *)
(* identity cannot be read goes no further in that boot                    *)
(* (esp_base_main.c); one whose identity was read tells it to the world.   *)
(*                                                                         *)
(* Of a text that may be a UUID the model keeps its length and alphabet    *)
(* (well), the digit of its version and the digit of its variant; of the   *)
(* sixteen random bytes the two that generate_uuid rewrites.               *)
(***************************************************************************)
EXTENDS Naturals

CONSTANTS
    Names,   \* what the bytes left random can be
    Bytes    \* values of the random bytes 6 and 8

IdentityAssumption ==
    Names # {} /\ "NOT_FOUND" \notin Names /\ Bytes # {} /\ Bytes \subseteq 0..255

Nothing == [name |-> "NOT_FOUND", well |-> FALSE, version |-> 0, variant |-> 0]

VARIABLES
    stored,    \* the key as NVS has it in its flash
    staged,    \* the key as this boot's handle has it
    output,    \* identity->device_id
    pc,        \* where esp_base_identity_read is
    result,    \* what it returned
    told       \* history: the identity the device first came up with

vars == <<stored, staged, output, pc, result, told>>

\* What another maker of the key may have left: a UUID in capitals, or of
\* another version or variant.
Foreign ==
    [name : Names, well : {FALSE}, version : {4}, variant : {8}]
        \cup [name : Names, well : {TRUE}, version : {1, 4}, variant : {3, 12}]

Init ==
    /\ stored \in {Nothing} \cup Foreign
    /\ staged = stored
    /\ output = Nothing /\ pc = "off" /\ result = "none" /\ told = Nothing

-----------------------------------------------------------------------------
(* is_uuid_v4 and esp_base_identity_generate_uuid *)

IsUuidV4(u) == u.well /\ u.version = 4 /\ u.variant \in 8..11

\* The high half of byte 6 becomes 4; the two high bits of byte 8 become 10,
\* and its variant digit is its high half.
Generated(name, six, eight) ==
    [name |-> name, well |-> TRUE,
     version |-> ((six % 16) + 64) \div 16,
     variant |-> ((eight % 64) + 128) \div 16]

-----------------------------------------------------------------------------
(* esp_base_identity_read *)

Ends(with) == pc' = "done" /\ result' = with

\* app_main reaches esp_base_identity_read.
Boot ==
    /\ pc = "off"
    /\ pc' = "open"
    /\ staged' = stored /\ output' = Nothing /\ result' = "none"
    /\ UNCHANGED <<stored, told>>

\* The size of the flash, the MAC address or the namespace cannot be read.
OpenFails ==
    /\ pc = "open"
    /\ Ends("failed")
    /\ UNCHANGED <<stored, staged, output, told>>

Open ==
    /\ pc = "open"
    /\ pc' = "get"
    /\ UNCHANGED <<stored, staged, output, result, told>>

GetFails ==
    /\ pc = "get"
    /\ Ends("failed")
    /\ UNCHANGED <<stored, staged, output, told>>

GetFound ==
    /\ pc = "get"
    /\ staged # Nothing
    /\ output' = staged
    /\ Ends(IF IsUuidV4(staged) THEN "ok" ELSE "invalid_state")
    /\ told' = IF told = Nothing /\ IsUuidV4(staged) THEN staged ELSE told
    /\ UNCHANGED <<stored, staged>>

GetNotFound ==
    /\ pc = "get"
    /\ staged = Nothing
    /\ pc' = "generate"
    /\ UNCHANGED <<stored, staged, output, result, told>>

Generate ==
    /\ pc = "generate"
    /\ \E name \in Names, six \in Bytes, eight \in Bytes :
          output' = Generated(name, six, eight)
    /\ pc' = "set"
    /\ UNCHANGED <<stored, staged, result, told>>

SetFails ==
    /\ pc = "set"
    /\ Ends("failed")
    /\ UNCHANGED <<stored, staged, output, told>>

\* NVS may write the key through at once.
Set ==
    /\ pc = "set"
    /\ staged' = output
    /\ stored' \in {stored, output}
    /\ pc' = "commit"
    /\ UNCHANGED <<output, result, told>>

\* Mutant: what nvs_commit returned is not looked at.
CommitFailsUnseen ==
    /\ pc = "commit"
    /\ Ends("ok")
    /\ told' = IF told = Nothing THEN output ELSE told
    /\ UNCHANGED <<stored, staged, output>>

CommitFails ==
    /\ pc = "commit"
    /\ Ends("failed")
    /\ UNCHANGED <<stored, staged, output, told>>

Commit ==
    /\ pc = "commit"
    /\ stored' = staged
    /\ Ends("ok")
    /\ told' = IF told = Nothing THEN output ELSE told
    /\ UNCHANGED <<staged, output>>

-----------------------------------------------------------------------------
(* The power goes and comes back, at any time *)

PowerLost ==
    /\ pc # "off"
    /\ pc' = "off"
    /\ UNCHANGED <<stored, staged, output, result, told>>

Next ==
    \/ Boot \/ OpenFails \/ Open
    \/ GetFails \/ GetFound \/ GetNotFound
    \/ Generate \/ SetFails \/ Set \/ CommitFails \/ Commit
    \/ PowerLost

Spec == Init /\ [][Next]_vars

-----------------------------------------------------------------------------
(* Properties *)

\* The identity a device first came up with is the only one it ever comes up
\* with, and flash holds it from then on: losing power between set and commit,
\* or a failed commit, never gives the broker, the relay and the operators one
\* identity today and another tomorrow. And a device never turns its own identity
\* down: the boots that end with ESP_ERR_INVALID_STATE are those of a key that
\* something else wrote (is_uuid_v4 accepts whatever generate_uuid makes of the
\* random bytes).
IdentityStable ==
    /\ told # Nothing =>
         /\ stored = told
         /\ pc = "done" /\ result = "ok" => output = told
    /\ pc = "done" /\ result = "invalid_state" => stored \in Foreign /\ told = Nothing
=============================================================================
