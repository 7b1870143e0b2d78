---------------------------- MODULE RemoteConfig ----------------------------
(***************************************************************************)
(* The stored configuration, esp_base_remote_config.c.  A configuration is *)
(* its revision and its Wi-Fi selection (the MQTT and FRP sections follow  *)
(* the revision and are not told apart here).  Each NVS call may fail, so  *)
(* an operation is the set of its possible results together with what is   *)
(* durable afterwards.  NVS (external) keeps either the old or the new     *)
(* blob when a write is cut short or reports an error.                     *)
(***************************************************************************)
EXTENDS Naturals

CONSTANTS
    MaxRevision,  \* UINT32_MAX
    Networks      \* the Wi-Fi networks a configuration can select

ASSUME RevisionAssumption == MaxRevision \in Nat \ {0}

NoNetwork == "unconfigured"

ASSUME NetworksAssumption == NoNetwork \notin Networks

Configs == [revision : 0 .. MaxRevision, wifi : Networks \cup {NoNetwork}]

\* What a device without a stored configuration loads.
EmptyConfig == [revision |-> 0, wifi |-> NoNetwork]

\* esp_base_remote_config_load: the stored blob, or an error and no blob.
Load(nvs) == {[ok |-> TRUE, config |-> nvs], [ok |-> FALSE, config |-> EmptyConfig]}

\* Mutant: an error of the write is reported as success.
CommitVerifiedBlind(nvs, candidate) ==
    LET next == [candidate EXCEPT !.revision = @ + 1]
    IN  IF nvs.revision # candidate.revision THEN {[result |-> "conflict", nvs |-> nvs]}
        ELSE {[result |-> "ok", nvs |-> n, committed |-> next] : n \in {nvs, next}}

\* Mutant: the errors after the write has begun are reported as plain errors.
CommitVerifiedPlainError(nvs, candidate) ==
    LET next == [candidate EXCEPT !.revision = @ + 1]
    IN  IF nvs.revision # candidate.revision THEN {[result |-> "conflict", nvs |-> nvs]}
        ELSE {[result |-> "error", nvs |-> n] : n \in {nvs, next}}
             \cup {[result |-> "ok", nvs |-> next, committed |-> next]}

\* esp_base_remote_config_commit_verified with expected_revision equal to the
\* candidate's: nothing is written unless the stored revision is still the
\* expected one; an error before the write is plain, an error of set, commit or
\* readback is uncertain, and success means that the readback, which is what the
\* caller gets as committed, equals what was sent.
CommitVerified(nvs, candidate) ==
    LET next == [candidate EXCEPT !.revision = @ + 1]
    IN  {[result |-> "error", nvs |-> nvs]}
        \cup IF nvs.revision # candidate.revision THEN {[result |-> "conflict", nvs |-> nvs]}
             ELSE IF candidate.revision = MaxRevision THEN {[result |-> "exhausted", nvs |-> nvs]}
             ELSE {[result |-> "uncertain", nvs |-> n] : n \in {nvs, next}}
                  \cup {[result |-> "ok", nvs |-> next, committed |-> next]}
=============================================================================
