------------------------------ MODULE MCDevice ------------------------------
(* Small instances of DeviceControl.  Each request set holds the cases its   *)
(* run is about: retries, a conflicting body under a used identifier, a      *)
(* request for a later boot, a request of each kind.                         *)
EXTENDS DeviceProperties, TLC

Request(id, forBoot, expires, body) ==
    [id |-> id, device |-> "self", boot |-> forBoot, expires |-> expires,
     wellformed |-> TRUE, body |-> body]

SetConfig(revision, wifiName) ==
    [kind |-> "config.set", config |-> [revision |-> revision, wifi |-> wifiName]]
StartOp(op, image) == [kind |-> "ota.start", op |-> op, image |-> image]
RestartBody == [kind |-> "restart"]

MCNetworks == {"home", "lab"}
MCOps == {"A", "B"}
MCImages == {"v1", "v2"}

\* A device that was never configured, and one with a stored selection.
MCBlank == {EmptyConfig}
MCConfigured == {[revision |-> 1, wifi |-> "home"]}

\* No receipt yet; or, as the other case, one that came with a copied store from
\* another device.
MCNoReceipt == {NoReceipt}
MCAnyReceipt ==
    {NoReceipt, [status |-> "failed", device |-> "other", op |-> "A", image |-> "v2",
                 source |-> 0, target |-> 1]}

\* Configuration: two changes in turn, a conflicting body under the first
\* identifier, one change in a later boot, and a restart.
MCConfigRequests ==
    {Request("q1", 1, 1, SetConfig(0, "home")),
     Request("q1", 1, 1, SetConfig(0, NoNetwork)),
     Request("q2", 1, 2, SetConfig(1, NoNetwork)),
     Request("q3", 2, 1, SetConfig(1, "lab")),
     Request("q4", 1, 2, RestartBody),
     Request("q5", 2, 1, SetConfig(2, NoNetwork))}

\* OTA: two operations, the first one sent again under a new request.
MCOtaRequests ==
    {Request("q1", 1, 1, StartOp("A", "v2")),
     Request("q2", 1, 1, StartOp("B", "v2")),
     Request("q3", 2, 1, StartOp("A", "v2")),
     Request("q4", 2, 1, StartOp("B", "v1")),
     Request("q5", 3, 1, StartOp("B", "v1"))}

\* The first operation sent again after a second one, all in one boot.
MCRepeatRequests ==
    {Request("q1", 1, 1, StartOp("A", "v2")),
     Request("q2", 1, 1, StartOp("B", "v2")),
     Request("q3", 1, 1, StartOp("A", "v2"))}

\* A second operation after the first one was tried out and rolled back.
MCRollbackRequests ==
    {Request("q1", 1, 1, StartOp("A", "v2")),
     Request("q2", 3, 1, StartOp("B", "v2"))}

\* Both: a download and a configuration change compete in the first boot, and a
\* change arrives while the new image is verified in the second.
MCMixedRequests ==
    {Request("q1", 1, 1, StartOp("A", "v2")),
     Request("q2", 1, 1, SetConfig(1, NoNetwork)),
     Request("q3", 2, 1, SetConfig(1, "lab")),
     Request("q4", 2, 1, StartOp("B", "v1"))}
=============================================================================
