---------------------------- MODULE CommandDecoder ---------------------------
(***************************************************************************)
(* What the decoder makes of a JSON text that passed its scan              *)
(* (command_decoder.c): ebase_parse_command and ebase_parse_frp_status.    *)
(* A document is, for each object in it, the sequence of its members as    *)
(* cJSON (external) keeps them, repeated keys included; a lookup finds the *)
(* first.  Numbers are integers, which the scan sees to (CommandText); of  *)
(* a string the model keeps its kind and its length.  Whether the          *)
(* configuration passes ebase_config_valid (ConfigCodec) is a flag of the  *)
(* document.  What the code compares field by field is a table here.       *)
(*                                                                         *)
(* The state is a document that a client gets wrong in up to MaxEdits      *)
(* places.                                                                 *)
(***************************************************************************)
EXTENDS CommandValues, Naturals, FiniteSets, SequencesExt

CONSTANTS
    DeadlineMax,  \* 2^53 - 1 in the code
    UintMax,      \* UINT32_MAX in the code
    Documents,    \* the documents a client means to send
    Values,       \* what it may put in the place of a value
    MaxEdits      \* bound of the model: deviations from the document

\* The members of an object as cJSON keeps them, and the documents made of them.
IsMemberList(m) ==
    /\ m \in Seq(ToSet(m))
    /\ \A i \in DOMAIN m : m[i] = [key |-> m[i].key, value |-> m[i].value]

Parts == {"root", "parameters", "signature", "config", "wifi", "mqtt", "frp"}

IsDocument(d) ==
    /\ d = [name \in {"framed", "valid"} \cup Parts |-> d[name]]
    /\ d.framed \in BOOLEAN /\ d.valid \in BOOLEAN
    /\ \A name \in Parts : IsMemberList(d[name])

CommandDecoderAssumption ==
    /\ DeadlineMax \in Nat /\ UintMax \in Nat \ 0..3 /\ MaxEdits \in Nat
    /\ \A d \in Documents : IsDocument(d)

VARIABLES
    doc,     \* framed, valid, and the members of each object
    edits

vars == <<doc, edits>>

-----------------------------------------------------------------------------
(* The values that each field may have *)

Integers(low, high) == [type : {"number"}, s : {""}, n : low .. high]
Texts(limit) == [type : {"string"}, s : STRING, n : 0 .. limit]
Id == [type : {"string"}, s : {"uuid1", "uuid2"}, n : {36}]
Hex == {Text("hex", 64)}
Port == Integers(1, 65535)
Section == {Null, Object}

\* The fields of both.
Both(f, g) ==
    [key \in DOMAIN f \cup DOMAIN g |-> IF key \in DOMAIN f THEN f[key] ELSE g[key]]

StatusFields == [protocol_version |-> {Number(1)}, request_id |-> Id]
WriteFields ==
    Both([device_id |-> Id, target_boot_id |-> Id,
          expires_at_uptime_ms |-> Integers(0, DeadlineMax)], StatusFields)

Fields == [
    query |-> [operation_id |-> Id],
    ota |-> [operation_id |-> Id, image_url |-> [type : {"string"}, s : {"https"}, n : 0 .. 512],
             sha256 |-> Hex, image_size_bytes |-> Integers(1, UintMax),
             target |-> {Word("esp_base")}, signature |-> {Object}],
    signature |-> [scheme |-> {Word("scheme")}],
    set |-> [expected_revision |-> Integers(0, UintMax), config |-> {Object}],
    config |-> [schema_version |-> {Number(3)}, wifi |-> Section, mqtt |-> Section,
                frp |-> Section],
    wifi |-> [ssid |-> Texts(32), password |-> Texts(64)],
    mqtt |-> [hostname |-> Texts(253), port |-> Port, username |-> Texts(128),
              password |-> Texts(256), ca_pem |-> Texts(4096), management_key_hex |-> Hex],
    frp |-> [server_hostname |-> Texts(253), server_port |-> Port, token |-> Texts(256),
             ca_pem |-> Texts(2048), proxy_name |-> Texts(128), remote_port |-> Port,
             local_port |-> Port, management_key_hex |-> Hex]]

-----------------------------------------------------------------------------
(* The decoder's steps *)

\* cJSON_GetObjectItemCaseSensitive.
Item(members, key) ==
    LET at == SelectInSeq(members, LAMBDA member : member.key = key)
    IN  IF at = 0 THEN Missing ELSE members[at].value

Times(members, key) == Cardinality({i \in DOMAIN members : members[i].key = key})

\* Mutant: every key once, and others beside them.
ExactKeysAndMore(members, keys) == \A key \in keys : Times(members, key) = 1

\* exact_keys, of what is an object.
ExactKeys(members, keys) ==
    /\ Len(members) = Cardinality(keys)
    /\ \A key \in keys : Times(members, key) = 1

Fit(members, fields) == \A key \in DOMAIN fields : Item(members, key) \in fields[key]

Fills(members, fields) == ExactKeys(members, DOMAIN fields) /\ Fit(members, fields)

Command(d) == Item(d.root, "command")

RootKeys(d) ==
    LET base == DOMAIN StatusFields \cup {"command"}
    IN  IF Command(d) = Word("status") THEN base
        ELSE IF Command(d) = Word("ota.result") THEN base \cup {"parameters"}
        ELSE DOMAIN WriteFields \cup {"command", "parameters"}

HeadFits(d) ==
    /\ d.framed
    /\ Command(d).type = "string"
    /\ ExactKeys(d.root, RootKeys(d))
    /\ Fit(d.root, StatusFields)

\* parameters, being an object, fills the fields.
Parameters(d, fields) ==
    Item(d.root, "parameters") = Object /\ Fills(d.parameters, fields)

OtaFits(d) == Parameters(d, Fields.ota) /\ Fills(d.signature, Fields.signature)

ConfigHeadFits(d) ==
    /\ Parameters(d, Fields.set)
    /\ ExactKeys(d.config, DOMAIN Fields.config \cup {"business"})
    /\ Item(d.config, "schema_version") = Number(3)

SectionsFit(d) ==
    \A name \in {"wifi", "mqtt", "frp"} :
        \/ Item(d.config, name) = Null
        \/ Item(d.config, name) = Object /\ Fills(d[name], Fields[name])

\* ebase_parse_command: the error, "none" when there is none.
Check(fits) == IF fits THEN "none" ELSE "invalid_request"

ConfigError(d) ==
    IF ConfigHeadFits(d) /\ Item(d.config, "business") # Null
    THEN "unsupported_configuration"
    ELSE Check(ConfigHeadFits(d) /\ SectionsFit(d) /\ d.valid)

WriteError(d) ==
    IF ~Fit(d.root, WriteFields) THEN "invalid_request"
    ELSE CASE Command(d) = Word("ota.start") -> Check(OtaFits(d))
           [] Command(d) = Word("config.set") -> ConfigError(d)
           [] Command(d) = Word("restart") ->
                Check(Item(d.root, "parameters") = Object /\ d.parameters = <<>>)
           [] OTHER -> "unsupported_command"

Error(d) ==
    IF ~HeadFits(d) THEN "invalid_request"
    ELSE CASE Command(d) = Word("status") -> "none"
           [] Command(d) = Word("ota.result") -> Check(Parameters(d, Fields.query))
           [] OTHER -> WriteError(d)

\* out->request.request_id, which an answer with an error carries too.
RequestId(d) == IF HeadFits(d) THEN Item(d.root, "request_id") ELSE Missing

\* ebase_parse_frp_status
FrpStatusFits(d) ==
    d.framed /\ Fills(d.root, Both([command |-> {Word("status")}], WriteFields))

-----------------------------------------------------------------------------
(* What a client may get wrong (external) *)

Init == doc \in Documents /\ edits = 0

Edit(name, members) ==
    /\ edits < MaxEdits
    /\ edits' = edits + 1
    /\ doc' = [doc EXCEPT ![name] = members]

Replace ==
    \E name \in Parts : \E i \in DOMAIN doc[name], value \in Values :
        Edit(name, [doc[name] EXCEPT ![i].value = value])

Omit == \E name \in Parts : \E i \in DOMAIN doc[name] : Edit(name, RemoveAt(doc[name], i))

\* A member comes twice, the second time under its key or another and with its
\* value or another, in either order.
Repeat ==
    \E name \in Parts : \E i \in DOMAIN doc[name] :
        \E again \in [key : {doc[name][i].key, "other"}, value : {Null, doc[name][i].value}] :
            Edit(name, <<again>> \o doc[name]) \/ Edit(name, Append(doc[name], again))

Flag ==
    /\ edits < MaxEdits /\ edits' = edits + 1
    /\ \E flag \in {"framed", "valid"} : doc' = [doc EXCEPT ![flag] = FALSE]

Next == Replace \/ Omit \/ Repeat \/ Flag

Spec == Init /\ [][Next]_vars

-----------------------------------------------------------------------------

\* The members are the fields, each once, in any order, and every one has a value
\* that it may have.
Form(members, fields) ==
    /\ Len(members) = Cardinality(DOMAIN fields)
    /\ {members[i].key : i \in DOMAIN members} = DOMAIN fields
    /\ \A i \in DOMAIN members : members[i].value \in fields[members[i].key]

\* The commands as a grammar, read off no lookup and in no order.
Conforms(d, command) ==
    LET Named == [command |-> {Word(command)}]
        Nested == [command |-> {Word(command)}, parameters |-> {Object}]
        Open(name) == [key |-> name, value |-> Object] \in ToSet(d.config)
    IN  /\ d.framed
        /\ CASE command = "status" -> Form(d.root, Both(Named, StatusFields))
             [] command = "ota.result" ->
                  Form(d.root, Both(Nested, StatusFields)) /\ Form(d.parameters, Fields.query)
             [] OTHER -> Form(d.root, Both(Nested, WriteFields))
        /\ command = "restart" => d.parameters = <<>>
        /\ command = "ota.start" =>
             Form(d.parameters, Fields.ota) /\ Form(d.signature, Fields.signature)
        /\ command = "config.set" =>
             /\ d.valid
             /\ Form(d.parameters, Fields.set)
             /\ Form(d.config, Both([business |-> {Null}], Fields.config))
             /\ \A name \in {"wifi", "mqtt", "frp"} : Open(name) => Form(d[name], Fields[name])

Commands == {"status", "ota.result", "ota.start", "config.set", "restart"}

\* A command is taken exactly when its document conforms to one of the five in every
\* member of every object, wherever a repeated or a foreign member stands; the
\* listener takes exactly the status request; and an answer never carries an
\* identifier that the request does not hold once and only once.
OnlyTheGrammar ==
    /\ (Error(doc) = "none") <=> (\E command \in Commands : Conforms(doc, command))
    /\ FrpStatusFits(doc) <=>
         doc.framed /\ Form(doc.root, Both([command |-> {Word("status")}], WriteFields))
    /\ RequestId(doc) # Missing =>
         \E i \in DOMAIN doc.root :
            /\ doc.root[i] = [key |-> "request_id", value |-> RequestId(doc)]
            /\ \A j \in DOMAIN doc.root \ {i} : doc.root[j].key # "request_id"
=============================================================================
