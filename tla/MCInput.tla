------------------------------- MODULE MCInput -------------------------------
(* What comes from outside and what is kept of it: the lines of the USB port,   *)
(* the scan of a request, its decoding, the table of answered status requests,  *)
(* the rules of a configuration's texts, and the blob that a configuration is   *)
(* stored in.  Each stage is fed with all that the one before it may let pass,  *)
(* and they share no state, so a behaviour is one of a single part, named by    *)
(* `part'; the others stay in an initial state, or idle and empty.               *)
EXTENDS FrpStatus, CommandValues, TLC

CONSTANTS
    Letters, LineLimit, Burst, FifoSize, IdleTime,          \* LineReader
    DepthLimit, MemberLimit, Levels,                        \* CommandText
    DeadlineMax, UintMax, Documents, Values, MaxEdits,      \* CommandDecoder
    Configs, Edits,                                         \* ConfigCodec
    Alphabet, Octets, MaxHost, MaxLabel, MaxOctets          \* TextRules

VARIABLES
    part,
    fifo, data, discard, idle, pc, bytes, frame, cut, line, ended,  \* LineReader
    value, text, at, quoted, depth, members, verdict,               \* CommandText
    doc, edits,                                                     \* CommandDecoder
    saved, blob, loaded,                                            \* ConfigCodec
    host, octets                                                    \* TextRules

Reader == INSTANCE LineReader
Scan == INSTANCE CommandText
Decoder == INSTANCE CommandDecoder
Codec == INSTANCE ConfigCodec
Rules == INSTANCE TextRules

ASSUME InputAssumption ==
    /\ Reader!LineAssumption
    /\ Scan!CommandTextAssumption
    /\ Decoder!CommandDecoderAssumption
    /\ Codec!CodecAssumption
    /\ Rules!TextAssumption

readerVars == <<fifo, data, discard, idle, pc, bytes, frame, cut, line, ended>>
scanVars == <<value, text, at, quoted, depth, members, verdict>>
decoderVars == <<doc, edits>>
codecVars == <<saved, blob, loaded>>
rulesVars == <<host, octets>>
MCvars == <<part, vars, readerVars, scanVars, decoderVars, codecVars, rulesVars>>

-----------------------------------------------------------------------------
(* Documents: one of each command, the configuration with all its sections, and *)
(* values at the limits of the fields.                                          *)

Members(fields) ==
    LET pick[keys \in SUBSET DOMAIN fields] ==
            IF keys = {} THEN <<>>
            ELSE LET key == CHOOSE k \in keys : TRUE
                 IN  <<[key |-> key, value |-> fields[key]]>> \o pick[keys \ {key}]
    IN  pick[DOMAIN fields]

Uuid == Text("uuid1", 36)
Plain == Text("plain", 8)
Key == Text("hex", 64)

StatusRoot == [protocol_version |-> Number(1), request_id |-> Uuid]
WriteRoot == [device_id |-> Uuid, target_boot_id |-> Uuid,
              expires_at_uptime_ms |-> Number(DeadlineMax)] @@ StatusRoot

Document(command, root, objects) ==
    [root |-> Members([command |-> Word(command)] @@ root), framed |-> TRUE, valid |-> TRUE]
        @@ [name \in DOMAIN objects |-> Members(objects[name])]

Empty == [name \in {"parameters", "signature", "config", "wifi", "mqtt", "frp"} |-> <<>>]
Nested == [parameters |-> Object]

Wifi == [ssid |-> Text("plain", 32), password |-> Plain]
Mqtt == [hostname |-> Text("plain", 253), port |-> Number(65535), username |-> Plain,
         password |-> Plain, ca_pem |-> Text("plain", 4096), management_key_hex |-> Key]
Frp == [server_hostname |-> Plain, server_port |-> Number(1), token |-> Text("plain", 256),
        ca_pem |-> Text("plain", 2048), proxy_name |-> Plain, remote_port |-> Number(1),
        local_port |-> Number(1), management_key_hex |-> Key]

Ota == [operation_id |-> Uuid, image_url |-> Text("https", 512), sha256 |-> Key,
        image_size_bytes |-> Number(UintMax), target |-> Word("esp_base"),
        signature |-> Object]

MCDocuments ==
    {Document("status", StatusRoot, Empty), Document("status", WriteRoot, Empty),
     Document("ota.result", Nested @@ StatusRoot, [parameters |-> [operation_id |-> Uuid]] @@ Empty),
     Document("restart", Nested @@ WriteRoot, Empty),
     Document("reboot", Nested @@ WriteRoot, Empty),
     Document("ota.start", Nested @@ WriteRoot,
              [parameters |-> Ota, signature |-> [scheme |-> Word("scheme")]] @@ Empty),
     Document("config.set", Nested @@ WriteRoot,
              [parameters |-> [expected_revision |-> Number(UintMax), config |-> Object],
               config |-> [schema_version |-> Number(3), wifi |-> Object,
                           mqtt |-> Object, frp |-> Object,
                           business |-> Null],
               wifi |-> Wifi, mqtt |-> Mqtt, frp |-> Frp] @@ Empty)}

MCValues ==
    {Null, Object, Number(0), Number(3), Number(65536), Number(UintMax + 1),
     Number(DeadlineMax + 1), Text("uuid2", 36), Text("hex", 63), Text("plain", 33),
     Text("plain", 257), Text("plain", 4097), Word("restart"), Word("status")}

-----------------------------------------------------------------------------
(* Configurations whose lengths and numbers lie at the limits and around the    *)
(* boundary of one byte, and blobs that differ from theirs in one place.        *)

Wifis ==
    {[ssid |-> 0, wifi_password |-> 0]} \cup [ssid : {1, 32}, wifi_password : {8, 64}]

Mqtts ==
    [hostname : {253}, username : {1, 128}, mqtt_password : {1, 255, 256},
     mqtt_ca : {47, 255, 256, 4096}, mqtt_key : {32}]
    \cup {[hostname |-> 0, username |-> 0, mqtt_password |-> 0, mqtt_ca |-> 0, mqtt_key |-> 0]}

Frps ==
    [server_hostname : {253}, token : {1, 255, 256}, frp_ca : {47, 256, 2048},
     proxy_name : {128}, frp_key : {32}]
    \cup {[server_hostname |-> 0, token |-> 0, frp_ca |-> 0, proxy_name |-> 0, frp_key |-> 0]}

Config(w, m, f, r, p) ==
    [wifi |-> w.ssid > 0, mqtt |-> m.hostname > 0, frp |-> f.server_hostname > 0,
     revision |-> r,
     port |-> IF m.hostname > 0 THEN p ELSE 0,
     server_port |-> IF f.server_hostname > 0 THEN p ELSE 0,
     remote_port |-> IF f.server_hostname > 0 THEN 65535 ELSE 0,
     local_port |-> IF f.server_hostname > 0 THEN 256 ELSE 0,
     length |-> w @@ m @@ f]

Unset(S) == {s \in S : \A name \in DOMAIN s : s[name] = 0}

\* Each section in all its lengths, the others full or absent.
MCConfigs ==
    {Config(w, m, f, [low |-> 0, high |-> 1], 8883) :
        w \in Wifis, m \in Unset(Mqtts), f \in Unset(Frps)}
    \cup {Config(w, m, f, [low |-> 0, high |-> 0], 256) :
        w \in Wifis, m \in Mqtts, f \in Unset(Frps)}
    \cup {Config(w, m, f, [low |-> 65535, high |-> 65535], p) :
        w \in Unset(Wifis), m \in Unset(Mqtts), f \in Frps, p \in {1, 256, 65535}}
    \cup {Config([ssid |-> 32, wifi_password |-> 64], m, f, [low |-> 256, high |-> 255], 65535) :
        m \in {x \in Mqtts : x.mqtt_password = 256}, f \in {x \in Frps : x.token = 256}}

\* Every place of the header takes a value at a boundary; the length may follow it.
MCEdits ==
    [at : 0 .. 39, value : {0, 1, 8, 33, 129, 252, 254, 255}, length : {-1, 0, 1}]

-----------------------------------------------------------------------------

MCInit ==
    /\ part \in {"answers", "reader", "scan", "decoder", "codec", "rules"}
    /\ Init /\ Reader!Init /\ Rules!Init
    /\ part # "answers" =>
          slots \in [Slots -> {[id |-> NoId, expires |-> 0, status |-> CHOOSE s \in Statuses : TRUE]}]
    /\ IF part = "scan" THEN Scan!Init
       ELSE /\ value = {} /\ text = <<>> /\ at = 1
            /\ quoted = FALSE /\ depth = 0 /\ members = 0 /\ verdict = "none"
    /\ IF part = "decoder" THEN Decoder!Init
       ELSE doc = (CHOOSE d \in Documents : TRUE) /\ edits = 0
    /\ IF part = "codec" THEN Codec!Init
       ELSE saved = {} /\ blob = <<>> /\ loaded = {}

MCNext ==
    \/ /\ part = "answers" /\ Next
       /\ UNCHANGED <<part, readerVars, scanVars, decoderVars, codecVars, rulesVars>>
    \/ /\ part = "reader" /\ Reader!Next
       /\ UNCHANGED <<part, vars, scanVars, decoderVars, codecVars, rulesVars>>
    \/ /\ part = "scan" /\ Scan!Next
       /\ UNCHANGED <<part, vars, readerVars, decoderVars, codecVars, rulesVars>>
    \/ /\ part = "decoder" /\ Decoder!Next
       /\ UNCHANGED <<part, vars, readerVars, scanVars, codecVars, rulesVars>>
    \/ /\ part = "codec" /\ Codec!Next
       /\ UNCHANGED <<part, vars, readerVars, scanVars, decoderVars, rulesVars>>
    \/ /\ part = "rules" /\ Rules!Next
       /\ UNCHANGED <<part, vars, readerVars, scanVars, decoderVars, codecVars>>

MCSpec == MCInit /\ [][MCNext]_MCvars

-----------------------------------------------------------------------------

\* No part of a frame, nor parts of two, reach the parser (ebase_line_feed).
LinesIntact == Reader!LinesIntact

\* The scan lets pass what is whole and within its limits (valid_bytes).
ScanDecides == Scan!ScanDecides

\* A command is taken exactly when it conforms to the grammar (ebase_parse_command); the
\* other parts leave the document as it is.
OnlyTheGrammar == part = "decoder" => Decoder!OnlyTheGrammar

\* What was saved is what is loaded (ebase_config_encode, ebase_config_decode).
RoundTrip == Codec!RoundTrip

\* A blob that is accepted is the one this firmware would write (the same).
Canonical == Codec!Canonical

\* The scan of a host name accepts the DNS names (hostname_valid).
HostnamesAreDnsNames == Rules!HostnamesAreDnsNames

\* The scan of a text accepts well-formed UTF-8 (utf8).
Utf8IsWellFormed == Rules!Utf8IsWellFormed
=============================================================================
