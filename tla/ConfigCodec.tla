------------------------------ MODULE ConfigCodec ----------------------------
(***************************************************************************)
(* The blob in which a configuration is stored, config_codec.c: a header   *)
(* of 40 bytes with the lengths, in one byte or in two, of the texts that  *)
(* follow one another behind it.  The header is modelled byte by byte; a   *)
(* text is the stretch of the body it occupies, for no two places of the   *)
(* body need hold the same byte.  The revision's 32 bits are two halves,   *)
(* so that they fit TLC's integers.  Whether the texts themselves are      *)
(* acceptable is left open here (TextRules has the rules that scan).       *)
(***************************************************************************)
EXTENDS Integers, Sequences

CONSTANTS
    Configs,  \* the configurations that are saved
    Edits     \* ways in which another writer's blob differs: [at, value, length]

Byte(n) == n % 256

HeaderBytes == 40
MaxBytes == 7618
KeyBytes == 32

\* The texts and the most that each may be long; ebase_config_encode appends them in
\* this order, a key only for a section that is configured.
Texts == <<"ssid", "wifi_password",
           "hostname", "username", "mqtt_password", "mqtt_ca", "mqtt_key",
           "server_hostname", "token", "frp_ca", "proxy_name", "frp_key">>

Limit == [ssid |-> 32, wifi_password |-> 64,
          hostname |-> 253, username |-> 128, mqtt_password |-> 256, mqtt_ca |-> 4096,
          mqtt_key |-> KeyBytes,
          server_hostname |-> 253, token |-> 256, frp_ca |-> 2048, proxy_name |-> 128,
          frp_key |-> KeyBytes]

Names == DOMAIN Limit

TextLengths ==
    [ssid : Nat, wifi_password : Nat,
     hostname : Nat, username : Nat, mqtt_password : Nat, mqtt_ca : Nat, mqtt_key : Nat,
     server_hostname : Nat, token : Nat, frp_ca : Nat, proxy_name : Nat, frp_key : Nat]

Word == {n \in Nat : n < 65536}

\* esp_base_remote_config_t, with the lengths of its texts.
Configurations ==
    [wifi : BOOLEAN, mqtt : BOOLEAN, frp : BOOLEAN, revision : [low : Word, high : Word],
     port : Word, server_port : Word, remote_port : Word, local_port : Word,
     length : TextLengths]

CodecAssumption ==
    /\ Configs \subseteq Configurations
    /\ Edits \subseteq [at : 0 .. 39, value : 0 .. 255, length : Int]

-----------------------------------------------------------------------------
(* Rules on the values, without their texts *)

\* wifi_values_valid
WifiValid(c) ==
    IF c.wifi THEN c.length.ssid \in 1 .. 32 /\ c.length.wifi_password \in 8 .. 64
    ELSE c.length.ssid = 0 /\ c.length.wifi_password = 0

\* mqtt_values_valid; a CA holds its two markers, of 27 and 25 bytes, which are looked for
\* one by one and so may share the five dashes between them.
MarkerBytes == 47

MqttValid(c) ==
    IF c.mqtt
    THEN /\ c.length.hostname \in 1 .. 253 /\ c.port # 0
         /\ c.length.username \in 1 .. 128 /\ c.length.mqtt_password \in 1 .. 256
         /\ c.length.mqtt_ca \in MarkerBytes .. 4096
    ELSE /\ c.port = 0
         /\ \A name \in {"hostname", "username", "mqtt_password", "mqtt_ca"} : c.length[name] = 0

\* frp_values_valid
FrpValid(c) ==
    IF c.frp
    THEN /\ c.length.server_hostname \in 1 .. 253 /\ c.length.token \in 1 .. 256
         /\ c.length.frp_ca \in MarkerBytes .. 2048 /\ c.length.proxy_name \in 1 .. 128
         /\ c.server_port # 0 /\ c.remote_port # 0 /\ c.local_port # 0
    ELSE /\ c.server_port = 0 /\ c.remote_port = 0 /\ c.local_port = 0
         /\ \A name \in {"server_hostname", "token", "frp_ca", "proxy_name"} : c.length[name] = 0

\* ebase_config_valid
Valid(c) ==
    /\ WifiValid(c) /\ MqttValid(c) /\ FrpValid(c)
    /\ c.length.mqtt_key = IF c.mqtt THEN KeyBytes ELSE 0
    /\ c.length.frp_key = IF c.frp THEN KeyBytes ELSE 0

-----------------------------------------------------------------------------
(* ebase_config_encode *)

\* The two bytes of put16.
Low(n) == Byte(n)

\* Mutant: only the low byte of a two-byte number is written.
HighForgotten(n) == 0

High(n) == Byte(n \div 256)

Flags(c) == (IF c.wifi THEN 1 ELSE 0) + (IF c.mqtt THEN 2 ELSE 0) + (IF c.frp THEN 4 ELSE 0)

Header(c) ==
    LET l == c.length
        r == c.revision
    IN  <<69, 66, 67, 70, 3, Flags(c),
          Byte(l.ssid), Byte(l.wifi_password),
          Low(r.low), High(r.low), Low(r.high), High(r.high),
          Byte(l.hostname), Byte(l.username),
          Low(l.mqtt_password), High(l.mqtt_password), Low(l.mqtt_ca), High(l.mqtt_ca),
          Low(c.port), High(c.port),
          Byte(l.server_hostname), Byte(l.proxy_name),
          Low(l.token), High(l.token), Low(l.frp_ca), High(l.frp_ca),
          Low(c.server_port), High(c.server_port),
          Low(c.remote_port), High(c.remote_port),
          Low(c.local_port), High(c.local_port),
          0, 0, 0, 0, 0, 0, 0, 0>>

\* at, as it is when the text of a place is appended, and behind the last one.
Starts(c) ==
    LET at[place \in 1 .. 13] ==
            IF place = 1 THEN HeaderBytes ELSE at[place - 1] + c.length[Texts[place - 1]]
    IN  at

Encode(c) ==
    [header |-> Header(c),
     body |-> [i \in 1 .. 12 |-> [at |-> Starts(c)[i], length |-> c.length[Texts[i]]]],
     bytes |-> Starts(c)[13]]

-----------------------------------------------------------------------------
(* ebase_config_decode *)

At(b, i) == b.header[i + 1]

Get16(b, i) == At(b, i) + 256 * At(b, i + 1)

Flag(b, n) == (At(b, 5) \div n) % 2 = 1

Lengths(b) ==
    [ssid |-> At(b, 6), wifi_password |-> At(b, 7),
     hostname |-> At(b, 12), username |-> At(b, 13),
     mqtt_password |-> Get16(b, 14), mqtt_ca |-> Get16(b, 16),
     mqtt_key |-> IF Flag(b, 2) THEN KeyBytes ELSE 0,
     server_hostname |-> At(b, 20), proxy_name |-> At(b, 21),
     token |-> Get16(b, 22), frp_ca |-> Get16(b, 24),
     frp_key |-> IF Flag(b, 4) THEN KeyBytes ELSE 0]

Expected(length) ==
    HeaderBytes + length.ssid + length.wifi_password + length.hostname + length.username
        + length.mqtt_password + length.mqtt_ca + length.mqtt_key + length.server_hostname
        + length.token + length.frp_ca + length.proxy_name + length.frp_key

\* Mutant: bytes behind the texts are not looked at.
WellFormedPrefix(b) ==
    /\ b.bytes \in HeaderBytes .. MaxBytes
    /\ SubSeq(b.header, 1, 5) = <<69, 66, 67, 70, 3>>
    /\ At(b, 5) < 8
    /\ \A i \in 32 .. 39 : At(b, i) = 0
    /\ \A name \in Names : Lengths(b)[name] <= Limit[name]
    /\ b.bytes >= Expected(Lengths(b))

WellFormed(b) ==
    /\ b.bytes \in HeaderBytes .. MaxBytes
    /\ SubSeq(b.header, 1, 5) = <<69, 66, 67, 70, 3>>
    /\ At(b, 5) < 8
    /\ \A i \in 32 .. 39 : At(b, i) = 0
    /\ \A name \in Names : Lengths(b)[name] <= Limit[name]
    /\ b.bytes = Expected(Lengths(b))

\* The configuration that the header tells of.
Content(b) ==
    [wifi |-> Flag(b, 1), mqtt |-> Flag(b, 2), frp |-> Flag(b, 4),
     revision |-> [low |-> Get16(b, 8), high |-> Get16(b, 10)],
     port |-> Get16(b, 18), server_port |-> Get16(b, 26),
     remote_port |-> Get16(b, 28), local_port |-> Get16(b, 30),
     length |-> Lengths(b)]

\* The texts are taken from the body by pointers that follow one another.
Pointers(c) ==
    LET ssid == HeaderBytes
        wifi_password == ssid + c.length.ssid
        hostname == wifi_password + c.length.wifi_password
        username == hostname + c.length.hostname
        mqtt_password == username + c.length.username
        mqtt_ca == mqtt_password + c.length.mqtt_password
        mqtt_key == mqtt_ca + c.length.mqtt_ca
        server_hostname == mqtt_key + c.length.mqtt_key
        token == server_hostname + c.length.server_hostname
        frp_ca == token + c.length.token
        proxy_name == frp_ca + c.length.frp_ca
        frp_key == proxy_name + c.length.proxy_name
    IN  <<ssid, wifi_password, hostname, username, mqtt_password, mqtt_ca, mqtt_key,
          server_hostname, token, frp_ca, proxy_name, frp_key>>

\* {} when the blob is refused; the texts may be refused whatever the header says.
Decode(b, textsValid) ==
    LET c == Content(b)
    IN  {[config |-> c,
          body |-> [i \in 1 .. 12 |-> [at |-> Pointers(c)[i], length |-> c.length[Texts[i]]]]]
         : accepted \in {TRUE} \cap {WellFormed(b) /\ Valid(c) /\ textsValid}}

-----------------------------------------------------------------------------
(* A store that a device reads at its start: what this firmware saved, or what   *)
(* another writer left there.                                                    *)

VARIABLES
    saved,  \* {} or {the configuration that was saved}
    blob,   \* what the store holds
    loaded  \* what the last load made of it

vars == <<saved, blob, loaded>>

Init ==
    /\ saved \in {{c} : c \in {d \in Configs : Valid(d)}}
    /\ blob = [c \in saved |-> Encode(c)][CHOOSE c \in saved : TRUE]
    /\ loaded = {}

Load ==
    /\ \E textsValid \in IF saved = {} THEN BOOLEAN ELSE {TRUE} : loaded' = Decode(blob, textsValid)
    /\ UNCHANGED <<saved, blob>>

\* A blob of another writer: one byte of the header, or the length, is another.
Overwrite ==
    /\ saved # {}
    /\ \E edit \in Edits :
          blob' = [blob EXCEPT !.header[edit.at + 1] = edit.value, !.bytes = @ + edit.length]
    /\ saved' = {} /\ loaded' = {}

Next == Load \/ Overwrite

Spec == Init /\ [][Next]_vars

\* What was saved is what is loaded: every length and number comes back, whatever
\* the width in which the header keeps it, and each text is taken from the very
\* stretch of the body where it was put (ebase_config_encode, ebase_config_decode).
RoundTrip ==
    \A c \in saved :
        /\ blob.bytes <= MaxBytes
        /\ Decode(blob, TRUE) = {[config |-> c, body |-> blob.body]}

\* The blob is canonical: whoever wrote it, a blob that is accepted is the one that
\* this firmware would write for what it reads from it, so equal configurations
\* have equal fingerprints and the readback after a commit compares all there is.
Canonical ==
    \A d \in loaded :
        /\ Valid(d.config)
        /\ Header(d.config) = blob.header
        /\ Encode(d.config).bytes = blob.bytes
        /\ Encode(d.config).body = d.body
=============================================================================
