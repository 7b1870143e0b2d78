------------------------------ MODULE TextProofs -----------------------------
(***************************************************************************)
(* The blob and the texts of a configuration and the scan of a request,    *)
(* within MCInput.  Decoding undoes encoding, for any configuration, and   *)
(* accepts only what encoding yields.  The scan of host names accepts the  *)
(* DNS names and the scan of UTF-8 the well-formed sequences, for texts of *)
(* any length; the scan of a request decides rightly for values of any     *)
(* depth and for any limits.                                               *)
(*                                                                         *)
(* None of it needs an induction over texts.  A function that is defined   *)
(* by recursion over places is determined by its equation: two that obey   *)
(* one and differ, differ at a last place, where the equation makes them   *)
(* agree (Least, WalksAgree).  The reading of a value is composed of the   *)
(* readings of its parts (Joined), level by level (ValuesAreBracketed).    *)
(***************************************************************************)
EXTENDS MCInput, SequenceTheorems, NaturalsInduction, WellFoundedInduction, TLAPS

-----------------------------------------------------------------------------
(* The blob of a configuration                                               *)

Octet == {n \in Nat : n < 256}

\* What is written of a number of 8 or 16 bits is what is read back of it.
LEMMA BytesOfWord ==
    ASSUME NEW n \in Codec!Word
    PROVE  /\ Codec!Low(n) \in Octet /\ Codec!High(n) \in Octet
           /\ Codec!Low(n) + 256 * Codec!High(n) = n
<1>1. /\ n % 256 \in Octet /\ n \div 256 \in Octet
      /\ n = (n % 256) + 256 * (n \div 256)
  BY DEF Codec!Word, Octet
<1>2. (n \div 256) % 256 = n \div 256
  <2>1. n \div 256 \in Nat /\ n \div 256 < 256
    BY <1>1 DEF Octet
  <2> QED
    BY <2>1
<1> QED
  BY <1>1, <1>2 DEF Codec!Low, Codec!High, Codec!Byte

LEMMA ByteOfSmall ==
    ASSUME NEW n \in Octet
    PROVE  Codec!Byte(n) = n
  BY DEF Octet, Codec!Byte

\* What is read of two bytes is a number whose two bytes they are.
LEMMA WordOfBytes ==
    ASSUME NEW low \in Octet, NEW high \in Octet
    PROVE  /\ low + 256 * high \in Codec!Word
           /\ Codec!Low(low + 256 * high) = low
           /\ Codec!High(low + 256 * high) = high
<1>1. /\ low + 256 * high \in Codec!Word
      /\ (low + 256 * high) % 256 = low
      /\ (low + 256 * high) \div 256 = high
  BY DEF Octet, Codec!Word
<1>2. high % 256 = high
  BY DEF Octet
<1> QED
  BY <1>1, <1>2 DEF Codec!Low, Codec!High, Codec!Byte

\* The bytes of a header, for the same configuration.
IsHeader(h, c) ==
    /\ h[1] = 69 /\ h[2] = 66 /\ h[3] = 67 /\ h[4] = 70 /\ h[5] = 3 /\ h[6] = Codec!Flags(c)
    /\ h[7] = Codec!Byte(c.length.ssid) /\ h[8] = Codec!Byte(c.length.wifi_password)
    /\ h[9] = Codec!Low(c.revision.low) /\ h[10] = Codec!High(c.revision.low)
    /\ h[11] = Codec!Low(c.revision.high) /\ h[12] = Codec!High(c.revision.high)
    /\ h[13] = Codec!Byte(c.length.hostname) /\ h[14] = Codec!Byte(c.length.username)
    /\ h[15] = Codec!Low(c.length.mqtt_password)
    /\ h[16] = Codec!High(c.length.mqtt_password) /\ h[17] = Codec!Low(c.length.mqtt_ca)
    /\ h[18] = Codec!High(c.length.mqtt_ca) /\ h[19] = Codec!Low(c.port)
    /\ h[20] = Codec!High(c.port) /\ h[21] = Codec!Byte(c.length.server_hostname)
    /\ h[22] = Codec!Byte(c.length.proxy_name) /\ h[23] = Codec!Low(c.length.token)
    /\ h[24] = Codec!High(c.length.token) /\ h[25] = Codec!Low(c.length.frp_ca)
    /\ h[26] = Codec!High(c.length.frp_ca) /\ h[27] = Codec!Low(c.server_port)
    /\ h[28] = Codec!High(c.server_port) /\ h[29] = Codec!Low(c.remote_port)
    /\ h[30] = Codec!High(c.remote_port) /\ h[31] = Codec!Low(c.local_port)
    /\ h[32] = Codec!High(c.local_port) /\ h[33] = 0 /\ h[34] = 0 /\ h[35] = 0 /\ h[36] = 0
    /\ h[37] = 0 /\ h[38] = 0 /\ h[39] = 0 /\ h[40] = 0

LEMMA HeaderIs ==
    ASSUME NEW c
    PROVE  IsHeader(Codec!Header(c), c)
  BY DEF IsHeader, Codec!Header

LEMMA HeaderIsLong ==
    ASSUME NEW c
    PROVE  DOMAIN Codec!Header(c) = 1 .. 40
  BY DEF IsHeader, Codec!Header

LEMMA HeaderElements ==
    ASSUME NEW c, NEW S, \A i \in 1 .. 40 : Codec!Header(c)[i] \in S
    PROVE  Codec!Header(c) \in Seq(S) /\ Len(Codec!Header(c)) = 40
  BY DEF Codec!Header

LEMMA HeaderIsSeq ==
    ASSUME NEW c
    PROVE  \E S : Codec!Header(c) \in Seq(S) /\ Len(Codec!Header(c)) = 40
<1>1. PICK S : \A i \in 1 .. 40 : Codec!Header(c)[i] \in S
  <2> WITNESS {Codec!Header(c)[i] : i \in 1 .. 40}
  <2> QED
    OBVIOUS
<1> QED
  BY <1>1, HeaderElements, Zenon

LEMMA FunctionIsSeq ==
    ASSUME NEW S, NEW n \in Nat, NEW h \in [1 .. n -> S]
    PROVE  h \in Seq(S) /\ Len(h) = n
  OBVIOUS

\* The first five bytes of a header.
LEMMA Prefix ==
    ASSUME NEW S, NEW h \in Seq(S), Len(h) = 40
    PROVE  SubSeq(h, 1, 5) = <<69, 66, 67, 70, 3>>
              <=> h[1] = 69 /\ h[2] = 66 /\ h[3] = 67 /\ h[4] = 70 /\ h[5] = 3
<1>1. SubSeq(h, 1, 5) = [i \in 1 .. 5 |-> h[i]]
  OBVIOUS
<1>2. [i \in 1 .. 5 |-> h[i]] = <<69, 66, 67, 70, 3>>
         <=> h[1] = 69 /\ h[2] = 66 /\ h[3] = 67 /\ h[4] = 70 /\ h[5] = 3
  OBVIOUS
<1> QED
  BY <1>1, <1>2

\* The lengths of all texts, one by one.
LEMMA LengthsTyped ==
    ASSUME NEW c \in Codec!Configurations
    PROVE  /\ c.length.ssid \in Nat /\ c.length.wifi_password \in Nat
           /\ c.length.hostname \in Nat /\ c.length.username \in Nat
           /\ c.length.mqtt_password \in Nat /\ c.length.mqtt_ca \in Nat
           /\ c.length.mqtt_key \in Nat /\ c.length.server_hostname \in Nat
           /\ c.length.token \in Nat /\ c.length.frp_ca \in Nat
           /\ c.length.proxy_name \in Nat /\ c.length.frp_key \in Nat
<1>1. c.length \in Codec!TextLengths
  BY DEF Codec!Configurations
<1> QED
  BY <1>1 DEF Codec!TextLengths

\* The offsets at which encode appends are the pointers from which decode takes, and the
\* last of them is the length that decode expects.
LEMMA StartsArePointers ==
    ASSUME NEW c \in Codec!Configurations
    PROVE  /\ \A i \in 1 .. 12 : Codec!Starts(c)[i] = Codec!Pointers(c)[i]
           /\ Codec!Starts(c)[13] = Codec!Expected(c.length)
<1> DEFINE p == Codec!Pointers(c)
           l == c.length
           f == [i \in 1 .. 13 |-> IF i = 13 THEN Codec!Expected(l) ELSE p[i]]
           Rec(g) == [i \in 1 .. 13 |->
                        IF i = 1 THEN Codec!HeaderBytes
                        ELSE g[i - 1] + c.length[Codec!Texts[i - 1]]]
<1>1. /\ p[1] = 40
      /\ p[2] = p[1] + l.ssid
      /\ p[3] = p[2] + l.wifi_password
      /\ p[4] = p[3] + l.hostname
      /\ p[5] = p[4] + l.username
      /\ p[6] = p[5] + l.mqtt_password
      /\ p[7] = p[6] + l.mqtt_ca
      /\ p[8] = p[7] + l.mqtt_key
      /\ p[9] = p[8] + l.server_hostname
      /\ p[10] = p[9] + l.token
      /\ p[11] = p[10] + l.frp_ca
      /\ p[12] = p[11] + l.proxy_name
      /\ Codec!Expected(l) = p[12] + l.frp_key
  BY LengthsTyped DEF Codec!Pointers, Codec!Expected, Codec!HeaderBytes
<1>2. \A i \in 1 .. 13 : f[i] = IF i = 1 THEN Codec!HeaderBytes
                                ELSE f[i - 1] + c.length[Codec!Texts[i - 1]]
  <2> HIDE DEF p
  <2> SUFFICES ASSUME NEW i \in 1 .. 13
               PROVE  f[i] = IF i = 1 THEN Codec!HeaderBytes
                             ELSE f[i - 1] + c.length[Codec!Texts[i - 1]]
    OBVIOUS
  <2>1. i \in {1, 2, 3, 4, 5, 6, 7, 8, 9, 10, 11, 12, 13}
    OBVIOUS
  <2> QED
    BY <1>1, <2>1 DEF Codec!Texts, Codec!HeaderBytes
<1>3. f = Rec(f)
  <2> HIDE DEF p
  <2> QED
    BY <1>2
<1>4. PICK g : g = Codec!Starts(c) /\ g = Rec(g)
  <2> HIDE DEF f
  <2> QED
    BY <1>3 DEF Codec!Starts
<1>5. /\ g[1] = 40
      /\ g[2] = g[1] + l.ssid
      /\ g[3] = g[2] + l.wifi_password
      /\ g[4] = g[3] + l.hostname
      /\ g[5] = g[4] + l.username
      /\ g[6] = g[5] + l.mqtt_password
      /\ g[7] = g[6] + l.mqtt_ca
      /\ g[8] = g[7] + l.mqtt_key
      /\ g[9] = g[8] + l.server_hostname
      /\ g[10] = g[9] + l.token
      /\ g[11] = g[10] + l.frp_ca
      /\ g[12] = g[11] + l.proxy_name
      /\ g[13] = g[12] + l.frp_key
  BY <1>4 DEF Codec!Texts, Codec!HeaderBytes
<1>6. \A i \in 1 .. 12 : g[i] = p[i]
  <2> SUFFICES ASSUME NEW i \in 1 .. 12 PROVE g[i] = p[i]
    OBVIOUS
  <2>1. i \in {1, 2, 3, 4, 5, 6, 7, 8, 9, 10, 11, 12}
    OBVIOUS
  <2> HIDE DEF p
  <2> QED
    BY <1>1, <1>5, <2>1
<1> HIDE DEF p
<1> QED
  BY <1>1, <1>4, <1>5, <1>6, SMTT(30) DEF p

\* The most that each length may be; the numbers of the texts' places in the header.
Fits(l) ==
    /\ l.ssid \in Nat /\ l.ssid <= 32
    /\ l.wifi_password \in Nat /\ l.wifi_password <= 64
    /\ l.hostname \in Nat /\ l.hostname <= 253
    /\ l.username \in Nat /\ l.username <= 128
    /\ l.mqtt_password \in Nat /\ l.mqtt_password <= 256
    /\ l.mqtt_ca \in Nat /\ l.mqtt_ca <= 4096
    /\ l.mqtt_key \in Nat /\ l.mqtt_key <= 32
    /\ l.server_hostname \in Nat /\ l.server_hostname <= 253
    /\ l.token \in Nat /\ l.token <= 256
    /\ l.frp_ca \in Nat /\ l.frp_ca <= 2048
    /\ l.proxy_name \in Nat /\ l.proxy_name <= 128
    /\ l.frp_key \in Nat /\ l.frp_key <= 32

LEMMA Sizes == Codec!HeaderBytes = 40 /\ Codec!MaxBytes = 7618
  BY DEF Codec!HeaderBytes, Codec!MaxBytes

LEMMA NamesAre ==
    Codec!Names = {"ssid", "wifi_password", "hostname", "username", "mqtt_password",
                   "mqtt_ca", "mqtt_key", "server_hostname", "token", "frp_ca",
                   "proxy_name", "frp_key"}
  BY DEF Codec!Names, Codec!Limit

LEMMA FitsNames ==
    ASSUME NEW l, Fits(l)
    PROVE  \A name \in Codec!Names : l[name] <= Codec!Limit[name]
<1>1. /\ Codec!Limit["ssid"] = 32 /\ Codec!Limit["wifi_password"] = 64
      /\ Codec!Limit["hostname"] = 253 /\ Codec!Limit["username"] = 128
      /\ Codec!Limit["mqtt_password"] = 256 /\ Codec!Limit["mqtt_ca"] = 4096
      /\ Codec!Limit["mqtt_key"] = 32 /\ Codec!Limit["server_hostname"] = 253
      /\ Codec!Limit["token"] = 256 /\ Codec!Limit["frp_ca"] = 2048
      /\ Codec!Limit["proxy_name"] = 128 /\ Codec!Limit["frp_key"] = 32
  BY DEF Codec!Limit, Codec!KeyBytes
<1> QED
  BY <1>1, NamesAre DEF Fits

LEMMA NamesFit ==
    ASSUME NEW l \in Codec!TextLengths,
           \A name \in Codec!Names : l[name] <= Codec!Limit[name]
    PROVE  Fits(l)
<1>1. /\ Codec!Limit["ssid"] = 32 /\ Codec!Limit["wifi_password"] = 64
      /\ Codec!Limit["hostname"] = 253 /\ Codec!Limit["username"] = 128
      /\ Codec!Limit["mqtt_password"] = 256 /\ Codec!Limit["mqtt_ca"] = 4096
      /\ Codec!Limit["mqtt_key"] = 32 /\ Codec!Limit["server_hostname"] = 253
      /\ Codec!Limit["token"] = 256 /\ Codec!Limit["frp_ca"] = 2048
      /\ Codec!Limit["proxy_name"] = 128 /\ Codec!Limit["frp_key"] = 32
  BY DEF Codec!Limit, Codec!KeyBytes
<1>2. /\ l.ssid \in Nat /\ l.wifi_password \in Nat
      /\ l.hostname \in Nat /\ l.username \in Nat
      /\ l.mqtt_password \in Nat /\ l.mqtt_ca \in Nat
      /\ l.mqtt_key \in Nat /\ l.server_hostname \in Nat
      /\ l.token \in Nat /\ l.frp_ca \in Nat
      /\ l.proxy_name \in Nat /\ l.frp_key \in Nat
  BY DEF Codec!TextLengths
<1> QED
  BY <1>1, <1>2, NamesAre DEF Fits

LEMMA FitsBlob ==
    ASSUME NEW l, Fits(l)
    PROVE  Codec!Expected(l) \in Nat /\ 40 <= Codec!Expected(l) /\ Codec!Expected(l) <= 7618
<1>1. PICK a \in Nat : a = l.ssid /\ a <= 32
  BY DEF Fits
<1>2. PICK b \in Nat : b = l.wifi_password /\ b <= 64
  BY DEF Fits
<1>3. PICK c \in Nat : c = l.hostname /\ c <= 253
  BY DEF Fits
<1>4. PICK d \in Nat : d = l.username /\ d <= 128
  BY DEF Fits
<1>5. PICK e \in Nat : e = l.mqtt_password /\ e <= 256
  BY DEF Fits
<1>6. PICK f \in Nat : f = l.mqtt_ca /\ f <= 4096
  BY DEF Fits
<1>7. PICK g \in Nat : g = l.mqtt_key /\ g <= 32
  BY DEF Fits
<1>8. PICK h \in Nat : h = l.server_hostname /\ h <= 253
  BY DEF Fits
<1>9. PICK i \in Nat : i = l.token /\ i <= 256
  BY DEF Fits
<1>10. PICK j \in Nat : j = l.frp_ca /\ j <= 2048
  BY DEF Fits
<1>11. PICK k \in Nat : k = l.proxy_name /\ k <= 128
  BY DEF Fits
<1>12. PICK m \in Nat : m = l.frp_key /\ m <= 32
  BY DEF Fits
<1>13. Codec!Expected(l) = 40 + a + b + c + d + e + f + g + h + i + j + k + m
  BY <1>1, <1>2, <1>3, <1>4, <1>5, <1>6, <1>7, <1>8, <1>9, <1>10, <1>11, <1>12
     DEF Codec!Expected, Codec!HeaderBytes
<1>14. /\ a <= 32 /\ b <= 64 /\ c <= 253 /\ d <= 128 /\ e <= 256 /\ f <= 4096 /\ g <= 32
       /\ h <= 253 /\ i <= 256 /\ j <= 2048 /\ k <= 128 /\ m <= 32
  BY <1>1, <1>2, <1>3, <1>4, <1>5, <1>6, <1>7, <1>8, <1>9, <1>10, <1>11, <1>12
<1> QED
  BY <1>13, <1>14

\* A number that is not too great fits one byte, or two.
LEMMA FitsByte ==
    ASSUME NEW n \in Nat, n <= 255
    PROVE  n \in Octet
  BY DEF Octet

LEMMA FitsWord ==
    ASSUME NEW n \in Nat, n <= 65535
    PROVE  n \in Codec!Word
  BY DEF Codec!Word

\* The lengths of a configuration in range fit the header and the blob.
LEMMA ValidFits ==
    ASSUME NEW c \in Codec!Configurations, Codec!Valid(c)
    PROVE  Fits(c.length)
<1> DEFINE l == c.length
<1>1. l.ssid \in Nat /\ l.ssid <= 32 /\ l.wifi_password \in Nat /\ l.wifi_password <= 64
  BY LengthsTyped DEF Codec!Valid, Codec!WifiValid
<1>2. /\ l.hostname <= 253 /\ l.username <= 128
      /\ l.mqtt_password <= 256 /\ l.mqtt_ca <= 4096
  <2>1. CASE c.mqtt
    <3>1. /\ l.hostname \in 1 .. 253 /\ l.username \in 1 .. 128
          /\ l.mqtt_password \in 1 .. 256 /\ l.mqtt_ca \in Codec!MarkerBytes .. 4096
      BY <2>1 DEF Codec!Valid, Codec!MqttValid
    <3> QED
      BY <3>1
  <2>2. CASE ~c.mqtt
    <3>1. l.hostname = 0 /\ l.username = 0 /\ l.mqtt_password = 0 /\ l.mqtt_ca = 0
      BY <2>2 DEF Codec!Valid, Codec!MqttValid
    <3> QED
      BY <3>1
  <2> QED
    BY <2>1, <2>2
<1>3. /\ l.server_hostname <= 253 /\ l.token <= 256
      /\ l.frp_ca <= 2048 /\ l.proxy_name <= 128
  <2>1. CASE c.frp
    <3>1. /\ l.server_hostname \in 1 .. 253 /\ l.token \in 1 .. 256
          /\ l.frp_ca \in Codec!MarkerBytes .. 2048 /\ l.proxy_name \in 1 .. 128
      BY <2>1 DEF Codec!Valid, Codec!FrpValid
    <3> QED
      BY <3>1
  <2>2. CASE ~c.frp
    <3>1. l.server_hostname = 0 /\ l.token = 0 /\ l.frp_ca = 0 /\ l.proxy_name = 0
      BY <2>2 DEF Codec!Valid, Codec!FrpValid
    <3> QED
      BY <3>1
  <2> QED
    BY <2>1, <2>2
<1>4. l.mqtt_key <= 32 /\ l.frp_key <= 32
  BY DEF Codec!Valid, Codec!KeyBytes
<1> QED
  BY <1>1, <1>2, <1>3, <1>4, LengthsTyped DEF Fits

\* The three flags come back from one byte.
LEMMA FlagsBack ==
    ASSUME NEW c \in Codec!Configurations
    PROVE  /\ Codec!Flags(c) \in 0 .. 7
           /\ (c.wifi <=> ((Codec!Flags(c) \div 1) % 2 = 1))
           /\ (c.mqtt <=> ((Codec!Flags(c) \div 2) % 2 = 1))
           /\ (c.frp <=> ((Codec!Flags(c) \div 4) % 2 = 1))
<1>1. c.wifi \in BOOLEAN /\ c.mqtt \in BOOLEAN /\ c.frp \in BOOLEAN
  BY DEF Codec!Configurations
<1>2. CASE c.wifi /\ c.mqtt /\ c.frp
  <2>1. Codec!Flags(c) = 7
    BY <1>2 DEF Codec!Flags
  <2> QED
    BY <1>2, <2>1
<1>3. CASE c.wifi /\ c.mqtt /\ ~c.frp
  <2>1. Codec!Flags(c) = 3
    BY <1>3 DEF Codec!Flags
  <2> QED
    BY <1>1, <1>3, <2>1
<1>4. CASE c.wifi /\ ~c.mqtt /\ c.frp
  <2>1. Codec!Flags(c) = 5
    BY <1>4 DEF Codec!Flags
  <2> QED
    BY <1>1, <1>4, <2>1
<1>5. CASE c.wifi /\ ~c.mqtt /\ ~c.frp
  <2>1. Codec!Flags(c) = 1
    BY <1>5 DEF Codec!Flags
  <2> QED
    BY <1>1, <1>5, <2>1
<1>6. CASE ~c.wifi /\ c.mqtt /\ c.frp
  <2>1. Codec!Flags(c) = 6
    BY <1>6 DEF Codec!Flags
  <2> QED
    BY <1>1, <1>6, <2>1
<1>7. CASE ~c.wifi /\ c.mqtt /\ ~c.frp
  <2>1. Codec!Flags(c) = 2
    BY <1>7 DEF Codec!Flags
  <2> QED
    BY <1>1, <1>7, <2>1
<1>8. CASE ~c.wifi /\ ~c.mqtt /\ c.frp
  <2>1. Codec!Flags(c) = 4
    BY <1>8 DEF Codec!Flags
  <2> QED
    BY <1>1, <1>8, <2>1
<1>9. CASE ~c.wifi /\ ~c.mqtt /\ ~c.frp
  <2>1. Codec!Flags(c) = 0
    BY <1>9 DEF Codec!Flags
  <2> QED
    BY <1>1, <1>9, <2>1
<1> QED
  BY <1>2, <1>3, <1>4, <1>5, <1>6, <1>7, <1>8, <1>9

\* Decoding inverts encoding.
LEMMA DecodeEncode ==
    ASSUME NEW c \in Codec!Configurations, Codec!Valid(c)
    PROVE  /\ Codec!Encode(c).bytes <= Codec!MaxBytes
           /\ Codec!Decode(Codec!Encode(c), TRUE) = {[config |-> c, body |-> Codec!Encode(c).body]}
<1> DEFINE b == Codec!Encode(c)
           l == c.length
<1>1. b.header = Codec!Header(c) /\ b.bytes = Codec!Expected(l)
  BY StartsArePointers DEF Codec!Encode
<1>2. IsHeader(b.header, c)
  BY <1>1, HeaderIs
<1> HIDE DEF b
<1>3. /\ c.revision.low \in Codec!Word /\ c.revision.high \in Codec!Word
      /\ c.port \in Codec!Word /\ c.server_port \in Codec!Word
      /\ c.remote_port \in Codec!Word /\ c.local_port \in Codec!Word
  BY DEF Codec!Configurations
<1>4. /\ Codec!At(b, 6) = l.ssid /\ Codec!At(b, 7) = l.wifi_password
      /\ Codec!At(b, 12) = l.hostname /\ Codec!At(b, 13) = l.username
      /\ Codec!At(b, 20) = l.server_hostname /\ Codec!At(b, 21) = l.proxy_name
  <2>1. /\ l.ssid \in Octet /\ l.wifi_password \in Octet
        /\ l.hostname \in Octet /\ l.username \in Octet
        /\ l.server_hostname \in Octet /\ l.proxy_name \in Octet
    BY ValidFits, FitsByte DEF Fits
  <2> QED
    BY <1>2, <2>1, ByteOfSmall DEF IsHeader, Codec!At
<1>5. /\ Codec!Get16(b, 14) = l.mqtt_password /\ Codec!Get16(b, 16) = l.mqtt_ca
      /\ Codec!Get16(b, 22) = l.token /\ Codec!Get16(b, 24) = l.frp_ca
  <2>1. /\ l.mqtt_password \in Codec!Word /\ l.mqtt_ca \in Codec!Word
        /\ l.token \in Codec!Word /\ l.frp_ca \in Codec!Word
    BY ValidFits, FitsWord DEF Fits
  <2> QED
    BY <1>2, <2>1, BytesOfWord DEF IsHeader, Codec!At, Codec!Get16
<1>6. /\ Codec!Get16(b, 8) = c.revision.low /\ Codec!Get16(b, 10) = c.revision.high
      /\ Codec!Get16(b, 18) = c.port /\ Codec!Get16(b, 26) = c.server_port
      /\ Codec!Get16(b, 28) = c.remote_port /\ Codec!Get16(b, 30) = c.local_port
  BY <1>2, <1>3, BytesOfWord DEF IsHeader, Codec!At, Codec!Get16
<1>7. /\ Codec!At(b, 5) \in 0 .. 7
      /\ Codec!Flag(b, 1) = c.wifi /\ Codec!Flag(b, 2) = c.mqtt /\ Codec!Flag(b, 4) = c.frp
  <2>1. c.wifi \in BOOLEAN /\ c.mqtt \in BOOLEAN /\ c.frp \in BOOLEAN
    BY DEF Codec!Configurations
  <2>2. Codec!At(b, 5) = Codec!Flags(c)
    BY <1>2 DEF IsHeader, Codec!At
  <2>3. /\ Codec!Flag(b, 1) \in BOOLEAN /\ (Codec!Flag(b, 1) <=> c.wifi)
        /\ Codec!Flag(b, 2) \in BOOLEAN /\ (Codec!Flag(b, 2) <=> c.mqtt)
        /\ Codec!Flag(b, 4) \in BOOLEAN /\ (Codec!Flag(b, 4) <=> c.frp)
    BY <2>2, FlagsBack DEF Codec!Flag
  <2> QED
    BY <2>1, <2>2, <2>3, FlagsBack
<1>8. Codec!Lengths(b) = l
  <2>1. l \in Codec!TextLengths
    BY DEF Codec!Configurations
  <2>2. l = [ssid |-> l.ssid, wifi_password |-> l.wifi_password,
             hostname |-> l.hostname, username |-> l.username,
             mqtt_password |-> l.mqtt_password, mqtt_ca |-> l.mqtt_ca,
             mqtt_key |-> l.mqtt_key,
             server_hostname |-> l.server_hostname, proxy_name |-> l.proxy_name,
             token |-> l.token, frp_ca |-> l.frp_ca, frp_key |-> l.frp_key]
    BY <2>1 DEF Codec!TextLengths
  <2>3. /\ l.mqtt_key = IF Codec!Flag(b, 2) THEN Codec!KeyBytes ELSE 0
        /\ l.frp_key = IF Codec!Flag(b, 4) THEN Codec!KeyBytes ELSE 0
    BY <1>7 DEF Codec!Valid
  <2> HIDE DEF l
  <2> QED
    BY <1>4, <1>5, <2>2, <2>3 DEF Codec!Lengths
<1>9. Codec!Content(b) = c
  <2>1. c = [wifi |-> c.wifi, mqtt |-> c.mqtt, frp |-> c.frp,
             revision |-> c.revision, port |-> c.port, server_port |-> c.server_port,
             remote_port |-> c.remote_port, local_port |-> c.local_port,
             length |-> c.length]
    BY DEF Codec!Configurations
  <2>2. c.revision = [low |-> c.revision.low, high |-> c.revision.high]
    BY DEF Codec!Configurations
  <2> QED
    BY <1>6, <1>7, <1>8, <2>1, <2>2 DEF Codec!Content
<1>10. Codec!WellFormed(b)
  <2>1. b.bytes \in Codec!HeaderBytes .. Codec!MaxBytes
    <3>1. /\ Codec!Expected(l) \in Nat /\ 40 <= Codec!Expected(l)
          /\ Codec!Expected(l) <= 7618
      BY ValidFits, FitsBlob
    <3> QED
      <4>1. /\ Codec!HeaderBytes \in Int /\ Codec!MaxBytes \in Int /\ b.bytes \in Int
            /\ Codec!HeaderBytes <= b.bytes /\ b.bytes <= Codec!MaxBytes
        BY <1>1, <3>1, Sizes
      <4> QED
        BY <4>1
  <2>2. SubSeq(b.header, 1, 5) = <<69, 66, 67, 70, 3>>
    <3>2. /\ b.header[1] = 69 /\ b.header[2] = 66 /\ b.header[3] = 67
          /\ b.header[4] = 70 /\ b.header[5] = 3
      BY <1>2 DEF IsHeader
    <3> QED
      BY <1>1, <3>2, HeaderIsSeq, Prefix
  <2>3. \A i \in 32 .. 39 : Codec!At(b, i) = 0
    BY <1>2 DEF IsHeader, Codec!At
  <2>4. Codec!At(b, 5) < 8
    BY <1>7
  <2> QED
    BY <1>1, <1>8, <2>1, <2>2, <2>3, <2>4, ValidFits, FitsNames DEF Codec!WellFormed
<1>11. b.body = [i \in 1 .. 12 |-> [at |-> Codec!Pointers(c)[i], length |-> l[Codec!Texts[i]]]]
  BY StartsArePointers DEF b, Codec!Encode
<1>12. b.bytes <= Codec!MaxBytes
  BY <1>1, ValidFits, FitsBlob, Sizes
<1>13. Codec!Decode(b, TRUE) = {[config |-> c, body |-> b.body]}
  <2> DEFINE d == [config |-> c, body |-> b.body]
  <2>1. Codec!Decode(b, TRUE)
          = {d : accepted \in {TRUE} \cap {Codec!WellFormed(b) /\ Codec!Valid(c) /\ TRUE}}
    BY <1>9, <1>11, Zenon DEF Codec!Decode
  <2> HIDE DEF d
  <2>2. (Codec!WellFormed(b) /\ Codec!Valid(c) /\ TRUE) = TRUE
    BY <1>10
  <2>3. {TRUE} \cap {Codec!WellFormed(b) /\ Codec!Valid(c) /\ TRUE} = {TRUE}
    BY <2>2
  <2>4. Codec!Decode(b, TRUE) = {d : accepted \in {TRUE}}
    BY <2>1, <2>3, Zenon
  <2> QED
    BY <2>4 DEF d
<1> QED
  BY <1>12, <1>13 DEF b

\* Two headers with the same bytes are the same.
LEMMA OneHeader ==
    ASSUME NEW c, NEW S, NEW h \in Seq(S), Len(h) = 40, IsHeader(h, c)
    PROVE  Codec!Header(c) = h
<1> DEFINE e == Codec!Header(c)
<1>1. PICK T : e \in Seq(T) /\ Len(e) = 40
  BY HeaderIsSeq
<1>2. e \in Seq(S \cup T) /\ h \in Seq(S \cup T)
  BY <1>1, SeqMonotonic
<1>3. IsHeader(e, c)
  BY HeaderIs
<1> HIDE DEF e
<1>4. ASSUME NEW i \in 1 .. 40 PROVE e[i] = h[i]
  <2>1. \/ i \in {1, 2, 3, 4, 5} \/ i \in {6, 7, 8, 9, 10} \/ i \in {11, 12, 13, 14, 15, 16, 17, 18, 19, 20}
        \/ i \in {21, 22, 23, 24, 25, 26, 27, 28, 29, 30}
        \/ i \in {31, 32, 33, 34, 35, 36, 37, 38, 39, 40}
    OBVIOUS
  <2>2. CASE i \in {1, 2, 3, 4, 5}
    <3>1. e[1] = h[1] /\ e[2] = h[2] /\ e[3] = h[3] /\ e[4] = h[4] /\ e[5] = h[5]
      BY <1>3 DEF IsHeader
    <3> QED
      BY <2>2, <3>1
  <2>6. CASE i \in {6, 7, 8, 9, 10}
    <3>1. /\ e[6] = h[6] /\ e[7] = h[7] /\ e[8] = h[8] /\ e[9] = h[9] /\ e[10] = h[10]
      BY <1>3 DEF IsHeader
    <3> QED
      BY <2>6, <3>1
  <2>3. CASE i \in {11, 12, 13, 14, 15, 16, 17, 18, 19, 20}
    <3>1. /\ e[11] = h[11] /\ e[12] = h[12] /\ e[13] = h[13] /\ e[14] = h[14] /\ e[15] = h[15]
          /\ e[16] = h[16] /\ e[17] = h[17] /\ e[18] = h[18] /\ e[19] = h[19] /\ e[20] = h[20]
      BY <1>3 DEF IsHeader
    <3> QED
      BY <2>3, <3>1
  <2>4. CASE i \in {21, 22, 23, 24, 25, 26, 27, 28, 29, 30}
    <3>1. /\ e[21] = h[21] /\ e[22] = h[22] /\ e[23] = h[23] /\ e[24] = h[24] /\ e[25] = h[25]
          /\ e[26] = h[26] /\ e[27] = h[27] /\ e[28] = h[28] /\ e[29] = h[29] /\ e[30] = h[30]
      BY <1>3 DEF IsHeader
    <3> QED
      BY <2>4, <3>1
  <2>5. CASE i \in {31, 32, 33, 34, 35, 36, 37, 38, 39, 40}
    <3>1. /\ e[31] = h[31] /\ e[32] = h[32] /\ e[33] = h[33] /\ e[34] = h[34] /\ e[35] = h[35]
          /\ e[36] = h[36] /\ e[37] = h[37] /\ e[38] = h[38] /\ e[39] = h[39] /\ e[40] = h[40]
      BY <1>3 DEF IsHeader
    <3> QED
      BY <2>5, <3>1
  <2> QED
    BY <2>1, <2>2, <2>3, <2>4, <2>5, <2>6
<1>5. e = h
  <2> DEFINE U == S \cup T
  <2>1. Len(e) = Len(h) /\ \A i \in 1 .. Len(e) : e[i] = h[i]
    BY <1>1, <1>4
  <2>2. e \in Seq(U) /\ h \in Seq(U)
    BY <1>2
  <2> HIDE DEF U
  <2> QED
    BY <2>1, <2>2, SeqEqual
<1> QED
  BY <1>5 DEF e

\* The flags of what is read from a byte are that byte.
LEMMA FlagsOfByte ==
    ASSUME NEW c, NEW n \in Nat, n < 8,
           c.wifi = ((n \div 1) % 2 = 1), c.mqtt = ((n \div 2) % 2 = 1),
           c.frp = ((n \div 4) % 2 = 1)
    PROVE  Codec!Flags(c) = n
<1>1. n = 0 \/ n = 1 \/ n = 2 \/ n = 3 \/ n = 4 \/ n = 5 \/ n = 6 \/ n = 7
  OBVIOUS
<1>2. c.wifi <=> n \in {1, 3, 5, 7}
  <2>1. c.wifi <=> (n \div 1) % 2 = 1
    OBVIOUS
  <2> QED
    BY <1>1, <2>1
<1>3. c.mqtt <=> n \in {2, 3, 6, 7}
  <2>1. c.mqtt <=> (n \div 2) % 2 = 1
    OBVIOUS
  <2> QED
    BY <1>1, <2>1
<1>4. c.frp <=> n \in {4, 5, 6, 7}
  <2>1. c.frp <=> (n \div 4) % 2 = 1
    OBVIOUS
  <2> QED
    BY <1>1, <2>1
<1> QED
  BY <1>1, <1>2, <1>3, <1>4 DEF Codec!Flags

\* Encoding inverts decoding: a header that is accepted is the one that is written for what
\* it tells of, and so is its length.
LEMMA EncodeDecode ==
    ASSUME NEW b, b.header \in [1 .. 40 -> Octet], Codec!WellFormed(b),
           NEW c, c = Codec!Content(b)
    PROVE  /\ c \in Codec!Configurations
           /\ Codec!Header(c) = b.header
           /\ Codec!Encode(c).bytes = b.bytes
           /\ Codec!Encode(c).body
                = [i \in 1 .. 12 |-> [at |-> Codec!Pointers(c)[i],
                                      length |-> c.length[Codec!Texts[i]]]]
<1> DEFINE h == b.header
           l == Codec!Lengths(b)
<1>12. h \in Seq(Octet) /\ Len(h) = 40
  <2>1. 40 \in Nat
    OBVIOUS
  <2> QED
    BY <2>1, FunctionIsSeq, Zenon
<1>1. ASSUME NEW i \in 0 .. 39 PROVE Codec!At(b, i) \in Octet
  BY DEF Codec!At
<1>2. ASSUME NEW i \in 0 .. 38
      PROVE  /\ Codec!Get16(b, i) \in Codec!Word
             /\ Codec!Low(Codec!Get16(b, i)) = h[i + 1]
             /\ Codec!High(Codec!Get16(b, i)) = h[i + 2]
  <2>1. h[i + 1] \in Octet /\ h[i + 2] \in Octet
    OBVIOUS
  <2>2. Codec!Get16(b, i) = h[i + 1] + 256 * h[i + 2]
    BY DEF Codec!Get16, Codec!At
  <2> QED
    BY <2>1, <2>2, WordOfBytes
<1>3. /\ c.wifi = Codec!Flag(b, 1) /\ c.mqtt = Codec!Flag(b, 2) /\ c.frp = Codec!Flag(b, 4)
      /\ c.revision = [low |-> Codec!Get16(b, 8), high |-> Codec!Get16(b, 10)]
      /\ c.port = Codec!Get16(b, 18) /\ c.server_port = Codec!Get16(b, 26)
      /\ c.remote_port = Codec!Get16(b, 28) /\ c.local_port = Codec!Get16(b, 30)
      /\ c.length = l
  BY DEF Codec!Content
<1>4. /\ l.ssid = h[7] /\ l.wifi_password = h[8] /\ l.hostname = h[13] /\ l.username = h[14]
      /\ l.server_hostname = h[21] /\ l.proxy_name = h[22]
      /\ l.mqtt_password = Codec!Get16(b, 14) /\ l.mqtt_ca = Codec!Get16(b, 16)
      /\ l.token = Codec!Get16(b, 22) /\ l.frp_ca = Codec!Get16(b, 24)
  BY DEF Codec!Lengths, Codec!At
<1>5. l \in Codec!TextLengths
  <2>1. \A n \in Codec!Word : n \in Nat
    BY DEF Codec!Word
  <2>2. \A n \in Octet : n \in Nat
    BY DEF Octet
  <2>3. /\ Codec!Get16(b, 14) \in Nat /\ Codec!Get16(b, 16) \in Nat
        /\ Codec!Get16(b, 22) \in Nat /\ Codec!Get16(b, 24) \in Nat
    BY <1>2, <2>1
  <2>4. /\ Codec!At(b, 6) \in Nat /\ Codec!At(b, 7) \in Nat /\ Codec!At(b, 12) \in Nat
        /\ Codec!At(b, 13) \in Nat /\ Codec!At(b, 20) \in Nat /\ Codec!At(b, 21) \in Nat
    BY <1>1, <2>2
  <2>5. /\ (IF Codec!Flag(b, 2) THEN Codec!KeyBytes ELSE 0) \in Nat
        /\ (IF Codec!Flag(b, 4) THEN Codec!KeyBytes ELSE 0) \in Nat
    BY DEF Codec!KeyBytes
  <2> QED
    BY <2>3, <2>4, <2>5 DEF Codec!Lengths, Codec!TextLengths
<1>6. c \in Codec!Configurations
  <2>1. /\ Codec!Flag(b, 1) \in BOOLEAN /\ Codec!Flag(b, 2) \in BOOLEAN
        /\ Codec!Flag(b, 4) \in BOOLEAN
    BY DEF Codec!Flag
  <2>2. /\ Codec!Get16(b, 8) \in Codec!Word /\ Codec!Get16(b, 10) \in Codec!Word
        /\ Codec!Get16(b, 18) \in Codec!Word /\ Codec!Get16(b, 26) \in Codec!Word
        /\ Codec!Get16(b, 28) \in Codec!Word /\ Codec!Get16(b, 30) \in Codec!Word
    BY <1>2
  <2> HIDE DEF l
  <2>3. Codec!Content(b)
          = [wifi |-> Codec!Flag(b, 1), mqtt |-> Codec!Flag(b, 2), frp |-> Codec!Flag(b, 4),
             revision |-> [low |-> Codec!Get16(b, 8), high |-> Codec!Get16(b, 10)],
             port |-> Codec!Get16(b, 18), server_port |-> Codec!Get16(b, 26),
             remote_port |-> Codec!Get16(b, 28), local_port |-> Codec!Get16(b, 30),
             length |-> l]
    BY Zenon DEF Codec!Content, l
  <2> QED
    BY <1>5, <2>1, <2>2, <2>3 DEF Codec!Configurations
<1>7. Codec!Flags(c) = h[6]
  <2>1. h[6] \in Nat /\ h[6] < 8
    <3>1. Codec!At(b, 5) \in Octet
      BY <1>1
    <3> QED
      BY <3>1 DEF Codec!WellFormed, Codec!At, Octet
  <2> QED
    BY <1>3, <2>1, FlagsOfByte DEF Codec!Flag, Codec!At
<1>8. IsHeader(h, c)
  <2>1. h[1] = 69 /\ h[2] = 66 /\ h[3] = 67 /\ h[4] = 70 /\ h[5] = 3
    BY <1>12, Prefix DEF Codec!WellFormed
  <2>2. /\ h[33] = 0 /\ h[34] = 0 /\ h[35] = 0 /\ h[36] = 0
        /\ h[37] = 0 /\ h[38] = 0 /\ h[39] = 0 /\ h[40] = 0
    BY DEF Codec!WellFormed, Codec!At
  <2>3. /\ Codec!Byte(l.ssid) = h[7] /\ Codec!Byte(l.wifi_password) = h[8]
        /\ Codec!Byte(l.hostname) = h[13] /\ Codec!Byte(l.username) = h[14]
        /\ Codec!Byte(l.server_hostname) = h[21] /\ Codec!Byte(l.proxy_name) = h[22]
    BY <1>4, ByteOfSmall
  <2> HIDE DEF l, h
  <2>4. /\ Codec!Low(l.mqtt_password) = h[15] /\ Codec!High(l.mqtt_password) = h[16]
        /\ Codec!Low(l.mqtt_ca) = h[17] /\ Codec!High(l.mqtt_ca) = h[18]
        /\ Codec!Low(l.token) = h[23] /\ Codec!High(l.token) = h[24]
        /\ Codec!Low(l.frp_ca) = h[25] /\ Codec!High(l.frp_ca) = h[26]
    BY <1>2, <1>4
  <2>5. /\ Codec!Low(c.revision.low) = h[9] /\ Codec!High(c.revision.low) = h[10]
        /\ Codec!Low(c.revision.high) = h[11] /\ Codec!High(c.revision.high) = h[12]
        /\ Codec!Low(c.port) = h[19] /\ Codec!High(c.port) = h[20]
        /\ Codec!Low(c.server_port) = h[27] /\ Codec!High(c.server_port) = h[28]
        /\ Codec!Low(c.remote_port) = h[29] /\ Codec!High(c.remote_port) = h[30]
        /\ Codec!Low(c.local_port) = h[31] /\ Codec!High(c.local_port) = h[32]
    BY <1>2, <1>3
  <2> QED
    BY <1>3, <1>7, <2>1, <2>2, <2>3, <2>4, <2>5 DEF IsHeader
<1>9. Codec!Header(c) = b.header
  BY <1>8, <1>12, OneHeader
<1>10. Codec!Encode(c).bytes = b.bytes
  BY <1>3, <1>6, StartsArePointers DEF Codec!Encode, Codec!WellFormed
<1>11. Codec!Encode(c).body
         = [i \in 1 .. 12 |-> [at |-> Codec!Pointers(c)[i], length |-> c.length[Codec!Texts[i]]]]
  BY <1>6, StartsArePointers DEF Codec!Encode
<1> QED
  BY <1>6, <1>9, <1>10, <1>11

\* Every byte of a header that is written is one.
LEMMA HeaderOctets ==
    ASSUME NEW c \in Codec!Configurations
    PROVE  Codec!Header(c) \in [1 .. 40 -> Octet]
<1> DEFINE e == Codec!Header(c)
<1>1. ASSUME NEW n \in Nat
      PROVE  Codec!Byte(n) \in Octet /\ Codec!Low(n) \in Octet /\ Codec!High(n) \in Octet
  BY DEF Codec!Byte, Codec!Low, Codec!High, Octet
<1>2. /\ c.revision.low \in Nat /\ c.revision.high \in Nat /\ c.port \in Nat
      /\ c.server_port \in Nat /\ c.remote_port \in Nat /\ c.local_port \in Nat
  BY DEF Codec!Configurations, Codec!Word
<1>3. IsHeader(e, c)
  BY HeaderIs
<1> HIDE DEF e
<1>4. /\ e[1] \in Octet /\ e[2] \in Octet /\ e[3] \in Octet /\ e[4] \in Octet /\ e[5] \in Octet
      /\ e[33] \in Octet /\ e[34] \in Octet /\ e[35] \in Octet /\ e[36] \in Octet
      /\ e[37] \in Octet /\ e[38] \in Octet /\ e[39] \in Octet /\ e[40] \in Octet
  BY <1>3 DEF IsHeader, Octet
<1>5. e[6] \in Octet
  BY <1>3, FlagsBack DEF IsHeader, Octet
<1>6. /\ e[7] \in Octet /\ e[8] \in Octet /\ e[13] \in Octet /\ e[14] \in Octet
      /\ e[21] \in Octet /\ e[22] \in Octet
  BY <1>1, <1>3, LengthsTyped DEF IsHeader
<1>7. /\ e[15] \in Octet /\ e[16] \in Octet /\ e[17] \in Octet /\ e[18] \in Octet
      /\ e[23] \in Octet /\ e[24] \in Octet /\ e[25] \in Octet /\ e[26] \in Octet
  BY <1>1, <1>3, LengthsTyped DEF IsHeader
<1>8. /\ e[9] \in Octet /\ e[10] \in Octet /\ e[11] \in Octet /\ e[12] \in Octet
      /\ e[19] \in Octet /\ e[20] \in Octet /\ e[27] \in Octet /\ e[28] \in Octet
      /\ e[29] \in Octet /\ e[30] \in Octet /\ e[31] \in Octet /\ e[32] \in Octet
  BY <1>1, <1>2, <1>3 DEF IsHeader
<1>9. \A i \in 1 .. 40 : e[i] \in Octet
  BY <1>4, <1>5, <1>6, <1>7, <1>8
<1>10. e \in Seq(Octet) /\ Len(e) = 40
  BY <1>9, HeaderElements DEF e
<1>11. e \in [1 .. 40 -> Octet]
  BY <1>10, LenProperties
<1> QED
  BY <1>11 DEF e

\* What a state of the store is made of: what was saved is the blob; whatever the blob is,
\* it has a header of bytes; and what was loaded, was decoded from it.
CodecInv ==
    /\ part # "codec" => saved = {} /\ loaded = {}
    /\ \A c \in saved :
          /\ saved = {c} /\ c \in Codec!Configurations /\ Codec!Valid(c)
          /\ blob = Codec!Encode(c)
    /\ part = "codec" => blob.header \in [1 .. 40 -> Octet]
    /\ \A d \in loaded : \E t \in BOOLEAN : d \in Codec!Decode(blob, t)

LEMMA EncodedBlob ==
    ASSUME NEW c \in Codec!Configurations
    PROVE  Codec!Encode(c).header \in [1 .. 40 -> Octet]
  BY HeaderOctets DEF Codec!Encode

LEMMA CodecInit == ASSUME MCInit PROVE CodecInv
<1>1. CASE part # "codec"
  BY <1>1 DEF MCInit, CodecInv
<1>2. CASE part = "codec"
  <2>1. Codec!Init
    BY <1>2 DEF MCInit
  <2>2. PICK c \in Configs : Codec!Valid(c) /\ saved = {c}
    BY <2>1 DEF Codec!Init
  <2>3. (CHOOSE d \in saved : TRUE) = c
    BY <2>2
  <2>4. blob = Codec!Encode(c) /\ loaded = {}
    BY <2>1, <2>2, <2>3 DEF Codec!Init
  <2>5. c \in Codec!Configurations
    BY InputAssumption DEF Codec!CodecAssumption
  <2> QED
    BY <1>2, <2>2, <2>4, <2>5, EncodedBlob DEF CodecInv
<1> QED
  BY <1>1, <1>2

LEMMA CodecNext == ASSUME CodecInv, [MCNext]_MCvars PROVE CodecInv'
<1>1. CASE UNCHANGED <<part, codecVars>>
  BY <1>1 DEF CodecInv, codecVars
<1>2. CASE part = "codec" /\ part' = part /\ Codec!Load
  <2>1. PICK t \in BOOLEAN : loaded' = Codec!Decode(blob, t)
    BY <1>2 DEF Codec!Load
  <2>2. blob' = blob /\ saved' = saved
    BY <1>2 DEF Codec!Load
  <2> QED
    BY <1>2, <2>1, <2>2 DEF CodecInv
<1>3. CASE part = "codec" /\ part' = part /\ Codec!Overwrite
  <2>1. saved' = {} /\ loaded' = {}
    BY <1>3 DEF Codec!Overwrite
  <2>2. PICK c \in saved : c \in Codec!Configurations /\ blob = Codec!Encode(c)
    BY <1>3 DEF Codec!Overwrite, CodecInv
  <2>3. PICK edit \in Edits :
           blob' = [blob EXCEPT !.header[edit.at + 1] = edit.value, !.bytes = @ + edit.length]
    BY <1>3 DEF Codec!Overwrite
  <2>4. edit.at \in 0 .. 39 /\ edit.value \in Octet
    BY InputAssumption DEF Codec!CodecAssumption, Octet
  <2>5. blob'.header = [blob.header EXCEPT ![edit.at + 1] = edit.value]
    BY <2>2, <2>3 DEF Codec!Encode
  <2>6. blob.header \in [1 .. 40 -> Octet]
    BY <1>3 DEF CodecInv
  <2>7. blob'.header \in [1 .. 40 -> Octet]
    BY <2>4, <2>5, <2>6
  <2> QED
    BY <1>3, <2>1, <2>7 DEF CodecInv
<1> QED
  BY <1>1, <1>2, <1>3 DEF MCNext, MCvars, Codec!Next

LEMMA CodecInvAlways == MCSpec => []CodecInv
  BY CodecInit, CodecNext, PTL DEF MCSpec

\* What was saved is what is loaded, for every configuration: all lengths, numbers and
\* flags come back, each text from where it was put, and the blob is never too long
\* (ebase_config_encode, ebase_config_decode).
THEOREM SavedIsLoaded == MCSpec => []RoundTrip
<1>1. CodecInv => RoundTrip
  <2> SUFFICES ASSUME CodecInv, NEW c \in saved
               PROVE  /\ blob.bytes <= Codec!MaxBytes
                      /\ Codec!Decode(blob, TRUE) = {[config |-> c, body |-> blob.body]}
    BY DEF RoundTrip, Codec!RoundTrip
  <2>1. c \in Codec!Configurations /\ Codec!Valid(c) /\ blob = Codec!Encode(c)
    BY DEF CodecInv
  <2> QED
    BY <2>1, DecodeEncode
<1> QED
  BY <1>1, CodecInvAlways, PTL

\* Whoever wrote it, a blob that is accepted is the one that this firmware writes for what
\* it reads from it (the same).
THEOREM AcceptedIsCanonical == MCSpec => []Canonical
<1>1. CodecInv => Canonical
  <2> SUFFICES ASSUME CodecInv, NEW d \in loaded
               PROVE  /\ Codec!Valid(d.config)
                      /\ Codec!Header(d.config) = blob.header
                      /\ Codec!Encode(d.config).bytes = blob.bytes
                      /\ Codec!Encode(d.config).body = d.body
    BY DEF Canonical, Codec!Canonical
  <2> DEFINE c == Codec!Content(blob)
             body == [i \in 1 .. 12 |-> [at |-> Codec!Pointers(c)[i],
                                         length |-> c.length[Codec!Texts[i]]]]
  <2>1. PICK t \in BOOLEAN : d \in Codec!Decode(blob, t)
    BY DEF CodecInv
  <2>2. /\ d = [config |-> c, body |-> body]
        /\ Codec!WellFormed(blob) /\ Codec!Valid(c)
    BY <2>1 DEF Codec!Decode
  <2>3. blob.header \in [1 .. 40 -> Octet]
    BY DEF CodecInv
  <2>4. d.config = c /\ d.body = body
    BY <2>2
  <2>5. /\ Codec!Header(c) = blob.header /\ Codec!Encode(c).bytes = blob.bytes
        /\ Codec!Encode(c).body = body
    BY <2>2, <2>3, EncodeDecode
  <2> QED
    BY <2>2, <2>4, <2>5
<1> QED
  BY <1>1, CodecInvAlways, PTL

-----------------------------------------------------------------------------
(* Host names                                                                *)

LEMMA Least ==
    ASSUME NEW S, S \subseteq Nat, S # {}
    PROVE  \E x \in S : \A y \in S : x <= y
<1> DEFINE R == OpToRel(<, Nat)
<1>1. IsWellFoundedOn(R, Nat)
  BY NatLessThanWellFounded
<1>2. \A x, y \in Nat : x < y => <<x, y>> \in R
  BY DEF OpToRel
<1> HIDE DEF R
<1>3. PICK x \in S : \A y \in S : ~(<<y, x>> \in R)
  BY <1>1, WFMin
<1>4. \A y \in S : x <= y
  <2> SUFFICES ASSUME NEW y \in S PROVE x <= y
    OBVIOUS
  <2>1. x \in Nat /\ y \in Nat /\ ~(y < x)
    BY <1>2, <1>3
  <2> QED
    BY <2>1
<1> QED
  BY <1>4

\* p is the last dot of the first i letters of s, or 0.
LastDot(s, p, i) ==
    /\ p \in Nat /\ p <= i
    /\ p = 0 \/ s[p] = "."
    /\ \A e \in Nat : p < e /\ e <= i => s[e] # "."

LEMMA LastDotExists ==
    ASSUME NEW s, NEW i \in Nat
    PROVE  \E p : LastDot(s, p, i)
<1> DEFINE Back == {d \in Nat : d <= i /\ (d = i \/ s[i - d] = ".")}
<1>1. PICK d \in Back : \A y \in Back : d <= y
  <2>1. i \in Back /\ Back \subseteq Nat
    OBVIOUS
  <2> HIDE DEF Back
  <2> QED
    BY <2>1, Least
<1>2. ASSUME NEW e \in Nat, i - d < e, e <= i, s[e] = "."
      PROVE  FALSE
  <2>1. i - e \in Nat /\ i - e <= i /\ i - (i - e) = e /\ i - e < d
    BY <1>2
  <2>2. i - e \in Back
    BY <1>2, <2>1
  <2> QED
    BY <1>1, <2>1, <2>2
<1>3. i - d \in Nat /\ i - d <= i /\ (i - d = 0 \/ s[i - d] = ".")
  OBVIOUS
<1> QED
  BY <1>2, <1>3 DEF LastDot

LEMMA LastDotUnique ==
    ASSUME NEW s, NEW i \in Nat, NEW p, NEW q, LastDot(s, p, i), LastDot(s, q, i)
    PROVE  p = q
  BY DEF LastDot

\* What the scan counts is the distance to the last dot.
LEMMA LabelIs ==
    ASSUME NEW S, NEW s \in Seq(S), NEW i \in 0 .. Len(s), NEW p, LastDot(s, p, i)
    PROVE  Rules!Label(s)[i] = i - p
<1> DEFINE n == Len(s)
           last(j) == CHOOSE q : LastDot(s, q, j)
           Rec(g) == [j \in 0 .. n |-> IF j = 0 \/ s[j] = "." THEN 0 ELSE g[j - 1] + 1]
           f == [j \in 0 .. n |-> j - last(j)]
<1>1. n \in Nat
  OBVIOUS
<1>2. ASSUME NEW j \in Nat PROVE LastDot(s, last(j), j)
  BY LastDotExists
<1> HIDE DEF n, last
<1>3. ASSUME NEW j \in 0 .. n
      PROVE  f[j] = IF j = 0 \/ s[j] = "." THEN 0 ELSE f[j - 1] + 1
  <2>1. j \in Nat /\ LastDot(s, last(j), j)
    BY <1>1, <1>2
  <2>2. CASE j = 0 \/ s[j] = "."
    <3>1. LastDot(s, j, j)
      BY <2>1, <2>2 DEF LastDot
    <3>2. last(j) = j
      BY <2>1, <3>1, LastDotUnique
    <3> QED
      BY <2>1, <2>2, <3>2
  <2>3. CASE ~(j = 0 \/ s[j] = ".")
    <3>1. j - 1 \in Nat /\ j - 1 \in 0 .. n /\ LastDot(s, last(j - 1), j - 1)
      BY <1>1, <1>2, <2>1, <2>3
    <3>2. LastDot(s, last(j - 1), j)
      <4>1. last(j - 1) \in Nat /\ last(j - 1) <= j
        BY <2>1, <3>1 DEF LastDot
      <4>2. \A e \in Nat : last(j - 1) < e /\ e <= j => s[e] # "."
        <5> SUFFICES ASSUME NEW e \in Nat, last(j - 1) < e, e <= j PROVE s[e] # "."
          OBVIOUS
        <5>1. e = j \/ e <= j - 1
          BY <2>1
        <5> QED
          BY <2>3, <3>1, <5>1 DEF LastDot
      <4> QED
        BY <3>1, <4>1, <4>2 DEF LastDot
    <3>3. last(j) = last(j - 1)
      BY <2>1, <3>2, LastDotUnique
    <3>4. last(j) \in Nat
      BY <2>1 DEF LastDot
    <3>5. f[j] = j - last(j) /\ f[j - 1] = j - 1 - last(j - 1)
      BY <3>1
    <3> QED
      BY <2>1, <2>3, <3>3, <3>4, <3>5
  <2> QED
    BY <2>2, <2>3
<1>4. f = Rec(f)
  <2> HIDE DEF f
  <2>1. f = [j \in 0 .. n |-> f[j]]
    BY DEF f
  <2> QED
    BY <1>3, <2>1
<1>5. PICK g : g = Rules!Label(s) /\ g = Rec(g)
  <2> HIDE DEF f
  <2> QED
    BY <1>4 DEF Rules!Label, n
<1>6. ASSUME NEW j \in 0 .. n
      PROVE  g[j] = IF j = 0 \/ s[j] = "." THEN 0 ELSE g[j - 1] + 1
  BY <1>5
<1> DEFINE Bad == {j \in 0 .. n : g[j] # f[j]}
<1>7. Bad = {}
  <2> SUFFICES ASSUME Bad # {} PROVE FALSE
    OBVIOUS
  <2>1. Bad \subseteq Nat
    BY <1>1
  <2> HIDE DEF Bad
  <2>2. PICK j \in Bad : \A k \in Bad : j <= k
    BY <2>1, Least
  <2>3. j \in 0 .. n /\ g[j] # f[j]
    BY <2>2 DEF Bad
  <2>4. ~(j = 0 \/ s[j] = ".")
    BY <1>3, <1>6, <2>3
  <2>5. j - 1 \in 0 .. n /\ ~(j <= j - 1)
    BY <1>1, <2>3, <2>4
  <2>6. g[j - 1] = f[j - 1]
    <3>1. j - 1 \notin Bad
      BY <2>2, <2>5
    <3> QED
      BY <2>5, <3>1 DEF Bad
  <2> HIDE DEF f
  <2> QED
    BY <1>3, <1>6, <2>3, <2>4, <2>6
<1>8. g[i] = f[i] /\ i \in Nat
  <2>1. i \in 0 .. n
    BY DEF n
  <2>2. i \notin Bad
    BY <1>7
  <2> HIDE DEF f
  <2> QED
    BY <1>1, <2>1, <2>2
<1>9. last(i) = p
  BY <1>2, <1>8, LastDotUnique
<1>10. f[i] = i - last(i)
  BY DEF n
<1> QED
  BY <1>5, <1>8, <1>9, <1>10

\* The dots of a name and its two ends, and two of them with no other in between.
Dots(s) == {i \in DOMAIN s : s[i] = "."} \cup {0, Len(s) + 1}
Adjacent(s, p, q) ==
    /\ p \in Dots(s) /\ q \in Dots(s) /\ p < q
    /\ \A d \in Dots(s) : d <= p \/ d >= q

LEMMA DnsNamePairs ==
    ASSUME NEW s
    PROVE  Rules!DnsName(s)
             <=> /\ Len(s) \in 1 .. MaxHost
                 /\ \A i \in DOMAIN s : s[i] \in {"x", "-", "."}
                 /\ \A p, q : Adjacent(s, p, q) =>
                       /\ q - p - 1 \in 1 .. MaxLabel
                       /\ s[p + 1] # "-" /\ s[q - 1] # "-"
<1> DEFINE Labels == {p \in Dots(s) \X Dots(s) :
                         p[1] < p[2] /\ \A d \in Dots(s) : d <= p[1] \/ d >= p[2]}
           Good(p) == /\ p[2] - p[1] - 1 \in 1 .. MaxLabel
                      /\ s[p[1] + 1] # "-" /\ s[p[2] - 1] # "-"
<1>1. Rules!DnsName(s) <=> /\ Len(s) \in 1 .. MaxHost
                           /\ \A i \in DOMAIN s : s[i] \in {"x", "-", "."}
                           /\ \A p \in Labels : Good(p)
  BY Zenon DEF Rules!DnsName, Dots
<1>2. ASSUME NEW p, NEW q PROVE Adjacent(s, p, q) <=> <<p, q>> \in Labels
  BY DEF Adjacent
<1>3. ASSUME NEW r \in Labels PROVE r = <<r[1], r[2]>>
  OBVIOUS
<1>4. (\A p \in Labels : Good(p)) <=> \A p, q : <<p, q>> \in Labels => Good(<<p, q>>)
  <2> HIDE DEF Labels, Good
  <2> QED
    BY <1>3
<1>5. ASSUME NEW p, NEW q
      PROVE  Good(<<p, q>>) <=> /\ q - p - 1 \in 1 .. MaxLabel
                                /\ s[p + 1] # "-" /\ s[q - 1] # "-"
  OBVIOUS
<1> HIDE DEF Labels, Good
<1> QED
  BY <1>1, <1>2, <1>4, <1>5

\* Before a letter there is a nearest dot, and behind it there is one.
LEMMA DotBefore ==
    ASSUME NEW S, NEW s \in Seq(S), NEW i \in 0 .. Len(s)
    PROVE  \E p \in Dots(s) : LastDot(s, p, i) /\ p \in 0 .. i
<1>1. i \in Nat /\ i <= Len(s) /\ Len(s) \in Nat /\ DOMAIN s = 1 .. Len(s)
  OBVIOUS
<1>2. PICK p : LastDot(s, p, i)
  BY <1>1, LastDotExists
<1>3. p \in Nat /\ p <= i /\ (p = 0 \/ s[p] = ".")
  BY <1>2 DEF LastDot
<1>4. p \in Dots(s)
  BY <1>1, <1>3 DEF Dots
<1> QED
  BY <1>1, <1>2, <1>3, <1>4

LEMMA DotBehind ==
    ASSUME NEW S, NEW s \in Seq(S), NEW i \in 0 .. Len(s)
    PROVE  \E q \in Dots(s) : /\ q \in i + 1 .. Len(s) + 1
                              /\ \A d \in Dots(s) : d <= i \/ d >= q
<1> DEFINE Behind == {d \in Dots(s) : d > i}
<1>1. Dots(s) \subseteq Nat /\ Len(s) \in Nat
  BY DEF Dots
<1>2. Len(s) + 1 \in Behind
  BY DEF Dots
<1>3. PICK q \in Behind : \A d \in Behind : q <= d
  BY <1>1, <1>2, Least
<1> QED
  BY <1>1, <1>2, <1>3

\* The two ends of a label.
LEMMA AdjacentIs ==
    ASSUME NEW S, NEW s \in Seq(S), NEW p, NEW q, Adjacent(s, p, q)
    PROVE  /\ p \in 0 .. Len(s) /\ q \in 1 .. Len(s) + 1
           /\ \A e \in Nat : p < e /\ e < q => e \in 1 .. Len(s) /\ s[e] # "."
           /\ q <= Len(s) => s[q] = "."
           /\ p = 0 \/ s[p] = "."
  BY DEF Adjacent, Dots

LEMMA LastOfLabel ==
    ASSUME NEW S, NEW s \in Seq(S), NEW p, NEW q, Adjacent(s, p, q),
           NEW i \in Nat, p <= i, i < q
    PROVE  LastDot(s, p, i) /\ i \in 0 .. Len(s)
  BY AdjacentIs DEF LastDot

LEMMA AcceptedIsDnsName ==
    ASSUME NEW S, NEW s \in Seq(S), Rules!HostnameValid(s)
    PROVE  Rules!DnsName(s)
<1> DEFINE n == Len(s)
           label == Rules!Label(s)
<1> USE InputAssumption DEF Rules!TextAssumption
<1>1. /\ n \in Nat /\ n \in 1 .. MaxHost /\ n # 0 /\ DOMAIN s = 1 .. n
  BY DEF Rules!HostnameValid
<1>2. ASSUME NEW i \in 1 .. n, s[i] = "."
      PROVE  label[i - 1] # 0 /\ s[i - 1] # "-" /\ i # n
  BY <1>1, <1>2 DEF Rules!HostnameValid, Rules!LetterGoesOn
<1>3. ASSUME NEW i \in 1 .. n, s[i] # "."
      PROVE  /\ s[i] = "x" \/ (s[i] = "-" /\ label[i - 1] # 0)
             /\ label[i] <= MaxLabel
             /\ ~(i = n /\ s[i] = "-")
  BY <1>1, <1>3 DEF Rules!HostnameValid, Rules!LetterGoesOn
<1> HIDE DEF n, label
<1>4. \A i \in DOMAIN s : s[i] \in {"x", "-", "."}
  BY <1>1, <1>3
<1>5. ASSUME NEW p, NEW q, Adjacent(s, p, q)
      PROVE  /\ q - p - 1 \in 1 .. MaxLabel
             /\ s[p + 1] # "-" /\ s[q - 1] # "-"
  <2>1. /\ p \in 0 .. n /\ q \in 1 .. n + 1 /\ p < q
        /\ \A e \in Nat : p < e /\ e < q => e \in 1 .. n /\ s[e] # "."
        /\ q <= n => s[q] = "."
        /\ p = 0 \/ s[p] = "."
    BY <1>5, AdjacentIs DEF n, Adjacent
  <2>2. ASSUME NEW i \in Nat, p <= i, i < q
        PROVE  label[i] = i - p
    BY <1>5, <2>2, LastOfLabel, LabelIs DEF label
  <2>3. p < q - 1 /\ s[q - 1] # "-"
    <3>1. CASE q = n + 1
      <4>1. p # n
        BY <1>1, <1>2, <2>1
      <4>2. p < n /\ s[n] # "."
        BY <1>1, <2>1, <3>1, <4>1
      <4> QED
        BY <1>1, <1>3, <3>1, <4>2
    <3>2. CASE q \in 1 .. n
      <4>1. label[q - 1] # 0 /\ s[q - 1] # "-"
        BY <1>2, <2>1, <3>2
      <4>2. label[q - 1] = q - 1 - p
        <5>1. q - 1 \in Nat /\ p <= q - 1 /\ q - 1 < q
          BY <1>1, <2>1
        <5> QED
          BY <2>2, <5>1
      <4> QED
        BY <1>1, <2>1, <4>1, <4>2
    <3> QED
      BY <1>1, <2>1, <3>1, <3>2
  <2>4. q - p - 1 <= MaxLabel
    <3>1. q - 1 \in 1 .. n /\ s[q - 1] # "." /\ label[q - 1] = q - 1 - p
      BY <1>1, <2>1, <2>2, <2>3
    <3> QED
      BY <1>1, <1>3, <2>1, <3>1
  <2>5. s[p + 1] # "-"
    <3>1. p + 1 \in 1 .. n /\ s[p + 1] # "." /\ label[p] = 0 /\ p + 1 - 1 = p
      BY <1>1, <2>1, <2>2, <2>3
    <3>2. PICK i \in 1 .. n : i = p + 1
      BY <3>1
    <3>3. i - 1 = p /\ s[i] # "."
      BY <1>1, <2>1, <3>1, <3>2
    <3>4. s[i] # "-"
      BY <1>3, <3>1, <3>3
    <3> QED
      BY <3>2, <3>4
  <2> QED
    BY <1>1, <2>1, <2>3, <2>4, <2>5
<1> QED
  BY <1>1, <1>4, <1>5, DnsNamePairs DEF n

LEMMA DnsNameIsAccepted ==
    ASSUME NEW S, NEW s \in Seq(S), Rules!DnsName(s)
    PROVE  Rules!HostnameValid(s)
<1> DEFINE n == Len(s)
           label == Rules!Label(s)
<1> USE InputAssumption DEF Rules!TextAssumption
<1>1. n \in Nat /\ n \in 1 .. MaxHost /\ n # 0 /\ DOMAIN s = 1 .. n
  BY DnsNamePairs
<1>2. \A i \in 1 .. n : s[i] \in {"x", "-", "."}
  BY <1>1, DnsNamePairs
<1>3. ASSUME NEW p, NEW q, Adjacent(s, p, q)
      PROVE  /\ p \in 0 .. n /\ q \in 1 .. n + 1 /\ p < q
             /\ q - p - 1 \in 1 .. MaxLabel /\ s[p + 1] # "-" /\ s[q - 1] # "-"
  BY <1>3, DnsNamePairs, AdjacentIs DEF Adjacent
<1>4. ASSUME NEW i \in 0 .. n
      PROVE  \E p, q : /\ Adjacent(s, p, q) /\ LastDot(s, p, i)
                       /\ p \in 0 .. i /\ q \in i + 1 .. n + 1
                       /\ label[i] = i - p
  <2>1. PICK p \in Dots(s) : LastDot(s, p, i) /\ p \in 0 .. i
    BY DotBefore
  <2>2. PICK q \in Dots(s) : q \in i + 1 .. n + 1 /\ \A d \in Dots(s) : d <= i \/ d >= q
    BY DotBehind
  <2>3. ASSUME NEW d \in Dots(s) PROVE d <= p \/ d >= q
    <3>1. d \in Nat /\ (d = 0 \/ d = n + 1 \/ s[d] = ".")
      BY DEF Dots
    <3> QED
      BY <1>1, <2>1, <2>2, <3>1 DEF LastDot
  <2>4. Adjacent(s, p, q)
    BY <1>1, <2>1, <2>2, <2>3 DEF Adjacent
  <2>5. label[i] = i - p
    BY <2>1, LabelIs
  <2> QED
    BY <2>1, <2>2, <2>4, <2>5
<1>5. ASSUME NEW i \in 1 .. n PROVE i \in Dots(s) <=> s[i] = "."
  BY <1>1 DEF Dots
<1> HIDE DEF label
<1>6. ASSUME NEW i \in 1 .. n, s[i] = "."
      PROVE  label[i - 1] # 0 /\ s[i - 1] # "-" /\ i # n
  <2>1. i - 1 \in 0 .. n /\ i - 1 + 1 = i
    BY <1>1
  <2>2. PICK p, q : /\ Adjacent(s, p, q) /\ p \in 0 .. i - 1 /\ q \in i .. n + 1
                    /\ label[i - 1] = i - 1 - p
    BY <1>4, <2>1
  <2>3. q = i
    BY <1>1, <1>5, <1>6, <2>2 DEF Adjacent
  <2>4. i - p - 1 \in 1 .. MaxLabel /\ s[i - 1] # "-"
    BY <1>3, <2>2, <2>3
  <2>5. i # n
    <3> SUFFICES ASSUME i = n PROVE FALSE
      OBVIOUS
    <3>1. Adjacent(s, n, n + 1)
      BY <1>1, <1>6 DEF Adjacent, Dots
    <3>2. n + 1 - n - 1 \in 1 .. MaxLabel
      BY <1>3, <3>1
    <3> QED
      BY <1>1, <3>2
  <2> QED
    <3>1. label[i - 1] # 0
      BY <1>1, <2>1, <2>2, <2>4
    <3> QED
      BY <2>4, <2>5, <3>1
<1>7. ASSUME NEW i \in 1 .. n, s[i] # "."
      PROVE  /\ s[i] = "x" \/ (s[i] = "-" /\ label[i - 1] # 0)
             /\ label[i] <= MaxLabel
             /\ ~(i = n /\ s[i] = "-")
  <2>1. PICK p, q : /\ Adjacent(s, p, q) /\ LastDot(s, p, i) /\ p \in 0 .. i
                    /\ q \in i + 1 .. n + 1 /\ label[i] = i - p
    BY <1>1, <1>4
  <2>2. q - p - 1 \in 1 .. MaxLabel /\ s[p + 1] # "-" /\ s[q - 1] # "-"
    BY <1>3, <2>1
  <2>3. label[i] <= MaxLabel /\ ~(i = n /\ s[i] = "-")
    <3>1. /\ i \in Nat /\ p \in Nat /\ q \in Nat /\ i < q /\ q <= n + 1
          /\ label[i] = i - p /\ q - p - 1 <= MaxLabel
      BY <1>1, <2>1, <2>2
    <3>2. label[i] <= MaxLabel
      BY <3>1
    <3>3. i = n => q - 1 = i
      BY <1>1, <3>1
    <3> QED
      BY <2>2, <3>2, <3>3
  <2>4. s[i] = "-" => label[i - 1] # 0
    <3> SUFFICES ASSUME s[i] = "-", label[i - 1] = 0 PROVE FALSE
      OBVIOUS
    <3>1. i - 1 \in 0 .. n /\ i - 1 + 1 = i
      BY <1>1
    <3>2. PICK a, b : /\ Adjacent(s, a, b) /\ a \in 0 .. i - 1 /\ label[i - 1] = i - 1 - a
      BY <1>4, <3>1
    <3>3. a + 1 = i
      BY <3>1, <3>2
    <3> QED
      BY <1>3, <3>2, <3>3
  <2> QED
    <3>1. s[i] = "x" \/ s[i] = "-"
      BY <1>2, <1>7
    <3> QED
      BY <2>3, <2>4, <3>1
<1>8. \A i \in DOMAIN s : Rules!LetterGoesOn(s, i)
  BY <1>1, <1>6, <1>7 DEF Rules!LetterGoesOn, label
<1> QED
  BY <1>1, <1>8 DEF Rules!HostnameValid

\* The two texts that are typed.
RulesInv == host \in Seq(Alphabet) /\ octets \in Seq(Octets)

LEMMA RulesInvAlways == MCSpec => []RulesInv
<1>1. MCInit => RulesInv
  BY DEF MCInit, Rules!Init, RulesInv
<1>2. RulesInv /\ [MCNext]_MCvars => RulesInv'
  <2> SUFFICES ASSUME RulesInv, [MCNext]_MCvars PROVE RulesInv'
    OBVIOUS
  <2>1. CASE UNCHANGED rulesVars
    BY <2>1 DEF RulesInv, rulesVars
  <2>2. CASE Rules!TypeLetter
    BY <2>2 DEF Rules!TypeLetter, RulesInv
  <2>3. CASE Rules!TypeOctet
    BY <2>3 DEF Rules!TypeOctet, RulesInv
  <2> QED
    BY <2>1, <2>2, <2>3 DEF MCNext, MCvars, Rules!Next
<1> QED
  BY <1>1, <1>2, PTL DEF MCSpec

\* For a name of any length and any limit of a label, the scan with one counter accepts the
\* DNS names and nothing else (hostname_valid).
THEOREM ScanIsDnsName == MCSpec => []HostnamesAreDnsNames
<1>1. RulesInv => HostnamesAreDnsNames
  BY AcceptedIsDnsName, DnsNameIsAccepted
     DEF RulesInv, HostnamesAreDnsNames, Rules!HostnamesAreDnsNames
<1> QED
  BY <1>1, RulesInvAlways, PTL

-----------------------------------------------------------------------------
(* UTF-8                                                                     *)

\* A walk over n places that takes steps of R and has come to the place behind the last:
\* the places from which there is one.
LEMMA WalksExist ==
    ASSUME NEW n \in Nat, NEW R
    PROVE  \E W \in SUBSET (1 .. n + 1) : \A i \in 1 .. n + 1 :
              i \in W <=> (i = n + 1 \/ \E k \in 1 .. n + 1 : <<i, k>> \in R /\ k \in W)
<1> DEFINE P == 1 .. n + 1
           Closed(T) == \A j \in T : j = n + 1 \/ \E k \in T : <<j, k>> \in R
           W == {i \in P : \E T \in SUBSET P : i \in T /\ Closed(T)}
<1> HIDE DEF P
<1>1. ASSUME NEW i \in W
      PROVE  i = n + 1 \/ \E k \in P : <<i, k>> \in R /\ k \in W
  OBVIOUS
<1>2. ASSUME NEW i \in P, i = n + 1
      PROVE  i \in W
  <2>1. {i} \in SUBSET P /\ Closed({i})
    BY <1>2
  <2> QED
    BY <2>1
<1>3. ASSUME NEW i \in P, NEW k \in P, <<i, k>> \in R, k \in W
      PROVE  i \in W
  <2>1. PICK T \in SUBSET P : k \in T /\ Closed(T)
    BY <1>3
  <2>2. T \cup {i} \in SUBSET P /\ Closed(T \cup {i})
    BY <1>3, <2>1
  <2> QED
    BY <2>2
<1>4. W \in SUBSET P
  OBVIOUS
<1> HIDE DEF W
<1> QED
  BY <1>1, <1>2, <1>3, <1>4 DEF P

LEMMA WalksAgree ==
    ASSUME NEW n \in Nat, NEW R, NEW f, NEW g,
           \A i, k : <<i, k>> \in R => i < k,
           \A i \in 1 .. n + 1 :
              f[i] <=> (i = n + 1 \/ \E k \in 1 .. n + 1 : <<i, k>> \in R /\ f[k]),
           \A i \in 1 .. n + 1 :
              g[i] <=> (i = n + 1 \/ \E k \in 1 .. n + 1 : <<i, k>> \in R /\ g[k])
    PROVE  f[1] <=> g[1]
<1> DEFINE Bad == {d \in 0 .. n : ~(f[n + 1 - d] <=> g[n + 1 - d])}
<1>1. Bad = {}
  <2> SUFFICES ASSUME Bad # {} PROVE FALSE
    OBVIOUS
  <2>1. Bad \subseteq Nat
    OBVIOUS
  <2> HIDE DEF Bad
  <2>2. PICK d \in Bad : \A y \in Bad : d <= y
    BY <2>1, Least
  <2>3. d \in 0 .. n /\ ~(f[n + 1 - d] <=> g[n + 1 - d])
    BY <2>2 DEF Bad
  <2>4. PICK i \in 1 .. n + 1 : i = n + 1 - d
    BY <2>3
  <2>5. ASSUME NEW k \in 1 .. n + 1, i < k
        PROVE  f[k] <=> g[k]
    <3>1. n + 1 - k \in 0 .. n /\ ~(d <= n + 1 - k) /\ n + 1 - (n + 1 - k) = k
      BY <2>3, <2>4, <2>5
    <3>2. n + 1 - k \notin Bad
      BY <2>2, <3>1
    <3> QED
      BY <3>1, <3>2 DEF Bad
  <2>6. f[i] <=> g[i]
    BY <2>5
  <2> QED
    BY <2>3, <2>4, <2>6
<1>2. n \in 0 .. n /\ n + 1 - n = 1
  OBVIOUS
<1>3. n \notin Bad
  BY <1>1
<1> QED
  BY <1>2, <1>3

LEMMA WalksAreFunction ==
    ASSUME NEW n \in Nat, NEW R
    PROVE  \E f \in [1 .. n + 1 -> BOOLEAN] : \A i \in 1 .. n + 1 :
              f[i] <=> (i = n + 1 \/ \E k \in 1 .. n + 1 : <<i, k>> \in R /\ f[k])
<1>1. PICK W \in SUBSET (1 .. n + 1) : \A i \in 1 .. n + 1 :
              i \in W <=> (i = n + 1 \/ \E k \in 1 .. n + 1 : <<i, k>> \in R /\ k \in W)
  BY WalksExist
<1> DEFINE f == [i \in 1 .. n + 1 |-> i \in W]
<1>2. f \in [1 .. n + 1 -> BOOLEAN]
  OBVIOUS
<1>3. \A k \in 1 .. n + 1 : f[k] <=> k \in W
  OBVIOUS
<1> HIDE DEF f
<1> QED
  BY <1>1, <1>2, <1>3

\* The characters that the scan goes over, and those of the definition: where they begin
\* and where the next one does.
Steps(n) == (1 .. n) \X (1 .. n + 1)

ScanSteps(s, ssid) ==
    {r \in Steps(Len(s)) : /\ Rules!CharacterGoesOn(s, r[1], ssid)
                           /\ r[2] = r[1] + Rules!More(s[r[1]]).more + 1}

Formed(s, i, ssid, form) ==
    Rules!In(s, i, form) /\ (ssid \/ \A e \in Rules!Excluded : ~Rules!In(s, i, e))

FormSteps(s, ssid) ==
    {r \in Steps(Len(s)) : \E form \in Rules!Forms : /\ Formed(s, r[1], ssid, form)
                                                     /\ r[2] = r[1] + Len(form)}

\* g says where there is a walk over s with the steps of R.
Walks(g, s, R) ==
    \A i \in 1 .. Len(s) + 1 :
       g[i] <=> (i = Len(s) + 1 \/ \E k \in 1 .. Len(s) + 1 : <<i, k>> \in R /\ g[k])

LEMMA MoreIs ==
    ASSUME NEW c
    PROVE  Rules!More(c).more \in {0, 1, 2, 3}
  BY DEF Rules!More

LEMMA ScanWalks ==
    ASSUME NEW S, NEW s \in Seq(S), NEW ssid \in BOOLEAN
    PROVE  \E g : /\ Rules!Utf8Valid(s, ssid) = g[1]
                  /\ Walks(g, s, ScanSteps(s, ssid))
<1> DEFINE n == Len(s)
           R == ScanSteps(s, ssid)
           next(i) == i + Rules!More(s[i]).more + 1
           Rec(g) == [i \in 1 .. n + 1 |->
                        \/ i = n + 1
                        \/ Rules!CharacterGoesOn(s, i, ssid) /\ g[next(i)]]
<1>1. n \in Nat
  OBVIOUS
<1>2. ASSUME NEW i \in 1 .. n + 1, i # n + 1, NEW g
      PROVE  (\E k \in 1 .. n + 1 : <<i, k>> \in R /\ g[k])
                <=> Rules!CharacterGoesOn(s, i, ssid) /\ g[next(i)]
  <2>1. i \in 1 .. n
    BY <1>1, <1>2
  <2>2. \A k \in 1 .. n + 1 :
           <<i, k>> \in R <=> Rules!CharacterGoesOn(s, i, ssid) /\ k = next(i)
    BY <2>1 DEF ScanSteps, Steps
  <2>3. Rules!CharacterGoesOn(s, i, ssid) => next(i) \in 1 .. n + 1
    <3> SUFFICES ASSUME Rules!CharacterGoesOn(s, i, ssid)
                 PROVE  next(i) \in 1 .. n + 1
      OBVIOUS
    <3>1. i + Rules!More(s[i]).more <= n
      BY DEF Rules!CharacterGoesOn
    <3>2. Rules!More(s[i]).more \in Nat
      BY MoreIs
    <3> QED
      BY <1>1, <2>1, <3>1, <3>2
  <2> HIDE DEF R, next, n
  <2> QED
    BY <2>2, <2>3
<1> HIDE DEF R
<1>3. \E f : f = Rec(f)
  <2>1. PICK f \in [1 .. n + 1 -> BOOLEAN] : \A i \in 1 .. n + 1 :
              f[i] <=> (i = n + 1 \/ \E k \in 1 .. n + 1 : <<i, k>> \in R /\ f[k])
    BY <1>1, WalksAreFunction
  <2> HIDE DEF n, next
  <2>2. ASSUME NEW i \in 1 .. n + 1
        PROVE  f[i] = (i = n + 1 \/ (Rules!CharacterGoesOn(s, i, ssid) /\ f[next(i)]))
    <3>1. f[i] <=> (i = n + 1 \/ (Rules!CharacterGoesOn(s, i, ssid) /\ f[next(i)]))
      BY <1>2, <2>1
    <3>2. f[i] \in BOOLEAN
      BY <2>1
    <3> QED
      BY <3>1, <3>2
  <2>3. f = [i \in 1 .. n + 1 |-> f[i]]
    BY <2>1
  <2>4. f = Rec(f)
    BY <2>2, <2>3
  <2> QED
    BY <2>4
<1>4. PICK g : g = Rec(g) /\ Rules!Utf8Valid(s, ssid) = g[1]
  BY <1>3 DEF Rules!Utf8Valid
<1> HIDE DEF n, next
<1>5. ASSUME NEW i \in 1 .. n + 1
      PROVE  g[i] <=> (i = n + 1 \/ \E k \in 1 .. n + 1 : <<i, k>> \in R /\ g[k])
  <2>1. g[i] <=> (i = n + 1 \/ (Rules!CharacterGoesOn(s, i, ssid) /\ g[next(i)]))
    BY <1>4
  <2> QED
    BY <1>2, <2>1
<1> QED
  BY <1>4, <1>5 DEF Walks, R, n

LEMMA FormIsLong ==
    ASSUME NEW form \in Rules!Forms
    PROVE  Len(form) \in {1, 2, 3, 4}
  BY DEF Rules!Forms

LEMMA FormWalks ==
    ASSUME NEW S, NEW s \in Seq(S), NEW ssid \in BOOLEAN
    PROVE  \E g : /\ Rules!WellFormedChars(s, ssid) = g[1]
                  /\ Walks(g, s, FormSteps(s, ssid))
<1> DEFINE n == Len(s)
           R == FormSteps(s, ssid)
           Rec(g) == [i \in 1 .. n + 1 |->
                        \/ i = n + 1
                        \/ \E form \in Rules!Forms :
                              /\ Rules!In(s, i, form)
                              /\ ssid \/ \A e \in Rules!Excluded : ~Rules!In(s, i, e)
                              /\ g[i + Len(form)]]
<1>1. n \in Nat
  OBVIOUS
<1>2. ASSUME NEW i \in 1 .. n + 1, i # n + 1, NEW g
      PROVE  (\E k \in 1 .. n + 1 : <<i, k>> \in R /\ g[k])
                <=> \E form \in Rules!Forms : Formed(s, i, ssid, form) /\ g[i + Len(form)]
  <2>1. i \in 1 .. n
    BY <1>1, <1>2
  <2>2. \A k \in 1 .. n + 1 :
           <<i, k>> \in R
              <=> \E form \in Rules!Forms : Formed(s, i, ssid, form) /\ k = i + Len(form)
    BY <2>1 DEF FormSteps, Steps
  <2>3. ASSUME NEW form \in Rules!Forms, Formed(s, i, ssid, form)
        PROVE  i + Len(form) \in 1 .. n + 1
    <3>1. i + Len(form) - 1 <= n
      BY <2>3 DEF Formed, Rules!In
    <3>2. Len(form) \in Nat
      BY FormIsLong
    <3> QED
      BY <1>1, <2>1, <3>1, <3>2
  <2> HIDE DEF R, n
  <2> QED
    BY <2>2, <2>3
<1> HIDE DEF R
<1>3. \E f : f = Rec(f)
  <2>1. PICK f \in [1 .. n + 1 -> BOOLEAN] : \A i \in 1 .. n + 1 :
              f[i] <=> (i = n + 1 \/ \E k \in 1 .. n + 1 : <<i, k>> \in R /\ f[k])
    BY <1>1, WalksAreFunction
  <2> DEFINE Body(i) == \/ i = n + 1
                        \/ \E form \in Rules!Forms :
                              /\ Rules!In(s, i, form)
                              /\ ssid \/ \A e \in Rules!Excluded : ~Rules!In(s, i, e)
                              /\ f[i + Len(form)]
  <2> HIDE DEF n
  <2>2. ASSUME NEW i \in 1 .. n + 1
        PROVE  f[i] = Body(i)
    <3>1. Body(i) <=> (i = n + 1
             \/ \E form \in Rules!Forms : Formed(s, i, ssid, form) /\ f[i + Len(form)])
      BY Zenon DEF Formed
    <3>2. Body(i) \in BOOLEAN
      OBVIOUS
    <3> HIDE DEF Body
    <3>3. f[i] <=> Body(i)
      BY <1>2, <2>1, <3>1
    <3>4. f[i] \in BOOLEAN
      BY <2>1
    <3> QED
      BY <3>2, <3>3, <3>4
  <2>3. f = [i \in 1 .. n + 1 |-> f[i]]
    BY <2>1
  <2>4. f = [i \in 1 .. n + 1 |-> Body(i)]
    <3> HIDE DEF Body
    <3> QED
      BY <2>2, <2>3
  <2> QED
    BY <2>4
<1>4. PICK g : g = Rec(g) /\ Rules!WellFormedChars(s, ssid) = g[1]
  BY <1>3 DEF Rules!WellFormedChars
<1> HIDE DEF n
<1>5. ASSUME NEW i \in 1 .. n + 1
      PROVE  g[i] <=> (i = n + 1 \/ \E k \in 1 .. n + 1 : <<i, k>> \in R /\ g[k])
  <2>1. g[i] <=> (i = n + 1
           \/ \E form \in Rules!Forms : Formed(s, i, ssid, form) /\ g[i + Len(form)])
    BY <1>4 DEF Formed
  <2> QED
    BY <1>2, <2>1
<1> QED
  BY <1>4, <1>5 DEF Walks, R, n

LEMMA RangeIs ==
    ASSUME NEW x, NEW a \in Int, NEW b \in Int
    PROVE  x \in a .. b <=> x \in Int /\ a <= x /\ x <= b
  OBVIOUS

\* What follows a first byte.
LEMMA MoreCases ==
    ASSUME NEW c \in Nat
    PROVE  /\ 194 <= c /\ c <= 223
                => Rules!More(c) = [more |-> 1, bits |-> c % 32, minimum |-> 128]
           /\ 224 <= c /\ c <= 239
                => Rules!More(c) = [more |-> 2, bits |-> c % 16, minimum |-> 2048]
           /\ 240 <= c /\ c <= 244
                => Rules!More(c) = [more |-> 3, bits |-> c % 8, minimum |-> 65536]
           /\ c < 194 \/ c > 244
                => Rules!More(c) = [more |-> 0, bits |-> c, minimum |-> 0]
<1>1. /\ c \in 194 .. 223 <=> 194 <= c /\ c <= 223
      /\ c \in 224 .. 239 <=> 224 <= c /\ c <= 239
      /\ c \in 240 .. 244 <=> 240 <= c /\ c <= 244
  OBVIOUS
<1>2. CASE 194 <= c /\ c <= 223
  BY <1>1, <1>2 DEF Rules!More
<1>3. CASE 224 <= c /\ c <= 239
  BY <1>1, <1>3 DEF Rules!More
<1>4. CASE 240 <= c /\ c <= 244
  BY <1>1, <1>4 DEF Rules!More
<1>5. CASE c < 194 \/ c > 244
  BY <1>1, <1>5 DEF Rules!More
<1> QED
  BY <1>2, <1>3, <1>4, <1>5

\* The loop that gathers the bits, unrolled.
LEMMA CodePointIs ==
    ASSUME NEW s, NEW i \in Nat, NEW c, c = s[i]
    PROVE  LET b == Rules!More(c).bits
               m == Rules!More(c).more
               b1 == b * 64 + (s[i + 1] % 64)
               b2 == b1 * 64 + (s[i + 2] % 64)
               b3 == b2 * 64 + (s[i + 3] % 64)
           IN  /\ m = 0 => Rules!CodePoint(s, i) = b
               /\ m = 1 => Rules!CodePoint(s, i) = b1
               /\ m = 2 => Rules!CodePoint(s, i) = b2
               /\ m = 3 => Rules!CodePoint(s, i) = b3
<1> DEFINE b == Rules!More(c).bits
           m == Rules!More(c).more
           b1 == b * 64 + (s[i + 1] % 64)
           b2 == b1 * 64 + (s[i + 2] % 64)
           b3 == b2 * 64 + (s[i + 3] % 64)
           Rec(g) == [j \in 0 .. m |-> IF j = 0 THEN b ELSE g[j - 1] * 64 + (s[i + j] % 64)]
           f == [j \in 0 .. m |-> IF j = 0 THEN b ELSE IF j = 1 THEN b1
                                  ELSE IF j = 2 THEN b2 ELSE b3]
<1>1. m \in {0, 1, 2, 3}
  BY MoreIs
<1>2. ASSUME NEW j \in 0 .. m
      PROVE  f[j] = IF j = 0 THEN b ELSE f[j - 1] * 64 + (s[i + j] % 64)
  <2>1. j \in {0, 1, 2, 3} /\ j \in Int
    BY <1>1
  <2>2. CASE j = 0
    BY <2>2
  <2>3. CASE j = 1
    <3>1. f[1] = b1 /\ f[0] = b
      BY <1>1, <2>3
    <3> QED
      BY <2>3, <3>1
  <2>4. CASE j = 2
    <3>1. f[2] = b2 /\ f[1] = b1
      BY <1>1, <2>4
    <3> QED
      BY <2>4, <3>1
  <2>5. CASE j = 3
    <3>1. f[3] = b3 /\ f[2] = b2
      BY <1>1, <2>5
    <3> QED
      BY <2>5, <3>1
  <2> QED
    BY <2>1, <2>2, <2>3, <2>4, <2>5
<1>3. f = Rec(f)
  <2>1. f = [j \in 0 .. m |-> f[j]]
    OBVIOUS
  <2> HIDE DEF f
  <2>2. Rec(f) = [j \in 0 .. m |-> f[j]]
    BY <1>2
  <2> HIDE DEF Rec
  <2> QED
    BY <2>1, <2>2
<1>4. PICK g : g = Rec(g) /\ Rules!CodePoint(s, i) = g[m]
  <2> HIDE DEF f
  <2> DEFINE g == CHOOSE g : g = Rec(g)
  <2>1. g = Rec(g)
    BY <1>3, Zenon
  <2>2. Rules!CodePoint(s, i) = g[m]
    BY DEF Rules!CodePoint
  <2> HIDE DEF g, Rec, m
  <2> QED
    BY <2>1, <2>2
<1> HIDE DEF m, b
<1>5. m = 0 => g[m] = b
  BY <1>4
<1>6. m \in {1, 2, 3} => g[1] = b1
  <2>1. m \in {1, 2, 3} => g[0] = b
    BY <1>4
  <2> QED
    BY <1>4, <2>1
<1>7. m \in {2, 3} => g[2] = b2
  BY <1>4, <1>6
<1>8. m = 3 => g[3] = b3
  BY <1>4, <1>7
<1> QED
  BY <1>4, <1>5, <1>6, <1>7, <1>8 DEF m, b

\* The well-formed characters by their bytes.
OneByte(c) == 32 <= c /\ c <= 126

TwoBytes(c, t, ssid) ==
    /\ 194 <= c /\ c <= 223 /\ 128 <= t /\ t <= 191
    /\ ssid \/ ~(c = 194 /\ t <= 159)

ThreeBytes(c, t, u, ssid) ==
    /\ 224 <= c /\ c <= 239 /\ 128 <= t /\ t <= 191 /\ 128 <= u /\ u <= 191
    /\ c = 224 => 160 <= t
    /\ c = 237 => t <= 159
    /\ ssid \/ ~(c = 239 /\ t = 183 /\ 144 <= u /\ u <= 175)
    /\ ssid \/ ~(c = 239 /\ t = 191 /\ 190 <= u)

FourBytes(c, t, u, v, ssid) ==
    /\ 240 <= c /\ c <= 244 /\ 128 <= t /\ t <= 191 /\ 128 <= u /\ u <= 191
    /\ 128 <= v /\ v <= 191
    /\ c = 240 => 144 <= t
    /\ c = 244 => t <= 143
    /\ ssid \/ ~(t \in {143, 159, 175, 191} /\ u = 191 /\ 190 <= v)

\* A byte that follows the first one, and the code points of three and four bytes.
Follows(x) == x \in Nat /\ 128 <= x /\ x <= 191

CodeThree(c, t, u) == ((c % 16) * 64 + (t % 64)) * 64 + (u % 64)

CodeFour(c, t, u, v) == (((c % 8) * 64 + (t % 64)) * 64 + (u % 64)) * 64 + (v % 64)

\* The arithmetic of the scan, for a character of each length.
LEMMA AcceptableOne ==
    ASSUME NEW c \in Nat, c < 128, NEW ssid \in BOOLEAN
    PROVE  Rules!Acceptable(c, 0, ssid) <=> OneByte(c)
<1>1. c % 65536 = c
  OBVIOUS
<1> QED
  BY <1>1 DEF Rules!Acceptable, OneByte

LEMMA AcceptableTwo ==
    ASSUME NEW c \in Nat, 194 <= c, c <= 223, NEW t \in Nat, 128 <= t, t <= 191,
           NEW ssid \in BOOLEAN, NEW cp, cp = (c % 32) * 64 + (t % 64)
    PROVE  Rules!Acceptable(cp, 128, ssid) <=> TwoBytes(c, t, ssid)
<1>1. c % 32 = c - 192 /\ t % 64 = t - 128
  OBVIOUS
<1>2. cp \in Nat /\ cp = (c - 192) * 64 + (t - 128)
  BY <1>1
<1>3. cp >= 128 /\ cp < 2048 /\ cp % 65536 = cp /\ (cp > 159 <=> ~(c = 194 /\ t <= 159))
  BY <1>2
<1>4. Rules!Acceptable(cp, 128, ssid) <=> (ssid \/ cp > 159)
  BY <1>3 DEF Rules!Acceptable
<1> QED
  BY <1>1, <1>2, <1>3, <1>4 DEF TwoBytes

LEMMA AcceptableThree ==
    ASSUME NEW c \in Nat, 224 <= c, c <= 239, NEW t, Follows(t), NEW u, Follows(u),
           NEW ssid \in BOOLEAN
    PROVE  Rules!Acceptable(CodeThree(c, t, u), 2048, ssid) <=> ThreeBytes(c, t, u, ssid)
<1> DEFINE cp == CodeThree(c, t, u)
<1>0. /\ t \in Nat /\ 128 <= t /\ t <= 191
      /\ u \in Nat /\ 128 <= u /\ u <= 191
      /\ cp = ((c % 16) * 64 + (t % 64)) * 64 + (u % 64)
  BY DEF Follows, CodeThree
<1> HIDE DEF cp
<1>1. c % 16 = c - 224 /\ t % 64 = t - 128 /\ u % 64 = u - 128
  BY <1>0
<1>2. cp \in Nat /\ cp = ((c - 224) * 64 + (t - 128)) * 64 + (u - 128)
  BY <1>0, <1>1
<1>3. cp < 65536 /\ cp % 65536 = cp
  BY <1>0, <1>2
<1>4. cp >= 2048 <=> (c = 224 => 160 <= t)
  BY <1>0, <1>2
<1>5. (cp < 55296 \/ cp > 57343) <=> (c = 237 => t <= 159)
  BY <1>0, <1>2
<1>6. (cp < 64976 \/ cp > 65007) <=> ~(c = 239 /\ t = 183 /\ 144 <= u /\ u <= 175)
  BY <1>0, <1>2
<1>7. cp < 65534 <=> ~(c = 239 /\ t = 191 /\ 190 <= u)
  BY <1>0, <1>2
<1>8. Rules!Acceptable(cp, 2048, ssid)
        <=> /\ cp >= 2048 /\ (cp < 55296 \/ cp > 57343)
            /\ ssid \/ ((cp < 64976 \/ cp > 65007) /\ cp < 65534)
  BY <1>0, <1>3 DEF Rules!Acceptable
<1> QED
  BY <1>0, <1>1, <1>2, <1>4, <1>5, <1>6, <1>7, <1>8 DEF ThreeBytes, cp

LEMMA AcceptableFour ==
    ASSUME NEW c \in Nat, 240 <= c, c <= 244, NEW t, Follows(t), NEW u, Follows(u),
           NEW v, Follows(v), NEW ssid \in BOOLEAN
    PROVE  Rules!Acceptable(CodeFour(c, t, u, v), 65536, ssid)
             <=> FourBytes(c, t, u, v, ssid)
<1> DEFINE cp == CodeFour(c, t, u, v)
<1>0. /\ t \in Nat /\ 128 <= t /\ t <= 191
      /\ u \in Nat /\ 128 <= u /\ u <= 191
      /\ v \in Nat /\ 128 <= v /\ v <= 191
      /\ cp = (((c % 8) * 64 + (t % 64)) * 64 + (u % 64)) * 64 + (v % 64)
  BY DEF Follows, CodeFour
<1> HIDE DEF cp
<1>1. c % 8 = c - 240 /\ t % 64 = t - 128 /\ u % 64 = u - 128 /\ v % 64 = v - 128
  BY <1>0
<1>2. cp \in Nat /\ cp = (((c - 240) * 64 + (t - 128)) * 64 + (u - 128)) * 64 + (v - 128)
  BY <1>0, <1>1
<1>3. cp >= 65536 <=> (c = 240 => 144 <= t)
  BY <1>0, <1>2
<1>4. cp <= 1114111 <=> (c = 244 => t <= 143)
  BY <1>0, <1>2
<1>5. PICK q \in 0 .. 3, r \in 0 .. 15 : t - 128 = 16 * q + r
  <2>1. (t - 128) \div 16 \in 0 .. 3 /\ (t - 128) % 16 \in 0 .. 15
        /\ t - 128 = 16 * ((t - 128) \div 16) + ((t - 128) % 16)
    BY <1>0
  <2> QED
    BY <2>1
<1>6. PICK w \in Nat : w = (r * 64 + (u - 128)) * 64 + (v - 128)
  BY <1>0, <1>5
<1>7. w < 65536 /\ cp = 65536 * ((c - 240) * 4 + q) + w
  BY <1>0, <1>2, <1>5, <1>6
<1>8. cp % 65536 = w
  BY <1>0, <1>5, <1>6, <1>7
<1>9. w < 65534 <=> ~(r = 15 /\ u = 191 /\ 190 <= v)
  BY <1>0, <1>5, <1>6
<1>10. r = 15 <=> t \in {143, 159, 175, 191}
  BY <1>0, <1>5
<1>11. Rules!Acceptable(cp, 65536, ssid)
         <=> cp >= 65536 /\ cp <= 1114111 /\ (ssid \/ w < 65534)
  <2>1. cp >= 65536 => cp > 57343 /\ cp > 159 /\ cp > 127 /\ cp > 65007 /\ cp >= 32
    BY <1>2
  <2> QED
    BY <1>8, <2>1 DEF Rules!Acceptable
<1> QED
  BY <1>0, <1>1, <1>2, <1>3, <1>4, <1>9, <1>10, <1>11 DEF FourBytes, cp

LEMMA TrailIs ==
    ASSUME NEW x \in Nat
    PROVE  x \in Rules!Trail <=> Follows(x)
<1>1. 128 \in Int /\ 191 \in Int
  OBVIOUS
<1>2. x \in 128 .. 191 <=> x \in Int /\ 128 <= x /\ x <= 191
  BY <1>1, RangeIs, Zenon
<1>3. x \in Int
  OBVIOUS
<1> QED
  BY <1>2, <1>3, Zenon DEF Rules!Trail, Follows

\* The character at i, by its bytes; k is where the next one begins.
Reads(s, i, k, ssid) ==
    \/ OneByte(s[i]) /\ k = i + 1
    \/ i + 1 <= Len(s) /\ TwoBytes(s[i], s[i + 1], ssid) /\ k = i + 2
    \/ i + 2 <= Len(s) /\ ThreeBytes(s[i], s[i + 1], s[i + 2], ssid) /\ k = i + 3
    \/ i + 3 <= Len(s) /\ FourBytes(s[i], s[i + 1], s[i + 2], s[i + 3], ssid) /\ k = i + 4

\* The scan reads the well-formed characters.
LEMMA ScanReads ==
    ASSUME NEW s \in Seq(Nat), NEW i \in 1 .. Len(s), NEW k, NEW ssid \in BOOLEAN
    PROVE  (Rules!CharacterGoesOn(s, i, ssid) /\ k = i + Rules!More(s[i]).more + 1)
              <=> Reads(s, i, k, ssid)
<1> DEFINE n == Len(s)
           c == s[i]
           m == Rules!More(c).more
<1>1. n \in Nat /\ i \in Nat /\ c \in Nat /\ \A j \in 1 .. n : s[j] \in Nat
  OBVIOUS
<1>2. Rules!CharacterGoesOn(s, i, ssid)
        <=> /\ c < 128 \/ m > 0
            /\ i + m <= n
            /\ \A j \in 1 .. m : s[i + j] \in Rules!Trail
            /\ Rules!Acceptable(Rules!CodePoint(s, i), Rules!More(c).minimum, ssid)
  BY Zenon DEF Rules!CharacterGoesOn, Rules!Trail
<1>3. CASE c < 194 \/ c > 244
  <2>1. m = 0 /\ Rules!More(c).minimum = 0 /\ Rules!More(c).bits = c
    BY <1>1, <1>3, MoreCases
  <2>2. Rules!CodePoint(s, i) = c
    BY <1>1, <2>1, CodePointIs
  <2> HIDE DEF m, c, n
  <2>3. Rules!CharacterGoesOn(s, i, ssid) <=> c < 128 /\ Rules!Acceptable(c, 0, ssid)
    <3>1. i + 0 <= n
      BY <1>1 DEF n
    <3> QED
      BY <1>1, <1>2, <2>1, <2>2, <3>1
  <2>4. Rules!CharacterGoesOn(s, i, ssid) <=> OneByte(c)
    <3>1. OneByte(c) => c < 128
      BY <1>1 DEF OneByte
    <3> QED
      BY <1>1, <2>3, <3>1, AcceptableOne
  <2>5. /\ ~TwoBytes(c, s[i + 1], ssid)
        /\ ~ThreeBytes(c, s[i + 1], s[i + 2], ssid)
        /\ ~FourBytes(c, s[i + 1], s[i + 2], s[i + 3], ssid)
    BY <1>1, <1>3 DEF TwoBytes, ThreeBytes, FourBytes
  <2>6. i + m + 1 = i + 1
    BY <1>1, <2>1
  <2> QED
    BY <2>4, <2>5, <2>6 DEF Reads, c, m
<1>4. CASE 194 <= c /\ c <= 223
  <2>1. m = 1 /\ Rules!More(c).minimum = 128 /\ Rules!More(c).bits = c % 32
    BY <1>1, <1>4, MoreCases
  <2> DEFINE cp == Rules!CodePoint(s, i)
  <2>2. cp = (c % 32) * 64 + (s[i + 1] % 64)
    BY <1>1, <2>1, CodePointIs
  <2> HIDE DEF m, c, n
  <2>3. Rules!CharacterGoesOn(s, i, ssid)
          <=> /\ i + 1 <= n /\ s[i + 1] \in Rules!Trail
              /\ Rules!Acceptable(cp, 128, ssid)
    BY <1>2, <2>1
  <2>4. Rules!CharacterGoesOn(s, i, ssid) <=> i + 1 <= n /\ TwoBytes(c, s[i + 1], ssid)
    <3>1. CASE i + 1 <= n
      <4>1. s[i + 1] \in Nat
        BY <1>1, <3>1
      <4>2. TwoBytes(c, s[i + 1], ssid) => Follows(s[i + 1])
        BY <4>1 DEF TwoBytes, Follows
      <4> QED
        <5> HIDE DEF cp
        <5>1. s[i + 1] \in Rules!Trail <=> Follows(s[i + 1])
          BY <4>1, TrailIs
        <5>2. ASSUME Follows(s[i + 1])
              PROVE  Rules!Acceptable(cp, 128, ssid) <=> TwoBytes(c, s[i + 1], ssid)
          <6>1. 128 <= s[i + 1] /\ s[i + 1] <= 191
            BY <5>2 DEF Follows
          <6> QED
            BY <1>1, <1>4, <2>2, <4>1, <6>1, AcceptableTwo
        <5> QED
          BY <2>3, <3>1, <4>2, <5>1, <5>2
    <3> QED
      BY <2>3, <3>1
  <2>5. /\ ~OneByte(c)
        /\ ~ThreeBytes(c, s[i + 1], s[i + 2], ssid)
        /\ ~FourBytes(c, s[i + 1], s[i + 2], s[i + 3], ssid)
    BY <1>1, <1>4 DEF OneByte, ThreeBytes, FourBytes
  <2>6. i + m + 1 = i + 2
    BY <1>1, <2>1
  <2> QED
    BY <2>4, <2>5, <2>6 DEF Reads, c, m, n
<1>5. CASE 224 <= c /\ c <= 239
  <2>1. m = 2 /\ Rules!More(c).minimum = 2048 /\ Rules!More(c).bits = c % 16
    BY <1>1, <1>5, MoreCases
  <2> DEFINE cp == Rules!CodePoint(s, i)
  <2>2. cp = ((c % 16) * 64 + (s[i + 1] % 64)) * 64 + (s[i + 2] % 64)
    BY <1>1, <2>1, CodePointIs
  <2> HIDE DEF m, c, n
  <2>3. Rules!CharacterGoesOn(s, i, ssid)
          <=> /\ i + 2 <= n /\ s[i + 1] \in Rules!Trail /\ s[i + 2] \in Rules!Trail
              /\ Rules!Acceptable(cp, 2048, ssid)
    <3>1. (\A j \in 1 .. 2 : s[i + j] \in Rules!Trail)
            <=> s[i + 1] \in Rules!Trail /\ s[i + 2] \in Rules!Trail
      OBVIOUS
    <3> QED
      BY <1>2, <2>1, <2>2, <3>1
  <2>4. Rules!CharacterGoesOn(s, i, ssid)
          <=> i + 2 <= n /\ ThreeBytes(c, s[i + 1], s[i + 2], ssid)
    <3>1. CASE i + 2 <= n
      <4>1. s[i + 1] \in Nat /\ s[i + 2] \in Nat
        BY <1>1, <3>1
      <4>2. ThreeBytes(c, s[i + 1], s[i + 2], ssid)
              => Follows(s[i + 1]) /\ Follows(s[i + 2])
        BY <4>1 DEF ThreeBytes, Follows
      <4>3. /\ s[i + 1] \in Rules!Trail <=> Follows(s[i + 1])
            /\ s[i + 2] \in Rules!Trail <=> Follows(s[i + 2])
        BY <4>1, TrailIs
      <4>4. ASSUME Follows(s[i + 1]), Follows(s[i + 2])
            PROVE  Rules!Acceptable(cp, 2048, ssid)
                     <=> ThreeBytes(c, s[i + 1], s[i + 2], ssid)
        <5>1. cp = CodeThree(c, s[i + 1], s[i + 2])
          BY <2>2, Zenon DEF CodeThree
        <5> HIDE DEF cp
        <5>2. Rules!Acceptable(CodeThree(c, s[i + 1], s[i + 2]), 2048, ssid)
                <=> ThreeBytes(c, s[i + 1], s[i + 2], ssid)
          BY <1>1, <1>5, <4>4, AcceptableThree
        <5> QED
          BY <5>1, <5>2
      <4> HIDE DEF cp
      <4>5. Rules!CharacterGoesOn(s, i, ssid)
              <=> /\ Follows(s[i + 1]) /\ Follows(s[i + 2])
                  /\ Rules!Acceptable(cp, 2048, ssid)
        BY <2>3, <3>1, <4>3
      <4> QED
        BY <3>1, <4>2, <4>4, <4>5
    <3> QED
      BY <2>3, <3>1
  <2>5. /\ ~OneByte(c)
        /\ ~TwoBytes(c, s[i + 1], ssid)
        /\ ~FourBytes(c, s[i + 1], s[i + 2], s[i + 3], ssid)
    BY <1>1, <1>5 DEF OneByte, TwoBytes, FourBytes
  <2>6. i + m + 1 = i + 3
    BY <1>1, <2>1
  <2> QED
    BY <2>4, <2>5, <2>6 DEF Reads, c, m, n
<1>6. CASE 240 <= c /\ c <= 244
  <2>1. m = 3 /\ Rules!More(c).minimum = 65536 /\ Rules!More(c).bits = c % 8
    BY <1>1, <1>6, MoreCases
  <2> DEFINE cp == Rules!CodePoint(s, i)
  <2>2. cp = (((c % 8) * 64 + (s[i + 1] % 64)) * 64 + (s[i + 2] % 64)) * 64
                + (s[i + 3] % 64)
    BY <1>1, <2>1, CodePointIs
  <2> HIDE DEF m, c, n
  <2>3. Rules!CharacterGoesOn(s, i, ssid)
          <=> /\ i + 3 <= n /\ s[i + 1] \in Rules!Trail /\ s[i + 2] \in Rules!Trail
              /\ s[i + 3] \in Rules!Trail
              /\ Rules!Acceptable(cp, 65536, ssid)
    <3>1. (\A j \in 1 .. 3 : s[i + j] \in Rules!Trail)
            <=> /\ s[i + 1] \in Rules!Trail /\ s[i + 2] \in Rules!Trail
                /\ s[i + 3] \in Rules!Trail
      OBVIOUS
    <3> HIDE DEF cp
    <3>2. (\A j \in 1 .. m : s[i + j] \in Rules!Trail)
            <=> /\ s[i + 1] \in Rules!Trail /\ s[i + 2] \in Rules!Trail
                /\ s[i + 3] \in Rules!Trail
      BY <2>1, <3>1
    <3>3. i + m = i + 3 /\ m > 0
      BY <2>1
    <3>4. Rules!CharacterGoesOn(s, i, ssid)
            <=> /\ i + m <= n
                /\ \A j \in 1 .. m : s[i + j] \in Rules!Trail
                /\ Rules!Acceptable(cp, 65536, ssid)
      <4>1. c < 128 \/ m > 0
        BY <3>3
      <4>2. Rules!More(c).minimum = 65536
        BY <2>1
      <4> HIDE DEF cp
      <4> QED
        BY <1>2, <4>1, <4>2 DEF cp
    <3> QED
      BY <3>2, <3>3, <3>4
  <2>4. Rules!CharacterGoesOn(s, i, ssid)
          <=> i + 3 <= n /\ FourBytes(c, s[i + 1], s[i + 2], s[i + 3], ssid)
    <3>1. CASE i + 3 <= n
      <4>1. s[i + 1] \in Nat /\ s[i + 2] \in Nat /\ s[i + 3] \in Nat
        BY <1>1, <3>1
      <4>2. FourBytes(c, s[i + 1], s[i + 2], s[i + 3], ssid)
              => Follows(s[i + 1]) /\ Follows(s[i + 2]) /\ Follows(s[i + 3])
        BY <4>1 DEF FourBytes, Follows
      <4>3. /\ s[i + 1] \in Rules!Trail <=> Follows(s[i + 1])
            /\ s[i + 2] \in Rules!Trail <=> Follows(s[i + 2])
            /\ s[i + 3] \in Rules!Trail <=> Follows(s[i + 3])
        BY <4>1, TrailIs
      <4>4. ASSUME Follows(s[i + 1]), Follows(s[i + 2]), Follows(s[i + 3])
            PROVE  Rules!Acceptable(cp, 65536, ssid)
                     <=> FourBytes(c, s[i + 1], s[i + 2], s[i + 3], ssid)
        <5>1. cp = CodeFour(c, s[i + 1], s[i + 2], s[i + 3])
          BY <2>2, Zenon DEF CodeFour
        <5> HIDE DEF cp
        <5>2. Rules!Acceptable(CodeFour(c, s[i + 1], s[i + 2], s[i + 3]), 65536, ssid)
                <=> FourBytes(c, s[i + 1], s[i + 2], s[i + 3], ssid)
          BY <1>1, <1>6, <4>4, AcceptableFour
        <5> QED
          BY <5>1, <5>2
      <4> HIDE DEF cp
      <4>5. Rules!CharacterGoesOn(s, i, ssid)
              <=> /\ Follows(s[i + 1]) /\ Follows(s[i + 2]) /\ Follows(s[i + 3])
                  /\ Rules!Acceptable(cp, 65536, ssid)
        BY <2>3, <3>1, <4>3
      <4> QED
        BY <3>1, <4>2, <4>4, <4>5
    <3> QED
      BY <2>3, <3>1
  <2>5. /\ ~OneByte(c)
        /\ ~TwoBytes(c, s[i + 1], ssid)
        /\ ~ThreeBytes(c, s[i + 1], s[i + 2], ssid)
    BY <1>1, <1>6 DEF OneByte, TwoBytes, ThreeBytes
  <2>6. i + m + 1 = i + 4
    BY <1>1, <2>1
  <2> QED
    BY <2>4, <2>5, <2>6 DEF Reads, c, m, n
<1>7. \/ c < 194 \/ c > 244
      \/ 194 <= c /\ c <= 223
      \/ 224 <= c /\ c <= 239
      \/ 240 <= c /\ c <= 244
  <2>1. c \in Nat
    BY <1>1
  <2> HIDE DEF c
  <2> QED
    BY <2>1
<1> QED
  BY <1>3, <1>4, <1>5, <1>6, <1>7

\* Bytes in ranges, for each number of them.
LEMMA InRanges ==
    ASSUME NEW s \in Seq(Nat), NEW i \in 1 .. Len(s), NEW A, NEW B, NEW C, NEW D
    PROVE  /\ Rules!In(s, i, <<A>>) <=> s[i] \in A
           /\ Rules!In(s, i, <<A, B>>) <=> i + 1 <= Len(s) /\ s[i] \in A /\ s[i + 1] \in B
           /\ Rules!In(s, i, <<A, B, C>>)
                <=> i + 2 <= Len(s) /\ s[i] \in A /\ s[i + 1] \in B /\ s[i + 2] \in C
           /\ Rules!In(s, i, <<A, B, C, D>>)
                <=> /\ i + 3 <= Len(s) /\ s[i] \in A /\ s[i + 1] \in B /\ s[i + 2] \in C
                    /\ s[i + 3] \in D
<1>1. i + 1 - 1 = i /\ i + 2 - 1 = i + 1 /\ i + 3 - 1 = i + 2 /\ i + 4 - 1 = i + 3
      /\ i <= Len(s)
  OBVIOUS
<1>2. Rules!In(s, i, <<A>>) <=> s[i] \in A
  BY <1>1 DEF Rules!In
<1>3. Rules!In(s, i, <<A, B>>) <=> i + 1 <= Len(s) /\ s[i] \in A /\ s[i + 1] \in B
  BY <1>1 DEF Rules!In
<1>4. Rules!In(s, i, <<A, B, C>>)
        <=> i + 2 <= Len(s) /\ s[i] \in A /\ s[i + 1] \in B /\ s[i + 2] \in C
  BY <1>1 DEF Rules!In
<1>5. Rules!In(s, i, <<A, B, C, D>>)
        <=> i + 3 <= Len(s) /\ s[i] \in A /\ s[i + 1] \in B /\ s[i + 2] \in C /\ s[i + 3] \in D
  <2> DEFINE r == <<A, B, C, D>>
  <2>1. /\ Len(r) = 4 /\ r[1] = A /\ r[2] = B /\ r[3] = C /\ r[4] = D
        /\ 1 \in DOMAIN r /\ 2 \in DOMAIN r /\ 3 \in DOMAIN r /\ 4 \in DOMAIN r
    OBVIOUS
  <2>2. \A j \in DOMAIN r : j = 1 \/ j = 2 \/ j = 3 \/ j = 4
    OBVIOUS
  <2> HIDE DEF r
  <2>3. i + Len(r) - 1 = i + 3
    BY <2>1
  <2>4. (\A j \in DOMAIN r : s[i + j - 1] \in r[j])
          <=> s[i] \in A /\ s[i + 1] \in B /\ s[i + 2] \in C /\ s[i + 3] \in D
    BY <1>1, <2>1, <2>2
  <2> QED
    BY <2>3, <2>4 DEF Rules!In, r
<1> QED
  BY <1>2, <1>3, <1>4, <1>5

LEMMA FirstBytes ==
    ASSUME NEW x \in Nat
    PROVE  /\ x \in 32 .. 126 <=> 32 <= x /\ x <= 126
           /\ x \in 194 .. 223 <=> 194 <= x /\ x <= 223
           /\ x \in 225 .. 236 <=> 225 <= x /\ x <= 236
           /\ x \in 238 .. 239 <=> 238 <= x /\ x <= 239
           /\ x \in 241 .. 243 <=> 241 <= x /\ x <= 243
           /\ x \in 240 .. 244 <=> 240 <= x /\ x <= 244
  OBVIOUS

\* What is excluded, by its bytes.
Falls(s, i, C1, L, F, T, E) ==
    \/ i + 1 <= Len(s) /\ s[i] = 194 /\ s[i + 1] \in C1
    \/ i + 2 <= Len(s) /\ s[i] = 239 /\ s[i + 1] = 183 /\ s[i + 2] \in L
    \/ i + 2 <= Len(s) /\ s[i] = 239 /\ s[i + 1] = 191 /\ s[i + 2] \in E
    \/ /\ i + 3 <= Len(s) /\ s[i] \in F /\ s[i + 1] \in T
       /\ s[i + 2] = 191 /\ s[i + 3] \in E

Exclusion(s, i) ==
    Falls(s, i, 128 .. 159, 144 .. 175, 240 .. 244, {143, 159, 175, 191}, {190, 191})

LEMMA ExclusionIs ==
    ASSUME NEW s \in Seq(Nat), NEW i \in 1 .. Len(s)
    PROVE  (\A e \in Rules!Excluded : ~Rules!In(s, i, e)) <=> ~Exclusion(s, i)
<1> DEFINE C1 == 128 .. 159
           L == 144 .. 175
           F == 240 .. 244
           T == {143, 159, 175, 191}
           E == {190, 191}
           G == {191}
           N == {239}
           M == {183}
           D == {194}
<1>1. Rules!Excluded = {<<D, C1>>, <<N, M, L>>, <<N, G, E>>, <<F, T, G, E>>}
  BY DEF Rules!Excluded
<1>2. Exclusion(s, i)
        <=> \/ i + 1 <= Len(s) /\ s[i] \in D /\ s[i + 1] \in C1
            \/ i + 2 <= Len(s) /\ s[i] \in N /\ s[i + 1] \in M /\ s[i + 2] \in L
            \/ i + 2 <= Len(s) /\ s[i] \in N /\ s[i + 1] \in G /\ s[i + 2] \in E
            \/ /\ i + 3 <= Len(s) /\ s[i] \in F /\ s[i + 1] \in T /\ s[i + 2] \in G
               /\ s[i + 3] \in E
  <2>1. \A x : (x \in D <=> x = 194) /\ (x \in N <=> x = 239) /\ (x \in M <=> x = 183)
               /\ (x \in G <=> x = 191)
    OBVIOUS
  <2> HIDE DEF C1, L, F, T, E, G, N, M, D
  <2>2. /\ s[i] \in D <=> s[i] = 194
        /\ s[i] \in N <=> s[i] = 239
        /\ s[i + 1] \in M <=> s[i + 1] = 183
        /\ s[i + 1] \in G <=> s[i + 1] = 191
        /\ s[i + 2] \in G <=> s[i + 2] = 191
    BY <2>1
  <2>3. Exclusion(s, i)
          <=> \/ i + 1 <= Len(s) /\ s[i] = 194 /\ s[i + 1] \in C1
              \/ i + 2 <= Len(s) /\ s[i] = 239 /\ s[i + 1] = 183 /\ s[i + 2] \in L
              \/ i + 2 <= Len(s) /\ s[i] = 239 /\ s[i + 1] = 191 /\ s[i + 2] \in E
              \/ /\ i + 3 <= Len(s) /\ s[i] \in F /\ s[i + 1] \in T /\ s[i + 2] = 191
                 /\ s[i + 3] \in E
    <3>1. Exclusion(s, i) = Falls(s, i, C1, L, F, T, E)
      BY DEF Exclusion, C1, L, F, T, E
    <3> QED
      BY <3>1 DEF Falls
  <2>4. /\ s[i] \in D /\ s[i + 1] \in C1 <=> s[i] = 194 /\ s[i + 1] \in C1
        /\ s[i] \in N /\ s[i + 1] \in M /\ s[i + 2] \in L
             <=> s[i] = 239 /\ s[i + 1] = 183 /\ s[i + 2] \in L
        /\ s[i] \in N /\ s[i + 1] \in G /\ s[i + 2] \in E
             <=> s[i] = 239 /\ s[i + 1] = 191 /\ s[i + 2] \in E
        /\ s[i] \in F /\ s[i + 1] \in T /\ s[i + 2] \in G /\ s[i + 3] \in E
             <=> s[i] \in F /\ s[i + 1] \in T /\ s[i + 2] = 191 /\ s[i + 3] \in E
    BY <2>2
  <2> QED
    BY <2>3, <2>4
<1> HIDE DEF C1, L, F, T, E, G, N, M, D
<1>3. /\ Rules!In(s, i, <<D, C1>>) <=> i + 1 <= Len(s) /\ s[i] \in D /\ s[i + 1] \in C1
      /\ Rules!In(s, i, <<N, M, L>>)
           <=> i + 2 <= Len(s) /\ s[i] \in N /\ s[i + 1] \in M /\ s[i + 2] \in L
      /\ Rules!In(s, i, <<N, G, E>>)
           <=> i + 2 <= Len(s) /\ s[i] \in N /\ s[i + 1] \in G /\ s[i + 2] \in E
      /\ Rules!In(s, i, <<F, T, G, E>>)
           <=> /\ i + 3 <= Len(s) /\ s[i] \in F /\ s[i + 1] \in T /\ s[i + 2] \in G
               /\ s[i + 3] \in E
  BY InRanges
<1>4. (\A e \in Rules!Excluded : ~Rules!In(s, i, e))
        <=> /\ ~Rules!In(s, i, <<D, C1>>) /\ ~Rules!In(s, i, <<N, M, L>>)
            /\ ~Rules!In(s, i, <<N, G, E>>) /\ ~Rules!In(s, i, <<F, T, G, E>>)
  BY <1>1
<1> QED
  BY <1>2, <1>3, <1>4

\* The definition reads the well-formed characters.
LEMMA FormReads ==
    ASSUME NEW s \in Seq(Nat), NEW i \in 1 .. Len(s), NEW k, NEW ssid \in BOOLEAN
    PROVE  (\E form \in Rules!Forms : Formed(s, i, ssid, form) /\ k = i + Len(form))
              <=> Reads(s, i, k, ssid)
<1> DEFINE n == Len(s)
           c == s[i]
           Tr == Rules!Trail
           A1 == 32 .. 126
           A2 == 194 .. 223
           A3 == {224}
           B3 == 160 .. 191
           A4 == 225 .. 236
           A5 == {237}
           B5 == 128 .. 159
           A6 == 238 .. 239
           A7 == {240}
           B7 == 144 .. 191
           A8 == 241 .. 243
           A9 == {244}
           B9 == 128 .. 143
           X == 144 .. 175
           F == 240 .. 244
           T == {143, 159, 175, 191}
           E == {190, 191}
           P(form) == Formed(s, i, ssid, form) /\ k = i + Len(form)
           ok == ssid \/ ~Exclusion(s, i)
<1>1. n \in Nat /\ i \in Nat /\ i <= n /\ c \in Nat /\ \A j \in 1 .. n : s[j] \in Nat
  OBVIOUS
<1>2. Rules!Forms = {<<A1>>, <<A2, Tr>>, <<A3, B3, Tr>>, <<A4, Tr, Tr>>, <<A5, B5, Tr>>,
                     <<A6, Tr, Tr>>, <<A7, B7, Tr, Tr>>, <<A8, Tr, Tr, Tr>>, <<A9, B9, Tr, Tr>>}
  BY Zenon DEF Rules!Forms
<1>3. /\ c \in A1 <=> 32 <= c /\ c <= 126
      /\ c \in A2 <=> 194 <= c /\ c <= 223
      /\ c \in A4 <=> 225 <= c /\ c <= 236
      /\ c \in A6 <=> 238 <= c /\ c <= 239
      /\ c \in A8 <=> 241 <= c /\ c <= 243
      /\ c \in F <=> 240 <= c /\ c <= 244
      /\ c \in A3 <=> c = 224
      /\ c \in A5 <=> c = 237
      /\ c \in A7 <=> c = 240
      /\ c \in A9 <=> c = 244
  <2>1. c \in Nat
    BY <1>1
  <2>2. /\ c \in A3 <=> c = 224
        /\ c \in A5 <=> c = 237
        /\ c \in A7 <=> c = 240
        /\ c \in A9 <=> c = 244
    OBVIOUS
  <2> HIDE DEF c
  <2>3. /\ c \in A1 <=> 32 <= c /\ c <= 126
        /\ c \in A2 <=> 194 <= c /\ c <= 223
        /\ c \in A4 <=> 225 <= c /\ c <= 236
        /\ c \in A6 <=> 238 <= c /\ c <= 239
        /\ c \in A8 <=> 241 <= c /\ c <= 243
        /\ c \in F <=> 240 <= c /\ c <= 244
    BY <2>1, FirstBytes, Zenon
  <2> QED
    BY <2>2, <2>3, Zenon
<1>4. ASSUME NEW t \in Nat
      PROVE  /\ t \in B3 <=> 160 <= t /\ t <= 191
             /\ t \in B5 <=> 128 <= t /\ t <= 159
             /\ t \in B7 <=> 144 <= t /\ t <= 191
             /\ t \in B9 <=> 128 <= t /\ t <= 143
             /\ t \in X <=> 144 <= t /\ t <= 175
             /\ t \in Tr <=> 128 <= t /\ t <= 191
             /\ t \in E <=> t = 190 \/ t = 191
  <2>1. t \in E <=> t = 190 \/ t = 191
    OBVIOUS
  <2>2. t \in B3 <=> 160 <= t /\ t <= 191
    BY SMT
  <2>3. t \in B5 <=> 128 <= t /\ t <= 159
    BY SMT
  <2>4. t \in B7 <=> 144 <= t /\ t <= 191
    BY SMT
  <2>5. t \in B9 <=> 128 <= t /\ t <= 143
    BY SMT
  <2>6. t \in X <=> 144 <= t /\ t <= 175
    BY SMT
  <2>7. t \in Tr <=> 128 <= t /\ t <= 191
    BY TrailIs, Zenon DEF Follows
  <2> HIDE DEF B3, B5, B7, B9, X, E, Tr
  <2> QED
    BY <2>1, <2>2, <2>3, <2>4, <2>5, <2>6, <2>7, Zenon
<1>5. Exclusion(s, i)
        <=> \/ i + 1 <= n /\ c = 194 /\ s[i + 1] \in B5
            \/ i + 2 <= n /\ c = 239 /\ s[i + 1] = 183 /\ s[i + 2] \in X
            \/ i + 2 <= n /\ c = 239 /\ s[i + 1] = 191 /\ s[i + 2] \in E
            \/ /\ i + 3 <= n /\ c \in F /\ s[i + 1] \in T
               /\ s[i + 2] = 191 /\ s[i + 3] \in E
  <2>1. Exclusion(s, i) = Falls(s, i, B5, X, F, T, E)
    BY DEF Exclusion
  <2> HIDE DEF B5, X, F, T, E
  <2> QED
    BY <2>1 DEF Falls
<1>6. \A t : t \in T <=> t \in {143, 159, 175, 191}
  OBVIOUS
<1> HIDE DEF A1, A2, A3, B3, A4, A5, B5, A6, A7, B7, A8, A9, B9, X, F, T, E, Tr, n, c
<1>7. (\E form \in Rules!Forms : P(form))
        <=> \/ P(<<A1>>) \/ P(<<A2, Tr>>)
            \/ P(<<A3, B3, Tr>>) \/ P(<<A4, Tr, Tr>>) \/ P(<<A5, B5, Tr>>) \/ P(<<A6, Tr, Tr>>)
            \/ P(<<A7, B7, Tr, Tr>>) \/ P(<<A8, Tr, Tr, Tr>>) \/ P(<<A9, B9, Tr, Tr>>)
  <2> HIDE DEF P
  <2> QED
    BY <1>2
<1>8. ASSUME NEW form
      PROVE  P(form) <=> Rules!In(s, i, form) /\ ok /\ k = i + Len(form)
  BY ExclusionIs DEF Formed
<1> HIDE DEF P
<1>9. ASSUME NEW A, NEW B, NEW C, NEW D
      PROVE  /\ P(<<A>>) <=> c \in A /\ ok /\ k = i + 1
             /\ P(<<A, B>>) <=> i + 1 <= n /\ c \in A /\ s[i + 1] \in B /\ ok /\ k = i + 2
             /\ P(<<A, B, C>>)
                  <=> /\ i + 2 <= n /\ c \in A /\ s[i + 1] \in B /\ s[i + 2] \in C
                      /\ ok /\ k = i + 3
             /\ P(<<A, B, C, D>>)
                  <=> /\ i + 3 <= n /\ c \in A /\ s[i + 1] \in B /\ s[i + 2] \in C
                      /\ s[i + 3] \in D /\ ok /\ k = i + 4
  <2>1. Len(<<A>>) = 1 /\ Len(<<A, B>>) = 2 /\ Len(<<A, B, C>>) = 3 /\ Len(<<A, B, C, D>>) = 4
    OBVIOUS
  <2> HIDE DEF ok
  <2>2. P(<<A>>) <=> c \in A /\ ok /\ k = i + 1
    BY <1>8, <2>1, InRanges DEF c
  <2>3. P(<<A, B>>) <=> i + 1 <= n /\ c \in A /\ s[i + 1] \in B /\ ok /\ k = i + 2
    BY <1>8, <2>1, InRanges DEF c, n
  <2>4. P(<<A, B, C>>)
          <=> /\ i + 2 <= n /\ c \in A /\ s[i + 1] \in B /\ s[i + 2] \in C
              /\ ok /\ k = i + 3
    BY <1>8, <2>1, InRanges DEF c, n
  <2>5. P(<<A, B, C, D>>)
          <=> /\ i + 3 <= n /\ c \in A /\ s[i + 1] \in B /\ s[i + 2] \in C
              /\ s[i + 3] \in D /\ ok /\ k = i + 4
    BY <1>8, <2>1, InRanges DEF c, n
  <2> QED
    BY <2>2, <2>3, <2>4, <2>5
<1>10. P(<<A1>>) <=> OneByte(c) /\ k = i + 1
  <2>1. OneByte(c) => ok
    BY <1>1, <1>3, <1>5 DEF OneByte
  <2> HIDE DEF ok
  <2>2. P(<<A1>>) <=> c \in A1 /\ ok /\ k = i + 1
    BY <1>9
  <2>3. c \in A1 <=> OneByte(c)
    BY <1>3 DEF OneByte
  <2> QED
    BY <2>1, <2>2, <2>3
<1>11. P(<<A2, Tr>>) <=> i + 1 <= n /\ TwoBytes(c, s[i + 1], ssid) /\ k = i + 2
  <2>1. CASE i + 1 <= n
    <3>1. s[i + 1] \in Nat
      BY <1>1, <2>1
    <3>2. /\ s[i + 1] \in Tr <=> 128 <= s[i + 1] /\ s[i + 1] <= 191
          /\ s[i + 1] \in B5 <=> 128 <= s[i + 1] /\ s[i + 1] <= 159
      BY <1>4, <3>1
    <3>3. 194 <= c /\ c <= 223 => (Exclusion(s, i) <=> c = 194 /\ s[i + 1] \in B5)
      BY <1>1, <1>3, <1>5, <2>1
    <3>4. P(<<A2, Tr>>) <=> c \in A2 /\ s[i + 1] \in Tr /\ ok /\ k = i + 2
      <4> HIDE DEF ok
      <4> QED
        BY <1>9, <2>1
    <3>5. c \in A2 /\ s[i + 1] \in Tr /\ ok <=> TwoBytes(c, s[i + 1], ssid)
      BY <1>1, <1>3, <3>1, <3>2, <3>3 DEF TwoBytes
    <3> HIDE DEF ok
    <3> QED
      BY <2>1, <3>4, <3>5
  <2> QED
    BY <1>9, <2>1
<1>12. (P(<<A3, B3, Tr>>) \/ P(<<A4, Tr, Tr>>) \/ P(<<A5, B5, Tr>>) \/ P(<<A6, Tr, Tr>>))
         <=> i + 2 <= n /\ ThreeBytes(c, s[i + 1], s[i + 2], ssid) /\ k = i + 3
  <2>1. CASE i + 2 <= n
    <3> DEFINE t == s[i + 1]
               u == s[i + 2]
    <3>1. t \in Nat /\ u \in Nat
      BY <1>1, <2>1
    <3> HIDE DEF t, u
    <3>2. /\ t \in Tr <=> 128 <= t /\ t <= 191
          /\ u \in Tr <=> 128 <= u /\ u <= 191
          /\ t \in B3 <=> 160 <= t /\ t <= 191
          /\ t \in B5 <=> 128 <= t /\ t <= 159
          /\ u \in X <=> 144 <= u /\ u <= 175
          /\ u \in E <=> u = 190 \/ u = 191
      BY <1>4, <3>1
    <3>3. 224 <= c /\ c <= 239 /\ t <= 191 /\ u <= 191
            => (Exclusion(s, i) <=> \/ c = 239 /\ t = 183 /\ 144 <= u /\ u <= 175
                                    \/ c = 239 /\ t = 191 /\ 190 <= u)
      <4> SUFFICES ASSUME 224 <= c /\ c <= 239 /\ t <= 191 /\ u <= 191
                   PROVE  Exclusion(s, i) <=> \/ c = 239 /\ t = 183 /\ 144 <= u /\ u <= 175
                                              \/ c = 239 /\ t = 191 /\ 190 <= u
        OBVIOUS
      <4>1. c # 194 /\ ~(c \in F)
        BY <1>1, <1>3
      <4>2. Exclusion(s, i) <=> \/ c = 239 /\ t = 183 /\ u \in X
                                \/ c = 239 /\ t = 191 /\ u \in E
        BY <1>5, <2>1, <4>1 DEF t, u
      <4>3. u \in X <=> 144 <= u /\ u <= 175
        BY <3>2
      <4>4. u \in E <=> 190 <= u
        BY <3>1, <3>2
      <4> QED
        BY <4>2, <4>3, <4>4
    <3>4. /\ P(<<A3, B3, Tr>>) <=> c \in A3 /\ t \in B3 /\ u \in Tr /\ ok /\ k = i + 3
          /\ P(<<A4, Tr, Tr>>) <=> c \in A4 /\ t \in Tr /\ u \in Tr /\ ok /\ k = i + 3
          /\ P(<<A5, B5, Tr>>) <=> c \in A5 /\ t \in B5 /\ u \in Tr /\ ok /\ k = i + 3
          /\ P(<<A6, Tr, Tr>>) <=> c \in A6 /\ t \in Tr /\ u \in Tr /\ ok /\ k = i + 3
      BY <1>9, <2>1 DEF t, u
    <3>5. (/\ \/ c \in A3 /\ t \in B3
              \/ c \in A4 /\ t \in Tr
              \/ c \in A5 /\ t \in B5
              \/ c \in A6 /\ t \in Tr
           /\ u \in Tr /\ ok)
             <=> ThreeBytes(c, t, u, ssid)
      BY <1>1, <1>3, <3>1, <3>2, <3>3 DEF ThreeBytes
    <3> HIDE DEF ok
    <3>6. (P(<<A3, B3, Tr>>) \/ P(<<A4, Tr, Tr>>) \/ P(<<A5, B5, Tr>>) \/ P(<<A6, Tr, Tr>>))
             <=> ThreeBytes(c, t, u, ssid) /\ k = i + 3
      BY <3>4, <3>5
    <3> QED
      BY <2>1, <3>6 DEF t, u
  <2> QED
    BY <1>9, <2>1
<1>13. (P(<<A7, B7, Tr, Tr>>) \/ P(<<A8, Tr, Tr, Tr>>) \/ P(<<A9, B9, Tr, Tr>>))
         <=> i + 3 <= n /\ FourBytes(c, s[i + 1], s[i + 2], s[i + 3], ssid) /\ k = i + 4
  <2>1. CASE i + 3 <= n
    <3> DEFINE t == s[i + 1]
               u == s[i + 2]
               v == s[i + 3]
    <3>1. t \in Nat /\ u \in Nat /\ v \in Nat
      BY <1>1, <2>1
    <3> HIDE DEF t, u, v
    <3>2. /\ t \in Tr <=> 128 <= t /\ t <= 191
          /\ u \in Tr <=> 128 <= u /\ u <= 191
          /\ v \in Tr <=> 128 <= v /\ v <= 191
          /\ t \in B7 <=> 144 <= t /\ t <= 191
          /\ t \in B9 <=> 128 <= t /\ t <= 143
          /\ v \in E <=> v = 190 \/ v = 191
      BY <1>4, <3>1
    <3>3. 240 <= c /\ c <= 244 /\ v <= 191
            => (Exclusion(s, i) <=> t \in {143, 159, 175, 191} /\ u = 191 /\ 190 <= v)
      <4> SUFFICES ASSUME 240 <= c /\ c <= 244 /\ v <= 191
                   PROVE  Exclusion(s, i)
                            <=> t \in {143, 159, 175, 191} /\ u = 191 /\ 190 <= v
        OBVIOUS
      <4>1. c # 194 /\ c # 239 /\ c \in F
        BY <1>1, <1>3
      <4>2. Exclusion(s, i) <=> t \in T /\ u = 191 /\ v \in E
        BY <1>5, <2>1, <4>1 DEF t, u, v
      <4>3. v \in E <=> 190 <= v
        BY <3>1, <3>2
      <4> QED
        BY <1>6, <4>2, <4>3
    <3>4. /\ P(<<A7, B7, Tr, Tr>>)
               <=> c \in A7 /\ t \in B7 /\ u \in Tr /\ v \in Tr /\ ok /\ k = i + 4
          /\ P(<<A8, Tr, Tr, Tr>>)
               <=> c \in A8 /\ t \in Tr /\ u \in Tr /\ v \in Tr /\ ok /\ k = i + 4
          /\ P(<<A9, B9, Tr, Tr>>)
               <=> c \in A9 /\ t \in B9 /\ u \in Tr /\ v \in Tr /\ ok /\ k = i + 4
      BY <1>9, <2>1 DEF t, u, v
    <3>5. (/\ \/ c \in A7 /\ t \in B7
              \/ c \in A8 /\ t \in Tr
              \/ c \in A9 /\ t \in B9
           /\ u \in Tr /\ v \in Tr /\ ok)
             <=> FourBytes(c, t, u, v, ssid)
      BY <1>1, <1>3, <3>1, <3>2, <3>3 DEF FourBytes
    <3> HIDE DEF ok
    <3>6. (P(<<A7, B7, Tr, Tr>>) \/ P(<<A8, Tr, Tr, Tr>>) \/ P(<<A9, B9, Tr, Tr>>))
             <=> FourBytes(c, t, u, v, ssid) /\ k = i + 4
      BY <3>4, <3>5
    <3> QED
      BY <2>1, <3>6 DEF t, u, v
  <2> QED
    BY <1>9, <2>1
<1>14. (\E form \in Rules!Forms : P(form)) <=> Reads(s, i, k, ssid)
  BY <1>7, <1>10, <1>11, <1>12, <1>13, Zenon DEF Reads, n, c
<1> QED
  BY <1>14 DEF P

\* The scan reads a text exactly when it is well formed: both read the same characters, and
\* walk over the text in the same steps.
LEMMA ScanIsWellFormed ==
    ASSUME NEW s \in Seq(Nat), NEW ssid \in BOOLEAN
    PROVE  Rules!Utf8Valid(s, ssid) <=> Rules!WellFormedChars(s, ssid)
<1> DEFINE n == Len(s)
           R == ScanSteps(s, ssid)
<1>1. ScanSteps(s, ssid) = FormSteps(s, ssid)
  <2>1. ASSUME NEW r \in Steps(n)
        PROVE  r \in ScanSteps(s, ssid) <=> r \in FormSteps(s, ssid)
    <3>1. PICK i \in 1 .. n, k \in 1 .. n + 1 : r[1] = i /\ r[2] = k
      BY DEF Steps
    <3>2. (Rules!CharacterGoesOn(s, i, ssid) /\ k = i + Rules!More(s[i]).more + 1)
            <=> Reads(s, i, k, ssid)
      BY ScanReads, Zenon
    <3>3. (\E form \in Rules!Forms : Formed(s, i, ssid, form) /\ k = i + Len(form))
            <=> Reads(s, i, k, ssid)
      BY FormReads, Zenon
    <3> QED
      BY <3>1, <3>2, <3>3 DEF ScanSteps, FormSteps
  <2> QED
    BY <2>1 DEF ScanSteps, FormSteps
<1>2. \A i, k : <<i, k>> \in R => i < k
  <2> SUFFICES ASSUME NEW i, NEW k, <<i, k>> \in R PROVE i < k
    OBVIOUS
  <2>1. i \in 1 .. n /\ k = i + Rules!More(s[i]).more + 1
    BY DEF ScanSteps, Steps
  <2>2. Rules!More(s[i]).more \in Nat
    BY MoreIs
  <2> QED
    BY <2>1, <2>2
<1>3. PICK f : Rules!Utf8Valid(s, ssid) = f[1] /\ Walks(f, s, R)
  BY ScanWalks
<1>4. PICK g : Rules!WellFormedChars(s, ssid) = g[1] /\ Walks(g, s, R)
  BY <1>1, FormWalks
<1>5. n \in Nat
  OBVIOUS
<1> HIDE DEF R
<1>6. f[1] <=> g[1]
  BY <1>2, <1>3, <1>4, <1>5, WalksAgree DEF Walks
<1> QED
  BY <1>3, <1>4, <1>6

\* For a text of any length and any bytes, the scan by arithmetic accepts the well-formed
\* sequences of the Unicode standard that a configuration admits, and no others (utf8).
THEOREM ScanIsUtf8 == MCSpec => []Utf8IsWellFormed
<1>1. RulesInv => Utf8IsWellFormed
  <2> SUFFICES ASSUME RulesInv, NEW ssid \in BOOLEAN
               PROVE  Rules!Utf8Valid(octets, ssid) <=> Rules!WellFormedChars(octets, ssid)
    BY DEF Utf8IsWellFormed, Rules!Utf8IsWellFormed
  <2>1. Octets \subseteq Nat
    BY InputAssumption DEF Rules!TextAssumption
  <2>2. octets \in Seq(Nat)
    BY <2>1, SeqMonotonic DEF RulesInv
  <2> QED
    BY <2>2, ScanIsWellFormed
<1> QED
  BY <1>1, RulesInvAlways, PTL

-----------------------------------------------------------------------------
(* The scan of a request.  A value's text is read in turns, each of which      *)
(* takes a stretch of it; what a turn takes depends on nothing outside the     *)
(* stretch but the byte behind it.  So the reading of a text is put together   *)
(* from the readings of its parts.                                             *)

\* The first digit of a number that begins at i.
First(t, i) == IF t[i] = "-" THEN i + 1 ELSE i

\* The digits of the number at i end at j.
Numeral(t, i, j) ==
    /\ j \in Int /\ First(t, i) <= j /\ j <= Len(t)
    /\ \A k \in First(t, i) .. j : t[k] \in Scan!Digits
    /\ j = Len(t) \/ t[j + 1] \notin Scan!Digits

NoZeros(t, i, j) == t[First(t, i)] = "0" => j = First(t, i)

NumberAt(t, i, q) == ~q /\ t[i] \in Scan!Digits \cup {"-"}
EscapeAt(t, i, q) == q /\ t[i] = Scan!Escape

\* A turn at i takes the bytes up to j, if no limit is in its way.
Takes(t, i, q, j) ==
    /\ NumberAt(t, i, q) =>
          /\ Numeral(t, i, j) /\ NoZeros(t, i, j)
          /\ j = Len(t) \/ t[j + 1] \notin {".", "e"}
    /\ EscapeAt(t, i, q) => j = i + 1 /\ j <= Len(t) /\ t[j] \notin Scan!Unescapable
    /\ ~NumberAt(t, i, q) /\ ~EscapeAt(t, i, q) =>
          j = i /\ (q \/ t[i] \notin {"+", ".", "high"})

\* A turn at i finds what is not plain, in the byte behind j.
Stops(t, i, q, j) ==
    /\ j \in Int /\ i <= j /\ j < Len(t)
    /\ \/ /\ NumberAt(t, i, q)
          /\ Numeral(t, i, j) /\ NoZeros(t, i, j) /\ t[j + 1] \in {".", "e"}
       \/ EscapeAt(t, i, q) /\ j = i /\ t[j + 1] \in Scan!Unescapable

Broken(t, i, q) == \E j : Stops(t, i, q, j)

Opens(c, q) == ~q /\ c \in {"{", "["}
Closes(c, q) == ~q /\ c \in {"}", "]"}
Separates(c, q) == ~q /\ c \in {":", ","}

\* quoted, depth and members behind a turn.
Quotes(c, q) == (q # (c = Scan!Quote))
Nests(c, q, d) == IF Opens(c, q) THEN d + 1 ELSE IF Closes(c, q) THEN d - 1 ELSE d
Counts(c, q, n) == IF Separates(c, q) THEN n + 1 ELSE n

Places == (Nat \ {0}) \X BOOLEAN \X Nat \X Nat

\* The places that the scan comes to in t, with what it has counted there: from q, d, n at
\* the beginning to q1, d1, n1 behind the end.
Between(R, t, q, d, n, q1, d1, n1) ==
    /\ R \subseteq Places
    /\ \A r \in R : r[1] <= Len(t) + 1
    /\ <<1, q, d, n>> \in R /\ \A r \in R : r[1] = 1 => r = <<1, q, d, n>>
    /\ <<Len(t) + 1, q1, d1, n1>> \in R
    /\ \A r \in R : r[1] = Len(t) + 1 => r = <<Len(t) + 1, q1, d1, n1>>

\* At the place r it takes one more turn, unless it stops at what is not plain.
Goes(R, t, r, plain) ==
    \/ ~plain /\ Broken(t, r[1], r[2])
    \/ \E j \in Int :
          /\ r[1] <= j /\ j <= Len(t) /\ Takes(t, r[1], r[2], j)
          /\ <<j + 1, Quotes(t[r[1]], r[2]), Nests(t[r[1]], r[2], r[3]),
               Counts(t[r[1]], r[2], r[4])>> \in R
          /\ \A x \in R : x[1] <= r[1] \/ j < x[1]

\* The nesting stays below top and, behind the first byte, above floor.
Within(t, r, n1, top, floor) ==
    /\ 1 < r[1] => floor <= r[3]
    /\ Opens(t[r[1]], r[2]) => r[3] < top
    /\ Closes(t[r[1]], r[2]) => 0 < r[3]
    /\ Separates(t[r[1]], r[2]) => r[4] < n1

\* The nesting comes to top, the separators to n1, the scan to what is not plain.
Reaches(R, t, d, n, n1, top, plain) ==
    /\ d < top => \E r \in R : r[1] <= Len(t) /\ Opens(t[r[1]], r[2]) /\ r[3] + 1 = top
    /\ n < n1 => \E r \in R : r[1] <= Len(t) /\ Separates(t[r[1]], r[2]) /\ r[4] + 1 = n1
    /\ ~plain => \E r \in R : r[1] <= Len(t) /\ Broken(t, r[1], r[2])

\* It comes to a byte once.
Single(R) == \A x, y \in R : x[1] = y[1] => x = y

Tracks(R, t, q, d, n, q1, d1, n1, top, floor, plain) ==
    /\ Between(R, t, q, d, n, q1, d1, n1) /\ Single(R)
    /\ d <= top /\ d1 <= top /\ n <= n1
    /\ \A r \in R : r[1] <= Len(t) => Within(t, r, n1, top, floor) /\ Goes(R, t, r, plain)
    /\ Reaches(R, t, d, n, n1, top, plain)

Tokens == {"{", "}", "[", "]", ":", ",", "1", "0", "-", ".", "e", "a", "high", "u0000",
            Scan!Quote, Scan!Escape}

Wordings == {t \in Seq(Tokens) : Len(t) > 0}

\* t is read so.
Reading(t, q, d, n, q1, d1, n1, top, floor, plain) ==
    /\ t \in Wordings
    /\ q \in BOOLEAN /\ d \in Nat /\ n \in Nat /\ q1 \in BOOLEAN /\ d1 \in Nat /\ n1 \in Nat
    /\ top \in Nat /\ floor \in Nat /\ plain \in BOOLEAN
    /\ \E R : Tracks(R, t, q, d, n, q1, d1, n1, top, floor, plain)

-----------------------------------------------------------------------------
(* Parts of one turn                                                           *)

LEMMA WordingIs ==
    ASSUME NEW t \in Wordings
    PROVE  /\ t \in Seq(Tokens) /\ Len(t) \in Nat /\ 0 < Len(t) /\ DOMAIN t = 1 .. Len(t)
           /\ \A i \in 1 .. Len(t) : t[i] \in Tokens
  BY DEF Wordings

\* What a turn counts.
LEMMA Counted ==
    ASSUME NEW c, NEW q \in BOOLEAN, NEW d \in Nat, NEW n \in Nat, Closes(c, q) => 0 < d
    PROVE  /\ Quotes(c, q) \in BOOLEAN /\ Nests(c, q, d) \in Nat /\ Counts(c, q, n) \in Nat
           /\ Opens(c, q) => Nests(c, q, d) = d + 1
           /\ ~Opens(c, q) => Nests(c, q, d) <= d
           /\ Separates(c, q) => Counts(c, q, n) = n + 1
           /\ ~Separates(c, q) => Counts(c, q, n) = n
<1>1. Quotes(c, q) \in BOOLEAN
  BY Zenon DEF Quotes
<1>2. Opens(c, q) => ~Closes(c, q)
  BY DEF Opens, Closes
<1>3. /\ Nests(c, q, d) \in Nat
      /\ Opens(c, q) => Nests(c, q, d) = d + 1
      /\ ~Opens(c, q) => Nests(c, q, d) <= d
  BY <1>2 DEF Nests
<1>4. /\ Counts(c, q, n) \in Nat
      /\ Separates(c, q) => Counts(c, q, n) = n + 1
      /\ ~Separates(c, q) => Counts(c, q, n) = n
  BY DEF Counts
<1> QED
  BY <1>1, <1>3, <1>4

\* A text that one turn takes, or stops at.
LEMMA OneTurn ==
    ASSUME NEW t \in Wordings, NEW c, c = t[1],
           NEW q \in BOOLEAN, NEW d \in Nat, NEW n \in Nat, NEW floor \in Nat,
           NEW plain \in BOOLEAN,
           plain => Takes(t, 1, q, Len(t)), ~plain => Broken(t, 1, q),
           Closes(c, q) => 0 < d,
           NEW q1, q1 = Quotes(c, q), NEW d1, d1 = Nests(c, q, d), NEW n1, n1 = Counts(c, q, n),
           NEW top \in Nat, top = IF d < d1 THEN d1 ELSE d
    PROVE  Reading(t, q, d, n, q1, d1, n1, top, floor, plain)
<1> DEFINE l == Len(t)
           R == {<<1, q, d, n>>, <<l + 1, q1, d1, n1>>}
<1>1. l \in Nat /\ 1 <= l
  BY WordingIs
<1> HIDE DEF l
<1>2. /\ q1 \in BOOLEAN /\ d1 \in Nat /\ n1 \in Nat
      /\ Opens(c, q) => d1 = d + 1
      /\ ~Opens(c, q) => d1 <= d
      /\ Separates(c, q) => n1 = n + 1
      /\ ~Separates(c, q) => n1 = n
  <2>1. Nests(c, q, d) \in Nat /\ Counts(c, q, n) \in Nat
    BY Counted
  <2>2. Quotes(c, q) \in BOOLEAN
    BY Counted
  <2>3. Opens(c, q) => Nests(c, q, d) = d + 1
    BY Counted
  <2>4. ~Opens(c, q) => Nests(c, q, d) <= d
    BY Counted
  <2>5. Separates(c, q) => Counts(c, q, n) = n + 1
    BY Counted
  <2>6. ~Separates(c, q) => Counts(c, q, n) = n
    BY Counted
  <2> QED
    BY <2>1, <2>2, <2>3, <2>4, <2>5, <2>6
<1>3. R \subseteq Places
  <2>1. 1 \in Nat \ {0} /\ l + 1 \in Nat \ {0}
    BY <1>1
  <2> QED
    BY <1>2, <2>1 DEF Places
<1>4. \A r \in R : r = <<1, q, d, n>> \/ r = <<l + 1, q1, d1, n1>>
  OBVIOUS
<1>5. <<1, q, d, n>> \in R /\ <<l + 1, q1, d1, n1>> \in R
  OBVIOUS
<1> HIDE DEF R
<1>6. n <= n1 /\ d <= top /\ d1 <= top
  BY <1>2
<1>7. Between(R, t, q, d, n, q1, d1, n1)
  BY <1>1, <1>3, <1>4, <1>5 DEF Between, l
<1>8. ASSUME NEW r \in R, r[1] <= Len(t)
      PROVE  Within(t, r, n1, top, floor) /\ Goes(R, t, r, plain)
  <2>1. r = <<1, q, d, n>> /\ r[1] = 1 /\ r[2] = q /\ r[3] = d /\ r[4] = n
    BY <1>1, <1>4, <1>8 DEF l
  <2>2. Within(t, r, n1, top, floor)
    <3>1. t[r[1]] = c
      BY <2>1
    <3>2. ~(1 < r[1])
      BY <2>1
    <3>3. Opens(c, q) => d < top
      BY <1>2
    <3>4. Separates(c, q) => n < n1
      BY <1>2
    <3> QED
      BY <2>1, <3>1, <3>2, <3>3, <3>4 DEF Within
  <2>3. \A x \in R : x[1] <= 1 \/ l < x[1]
    BY <1>1, <1>4
  <2>4. CASE plain
    <3>1. l \in Int /\ r[1] <= l /\ l <= Len(t) /\ Takes(t, r[1], r[2], l)
      BY <1>1, <2>1, <2>4 DEF l
    <3>2. <<l + 1, Quotes(t[r[1]], r[2]), Nests(t[r[1]], r[2], r[3]),
            Counts(t[r[1]], r[2], r[4])>> \in R
      BY <1>5, <2>1
    <3>3. \A x \in R : x[1] <= r[1] \/ l < x[1]
      BY <2>1, <2>3
    <3> QED
      BY <2>2, <3>1, <3>2, <3>3 DEF Goes
  <2>5. CASE ~plain
    BY <2>1, <2>2, <2>5 DEF Goes
  <2> QED
    BY <2>4, <2>5
<1>9. Reaches(R, t, d, n, n1, top, plain)
  <2>1. d < top => Opens(c, q) /\ d + 1 = top
    BY <1>2
  <2>2. n < n1 => Separates(c, q) /\ n + 1 = n1
    BY <1>2
  <2> DEFINE r == <<1, q, d, n>>
  <2>3. r[1] = 1 /\ r[2] = q /\ r[3] = d /\ r[4] = n
    OBVIOUS
  <2> HIDE DEF r
  <2>4. r \in R /\ r[1] <= Len(t)
    BY <1>1, <1>5, <2>3 DEF l, r
  <2> QED
    BY <2>1, <2>2, <2>3, <2>4 DEF Reaches
<1>11. Single(R)
  BY <1>1, <1>4 DEF Single
<1>10. Tracks(R, t, q, d, n, q1, d1, n1, top, floor, plain)
  BY <1>6, <1>7, <1>8, <1>9, <1>11 DEF Tracks
<1> QED
  BY <1>2, <1>10 DEF Reading

LEMMA OneLetter ==
    ASSUME NEW c \in Tokens, NEW q \in BOOLEAN, ~(q /\ c = Scan!Escape),
           NEW d \in Nat, NEW n \in Nat, NEW floor \in Nat,
           q \/ c \notin Scan!Digits \cup {"-", "+", ".", "high"}, Closes(c, q) => 0 < d,
           NEW q1, q1 = Quotes(c, q), NEW d1, d1 = Nests(c, q, d), NEW n1, n1 = Counts(c, q, n),
           NEW top \in Nat, top = IF d < d1 THEN d1 ELSE d
    PROVE  Reading(<<c>>, q, d, n, q1, d1, n1, top, floor, TRUE)
<1>1. <<c>> \in Wordings /\ Len(<<c>>) = 1 /\ <<c>>[1] = c
  BY DEF Wordings
<1>2. Takes(<<c>>, 1, q, 1)
  BY <1>1 DEF Takes, NumberAt, EscapeAt
<1> QED
  BY <1>1, <1>2, OneTurn

\* A byte behind a backslash.
LEMMA Escaped ==
    ASSUME NEW c \in Tokens, NEW d \in Nat, NEW n \in Nat, NEW floor \in Nat
    PROVE  Reading(<<Scan!Escape, c>>, TRUE, d, n, TRUE, d, n, d, floor, c \notin Scan!Unescapable)
<1> DEFINE t == <<Scan!Escape, c>>
           plain == (c \notin Scan!Unescapable)
<1>1. Len(t) = 2 /\ t[1] = "backslash" /\ t[2] = c
  BY DEF Scan!Escape
<1>2. t \in Wordings
  <2>1. Scan!Escape \in Tokens
    BY DEF Tokens
  <2> QED
    BY <1>1, <2>1 DEF Wordings
<1>3. t[1 + 1] = c /\ t[Len(t)] = c /\ Len(t) = 1 + 1
  BY <1>1
<1> HIDE DEF t
<1>4. EscapeAt(t, 1, TRUE) /\ ~NumberAt(t, 1, TRUE)
  BY <1>1 DEF EscapeAt, NumberAt, Scan!Escape
<1>5. /\ plain => Takes(t, 1, TRUE, Len(t))
      /\ ~plain => Broken(t, 1, TRUE)
  <2>1. plain => Takes(t, 1, TRUE, Len(t))
    <3>1. Len(t) = 1 + 1 /\ Len(t) <= Len(t)
      BY <1>1
    <3>2. plain => t[Len(t)] \notin Scan!Unescapable
      BY <1>3
    <3> HIDE DEF plain
    <3> QED
      BY <1>4, <3>1, <3>2 DEF Takes
  <2>2. 1 < Len(t)
    BY <1>1
  <2>3. ~plain => t[1 + 1] \in Scan!Unescapable
    BY <1>3
  <2>4. ~plain => Broken(t, 1, TRUE)
    <3> HIDE DEF plain
    <3>1. 1 \in Int /\ 1 <= 1
      OBVIOUS
    <3>2. ~plain => Stops(t, 1, TRUE, 1)
      BY <1>4, <2>2, <2>3, <3>1, Zenon DEF Stops
    <3> QED
      BY <3>2 DEF Broken
  <2> QED
    BY <2>1, <2>4
<1>6. /\ Quotes(t[1], TRUE) = TRUE /\ Nests(t[1], TRUE, d) = d
      /\ Counts(t[1], TRUE, n) = n /\ ~Closes(t[1], TRUE)
  BY <1>1 DEF Quotes, Nests, Counts, Opens, Closes, Separates, Scan!Quote
<1>7. plain \in BOOLEAN
  OBVIOUS
<1> HIDE DEF plain
<1>8. d = IF d < d THEN d ELSE d
  OBVIOUS
<1>9. Reading(t, TRUE, d, n, TRUE, d, n, d, floor, plain)
  BY <1>2, <1>5, <1>6, <1>7, <1>8, OneTurn
<1> QED
  BY <1>9 DEF t, plain

\* A number that is a whole text, or has a fraction or an exponent behind its digits.
LEMMA Numbers ==
    ASSUME NEW t \in Wordings, t[1] \in Scan!Digits \cup {"-"},
           NEW d \in Nat, NEW n \in Nat, NEW floor \in Nat, NEW plain \in BOOLEAN,
           plain => Numeral(t, 1, Len(t)) /\ NoZeros(t, 1, Len(t)),
           ~plain => \E j : 1 <= j /\ j < Len(t) /\ Numeral(t, 1, j) /\ NoZeros(t, 1, j)
                              /\ t[j + 1] \in {".", "e"}
    PROVE  Reading(t, FALSE, d, n, FALSE, d, n, d, floor, plain)
<1> DEFINE c == t[1]
<1>1. NumberAt(t, 1, FALSE) /\ ~EscapeAt(t, 1, FALSE)
  BY DEF NumberAt, EscapeAt
<1>2. plain => Takes(t, 1, FALSE, Len(t))
  BY <1>1 DEF Takes
<1>3. ~plain => Broken(t, 1, FALSE)
  <2> SUFFICES ASSUME ~plain PROVE Broken(t, 1, FALSE)
    OBVIOUS
  <2>1. PICK j : /\ 1 <= j /\ j < Len(t) /\ Numeral(t, 1, j) /\ NoZeros(t, 1, j)
                 /\ t[j + 1] \in {".", "e"}
    OBVIOUS
  <2>2. Stops(t, 1, FALSE, j)
    BY <1>1, <2>1 DEF Stops, Numeral
  <2> QED
    BY <2>2 DEF Broken
<1>4. /\ Quotes(c, FALSE) = FALSE /\ Nests(c, FALSE, d) = d
      /\ Counts(c, FALSE, n) = n /\ ~Closes(c, FALSE)
  <2>1. c = "0" \/ c = "1" \/ c = "-"
    BY DEF Scan!Digits
  <2> HIDE DEF c
  <2> QED
    BY <2>1 DEF Quotes, Nests, Counts, Opens, Closes, Separates, Scan!Quote
<1> QED
  BY <1>2, <1>3, <1>4, OneTurn

-----------------------------------------------------------------------------
(* Texts that agree, one of them moved by o places                             *)

LEMMA MovedTakes ==
    ASSUME NEW s, NEW u, Len(s) \in Nat, Len(u) \in Nat, NEW q, NEW o \in Nat,
           NEW i \in Int, NEW j \in Int, i <= j, j <= Len(s), j + o <= Len(u),
           \A k \in i .. j : u[k + o] = s[k],
           NumberAt(s, i, q) /\ j + o < Len(u) => u[j + o + 1] \notin Scan!Digits \cup {".", "e"},
           Takes(s, i, q, j)
    PROVE  Takes(u, i + o, q, j + o)
<1> DEFINE a == i + o
           e == j + o
<1>1. a \in Int /\ e \in Int /\ a <= e /\ u[a] = s[i] /\ u[e] = s[j]
  OBVIOUS
<1>2. NumberAt(u, a, q) <=> NumberAt(s, i, q)
  BY <1>1 DEF NumberAt
<1>3. EscapeAt(u, a, q) <=> EscapeAt(s, i, q)
  BY <1>1 DEF EscapeAt
<1>4. First(u, a) = First(s, i) + o /\ First(s, i) \in Int /\ i <= First(s, i)
  BY <1>1 DEF First
<1>5. ASSUME NumberAt(s, i, q)
      PROVE  /\ Numeral(u, a, e) /\ NoZeros(u, a, e)
             /\ e = Len(u) \/ u[e + 1] \notin {".", "e"}
  <2>1. Numeral(s, i, j) /\ NoZeros(s, i, j)
    BY <1>5 DEF Takes
  <2>2. e = Len(u) \/ u[e + 1] \notin Scan!Digits \cup {".", "e"}
    BY <1>1, <1>5
  <2>3. \A k \in First(u, a) .. e : u[k] \in Scan!Digits
    <3> SUFFICES ASSUME NEW k \in First(u, a) .. e PROVE u[k] \in Scan!Digits
      OBVIOUS
    <3>1. k - o \in First(s, i) .. j /\ k - o \in i .. j /\ (k - o) + o = k
      BY <1>1, <1>4
    <3>2. u[k] = s[k - o]
      BY <3>1
    <3> QED
      BY <2>1, <3>1, <3>2 DEF Numeral
  <2>4. First(u, a) <= e
    BY <1>4, <2>1 DEF Numeral
  <2>5. Numeral(u, a, e)
    BY <1>1, <2>2, <2>3, <2>4 DEF Numeral
  <2>6. u[First(u, a)] = s[First(s, i)]
    BY <1>4, <2>1 DEF Numeral
  <2>7. NoZeros(u, a, e)
    BY <1>4, <2>1, <2>6 DEF NoZeros
  <2> QED
    BY <2>2, <2>5, <2>7
<1>6. ASSUME EscapeAt(s, i, q) PROVE e = a + 1 /\ e <= Len(u) /\ u[e] \notin Scan!Unescapable
  BY <1>1, <1>6 DEF Takes
<1>7. ASSUME ~NumberAt(s, i, q), ~EscapeAt(s, i, q)
      PROVE  e = a /\ (q \/ u[a] \notin {"+", ".", "high"})
  BY <1>1, <1>7 DEF Takes
<1> HIDE DEF a, e
<1>8. Takes(u, a, q, e)
  BY <1>2, <1>3, <1>5, <1>6, <1>7 DEF Takes
<1> QED
  BY <1>8 DEF a, e

LEMMA MovedStops ==
    ASSUME NEW s, NEW u, Len(s) \in Nat, Len(u) \in Nat, NEW q, NEW o \in Nat,
           NEW i \in Int, NEW j \in Int, j + o < Len(u),
           \A k \in i .. j + 1 : u[k + o] = s[k],
           Stops(s, i, q, j)
    PROVE  Stops(u, i + o, q, j + o)
<1> DEFINE a == i + o
           e == j + o
<1>1. /\ i <= j /\ j < Len(s)
      /\ a \in Int /\ e \in Int /\ a <= e /\ u[a] = s[i] /\ u[e] = s[j] /\ u[e + 1] = s[j + 1]
  <2>1. i <= j /\ j < Len(s)
    BY DEF Stops
  <2>2. e + 1 = (j + 1) + o
    OBVIOUS
  <2> QED
    BY <2>1, <2>2
<1>2. NumberAt(u, a, q) <=> NumberAt(s, i, q)
  BY <1>1 DEF NumberAt
<1>3. EscapeAt(u, a, q) <=> EscapeAt(s, i, q)
  BY <1>1 DEF EscapeAt
<1>4. First(u, a) = First(s, i) + o /\ First(s, i) \in Int /\ i <= First(s, i)
  BY <1>1 DEF First
<1>5. ASSUME Numeral(s, i, j), NoZeros(s, i, j)
      PROVE  Numeral(u, a, e) /\ NoZeros(u, a, e)
  <2>1. u[e + 1] \notin Scan!Digits
    BY <1>1, <1>5 DEF Numeral
  <2>2. \A k \in First(u, a) .. e : u[k] \in Scan!Digits
    <3> SUFFICES ASSUME NEW k \in First(u, a) .. e PROVE u[k] \in Scan!Digits
      OBVIOUS
    <3>1. k - o \in First(s, i) .. j /\ k - o \in i .. j + 1 /\ (k - o) + o = k
      BY <1>1, <1>4
    <3>2. u[k] = s[k - o]
      BY <3>1
    <3> QED
      BY <1>5, <3>1, <3>2 DEF Numeral
  <2>3. First(u, a) <= e
    BY <1>4, <1>5 DEF Numeral
  <2>4. Numeral(u, a, e)
    BY <1>1, <2>1, <2>2, <2>3 DEF Numeral
  <2>5. u[First(u, a)] = s[First(s, i)]
    BY <1>4, <1>5 DEF Numeral
  <2>6. NoZeros(u, a, e)
    BY <1>4, <1>5, <2>5 DEF NoZeros
  <2> QED
    BY <2>4, <2>6
<1> HIDE DEF a, e
<1>6. e < Len(u) /\ (j = i => e = a)
  BY DEF a, e
<1>7. Stops(u, a, q, e)
  BY <1>1, <1>2, <1>3, <1>5, <1>6 DEF Stops
<1> QED
  BY <1>7 DEF a, e

LEMMA JoinedIs ==
    ASSUME NEW s \in Wordings, NEW t \in Wordings
    PROVE  /\ s \o t \in Wordings /\ Len(s \o t) = Len(s) + Len(t)
           /\ \A i \in 1 .. Len(s) : (s \o t)[i] = s[i]
           /\ \A i \in 1 .. Len(t) : (s \o t)[i + Len(s)] = t[i]
<1>1. /\ s \in Seq(Tokens) /\ Len(s) \in Nat /\ 0 < Len(s)
      /\ t \in Seq(Tokens) /\ Len(t) \in Nat /\ 0 < Len(t)
  BY WordingIs
<1>2. /\ s \o t \in Seq(Tokens) /\ Len(s \o t) = Len(s) + Len(t)
      /\ \A i \in 1 .. Len(s) : (s \o t)[i] = s[i]
  BY <1>1
<1>3. \A i \in 1 .. Len(t) : (s \o t)[i + Len(s)] = t[i]
  BY <1>1
<1> QED
  BY <1>1, <1>2, <1>3 DEF Wordings

\* A place in the second of two texts, in both.
Behind(r, o) == <<r[1] + o, r[2], r[3], r[4]>>

LEMMA BehindIs ==
    ASSUME NEW r \in Places, NEW o \in Nat
    PROVE  /\ r = <<r[1], r[2], r[3], r[4]>>
           /\ r[1] \in Nat /\ 0 < r[1] /\ r[2] \in BOOLEAN /\ r[3] \in Nat /\ r[4] \in Nat
           /\ Behind(r, o) \in Places
           /\ Behind(r, o)[1] = r[1] + o /\ Behind(r, o)[2] = r[2]
           /\ Behind(r, o)[3] = r[3] /\ Behind(r, o)[4] = r[4]
<1>1. /\ r = <<r[1], r[2], r[3], r[4]>>
      /\ r[1] \in Nat /\ 0 < r[1] /\ r[2] \in BOOLEAN /\ r[3] \in Nat /\ r[4] \in Nat
  BY DEF Places
<1>2. r[1] + o \in Nat \ {0}
  BY <1>1
<1> QED
  BY <1>1, <1>2 DEF Behind, Places

\* The text s, with its places R0, stands in u, with its places R, behind the first o bytes; a
\* number at its end does not go on.
Embeds(s, R0, u, R, o) ==
    /\ Len(s) \in Nat /\ Len(u) \in Nat /\ o \in Nat /\ Len(s) + o <= Len(u)
    /\ \A k \in 1 .. Len(s) : u[k + o] = s[k]
    /\ R0 \subseteq Places /\ R \subseteq Places
    /\ \A x \in R0 : Behind(x, o) \in R
    /\ \A x \in R : x[1] <= o \/ Len(s) + o < x[1] \/ \E y \in R0 : x = Behind(y, o)
    /\ Len(s) + o < Len(u) /\ s[Len(s)] \in Scan!Digits
         /\ (\E y \in R0 : y[1] = Len(s) + 1 /\ ~y[2])
         => u[Len(s) + o + 1] \notin Scan!Digits \cup {".", "e"}

LEMMA MovedGoes ==
    ASSUME NEW s, NEW R0, NEW u, NEW R, NEW o, Embeds(s, R0, u, R, o),
           NEW r \in R0, r[1] <= Len(s),
           NEW p0 \in BOOLEAN, NEW plain \in BOOLEAN, plain => p0, Goes(R0, s, r, p0)
    PROVE  Goes(R, u, Behind(r, o), plain)
<1>5. Len(s) \in Nat /\ Len(u) \in Nat /\ o \in Nat /\ Len(s) + o <= Len(u)
  BY DEF Embeds
<1>6. \A k \in 1 .. Len(s) : u[k + o] = s[k]
  BY DEF Embeds
<1>7. R0 \subseteq Places /\ R \subseteq Places
  BY DEF Embeds
<1>8. \A x \in R0 : Behind(x, o) \in R
  BY DEF Embeds
<1>9. \A x \in R : x[1] <= o \/ Len(s) + o < x[1] \/ \E y \in R0 : x = Behind(y, o)
  BY DEF Embeds
<1>10. Len(s) + o < Len(u) /\ s[Len(s)] \in Scan!Digits
         /\ (\E y \in R0 : y[1] = Len(s) + 1 /\ ~y[2])
         => u[Len(s) + o + 1] \notin Scan!Digits \cup {".", "e"}
  BY DEF Embeds
<1> DEFINE i == r[1]
           q == r[2]
           b == Behind(r, o)
<1>1. i \in Nat /\ 0 < i /\ q \in BOOLEAN /\ b[1] = i + o /\ b[2] = q /\ b[3] = r[3] /\ b[4] = r[4]
  BY <1>5, <1>7, BehindIs
<1>2. u[b[1]] = s[i]
  BY <1>1, <1>5, <1>6
<1>3. CASE ~p0 /\ Broken(s, i, q)
  <2>1. PICK j : Stops(s, i, q, j)
    BY <1>3 DEF Broken
  <2>2. j \in Int /\ i <= j /\ j < Len(s)
    BY <2>1 DEF Stops
  <2>3. j + o < Len(u) /\ \A k \in i .. j + 1 : u[k + o] = s[k]
    BY <1>1, <1>5, <1>6, <2>2
  <2>4. Stops(u, i + o, q, j + o)
    <3>1. i \in Int
      BY <1>1
    <3> HIDE DEF i, q
    <3> QED
      BY <1>5, <2>1, <2>2, <2>3, <3>1, MovedStops
  <2>5. Broken(u, b[1], b[2])
    BY <1>1, <2>4 DEF Broken
  <2> QED
    BY <1>3, <2>5 DEF Goes
<1>4. ASSUME NEW j \in Int, i <= j, j <= Len(s), Takes(s, i, q, j),
             <<j + 1, Quotes(s[i], q), Nests(s[i], q, r[3]), Counts(s[i], q, r[4])>> \in R0,
             \A x \in R0 : x[1] <= i \/ j < x[1]
      PROVE  Goes(R, u, b, plain)
  <2> DEFINE y == <<j + 1, Quotes(s[i], q), Nests(s[i], q, r[3]), Counts(s[i], q, r[4])>>
  <2>1. /\ j + o \in Int /\ b[1] <= j + o /\ j + o <= Len(u)
        /\ \A k \in i .. j : u[k + o] = s[k]
    <3>1. j + o \in Int /\ b[1] <= j + o /\ j + o <= Len(u)
      BY <1>5, <1>1, <1>4
    <3>2. \A k \in i .. j : k \in 1 .. Len(s)
      BY <1>5, <1>1, <1>4
    <3> QED
      BY <1>6, <3>1, <3>2
  <2>2. ASSUME NumberAt(s, i, q), j + o < Len(u)
        PROVE  u[j + o + 1] \notin Scan!Digits \cup {".", "e"}
    <3>1. CASE j < Len(s)
      <4>1. s[j + 1] \notin Scan!Digits \cup {".", "e"}
        BY <1>4, <2>2, <3>1 DEF Takes, Numeral
      <4>2. (j + 1) + o = j + o + 1 /\ j + 1 \in 1 .. Len(s)
        BY <1>5, <1>1, <1>4, <3>1
      <4>3. u[j + o + 1] = s[j + 1]
        BY <1>6, <4>2
      <4> QED
        BY <4>1, <4>3
    <3>2. CASE j = Len(s)
      <4>1. ~Quotes(s[i], q)
        <5>1. ~q /\ s[i] # Scan!Quote
          BY <2>2 DEF NumberAt, Scan!Digits, Scan!Quote
        <5> QED
          BY <1>1, <5>1 DEF Quotes
      <4>2. y \in R0 /\ y[1] = Len(s) + 1 /\ ~y[2]
        BY <1>4, <3>2, <4>1
      <4> HIDE DEF y
      <4>3. \E z \in R0 : z[1] = Len(s) + 1 /\ ~z[2]
        BY <4>2
      <4>4. Len(s) + o < Len(u)
        BY <2>2, <3>2
      <4>5. Numeral(s, i, j)
        BY <1>4, <2>2 DEF Takes
      <4>6. First(s, i) \in Int /\ First(s, i) <= j
        BY <1>1, <4>5 DEF First, Numeral
      <4>7. s[Len(s)] \in Scan!Digits
        BY <1>4, <3>2, <4>5, <4>6 DEF Numeral
      <4>8. u[Len(s) + o + 1] \notin Scan!Digits \cup {".", "e"}
        BY <1>10, <4>3, <4>4, <4>7
      <4> QED
        BY <3>2, <4>8
    <3> QED
      BY <1>4, <3>1, <3>2
  <2>3. Takes(u, b[1], b[2], j + o)
    <3>1. Takes(u, i + o, q, j + o)
      <4>1. i \in Int /\ j \in Int /\ i <= j /\ j <= Len(s) /\ j + o <= Len(u)
        BY <1>5, <1>1, <1>4, <2>1
      <4>2. NumberAt(s, i, q) /\ j + o < Len(u)
              => u[j + o + 1] \notin Scan!Digits \cup {".", "e"}
        BY <2>2
      <4>3. \A k \in i .. j : u[k + o] = s[k]
        BY <2>1
      <4>4. Takes(s, i, q, j)
        BY <1>4
      <4> HIDE DEF i, q
      <4> QED
        BY <1>5, <4>1, <4>2, <4>3, <4>4, MovedTakes
    <3> QED
      BY <1>1, <3>1
  <2>4. <<j + o + 1, Quotes(u[b[1]], b[2]), Nests(u[b[1]], b[2], b[3]),
          Counts(u[b[1]], b[2], b[4])>> \in R
    <3>1. y \in R0
      BY <1>4
    <3>2. Behind(y, o) = <<(j + 1) + o, Quotes(s[i], q), Nests(s[i], q, r[3]),
                           Counts(s[i], q, r[4])>>
      BY DEF Behind
    <3>3. (j + 1) + o = j + o + 1
      BY <1>4, <1>5
    <3> HIDE DEF y
    <3>4. Behind(y, o) \in R
      BY <1>8, <3>1
    <3> QED
      BY <1>1, <1>2, <3>2, <3>3, <3>4
  <2>5. \A x \in R : x[1] <= b[1] \/ j + o < x[1]
    <3> SUFFICES ASSUME NEW x \in R PROVE x[1] <= b[1] \/ j + o < x[1]
      OBVIOUS
    <3>1. CASE x[1] <= o \/ Len(s) + o < x[1]
      <4>1. CASE x[1] <= o
        <5>1. x[1] \in Nat
          BY <1>5, <1>7, BehindIs
        <5> QED
          BY <1>5, <1>1, <1>4, <4>1, <5>1
      <4>2. CASE Len(s) + o < x[1]
        <5>1. x[1] \in Nat
          BY <1>5, <1>7, BehindIs
        <5> QED
          BY <1>5, <1>1, <1>4, <4>2, <5>1
      <4> QED
        BY <3>1, <4>1, <4>2
    <3>2. CASE \E z \in R0 : x = Behind(z, o)
      <4>1. PICK z \in R0 : x = Behind(z, o)
        BY <3>2
      <4>2. x[1] = z[1] + o /\ z[1] \in Nat
        BY <1>5, <1>7, <4>1, BehindIs
      <4>3. z[1] <= i \/ j < z[1]
        BY <1>4
      <4> QED
        BY <1>5, <1>1, <4>2, <4>3
    <3> QED
      BY <1>9, <3>1, <3>2
  <2> QED
    BY <2>1, <2>3, <2>4, <2>5 DEF Goes
<1> QED
  BY <1>3, <1>4 DEF Goes

\* No number goes on from s to t.
Apart(s, t) == t[1] \notin Scan!Digits \cup {".", "e"} \/ s[Len(s)] \notin Scan!Digits

\* The reading of two texts, one behind the other.  A number at the end of the first must not go
\* on in the second.
LEMMA Joined ==
    ASSUME NEW s, NEW t, NEW q, NEW d, NEW n, NEW q1, NEW d1, NEW n1, NEW q2, NEW d2, NEW n2,
           NEW top1, NEW top2, NEW floor1, NEW floor2, NEW p1, NEW p2,
           Reading(s, q, d, n, q1, d1, n1, top1, floor1, p1),
           Reading(t, q1, d1, n1, q2, d2, n2, top2, floor2, p2),
           q1 \/ Apart(s, t),
           NEW floor \in Nat, floor <= floor1, floor <= floor2, floor <= d1,
           NEW top, top = IF top1 < top2 THEN top2 ELSE top1,
           NEW plain, plain = (p1 /\ p2)
    PROVE  Reading(s \o t, q, d, n, q2, d2, n2, top, floor, plain)
<1> DEFINE l == Len(s)
           m == Len(t)
           u == s \o t
<1>1. /\ s \in Wordings /\ t \in Wordings
      /\ q \in BOOLEAN /\ d \in Nat /\ n \in Nat /\ q1 \in BOOLEAN /\ d1 \in Nat /\ n1 \in Nat
      /\ q2 \in BOOLEAN /\ d2 \in Nat /\ n2 \in Nat /\ top1 \in Nat /\ top2 \in Nat
      /\ floor1 \in Nat /\ floor2 \in Nat /\ p1 \in BOOLEAN /\ p2 \in BOOLEAN
  BY DEF Reading
<1>2. /\ u \in Wordings /\ Len(u) = l + m /\ l \in Nat /\ m \in Nat /\ 0 < l /\ 0 < m
      /\ (\A i \in 1 .. l : u[i] = s[i]) /\ (\A i \in 1 .. m : u[i + l] = t[i])
  BY <1>1, JoinedIs, WordingIs
<1>3. PICK R1 : Tracks(R1, s, q, d, n, q1, d1, n1, top1, floor1, p1)
  BY DEF Reading
<1>4. PICK R2 : Tracks(R2, t, q1, d1, n1, q2, d2, n2, top2, floor2, p2)
  BY DEF Reading
<1> DEFINE start == <<1, q1, d1, n1>>
           end == <<m + 1, q2, d2, n2>>
           R == R1 \cup {Behind(x, l) : x \in R2}
<1> HIDE DEF u
<1>5. /\ R1 \subseteq Places /\ (\A r \in R1 : r[1] <= l + 1)
      /\ <<1, q, d, n>> \in R1 /\ (\A r \in R1 : r[1] = 1 => r = <<1, q, d, n>>)
      /\ <<l + 1, q1, d1, n1>> \in R1
      /\ (\A r \in R1 : r[1] = l + 1 => r = <<l + 1, q1, d1, n1>>)
  BY <1>3 DEF Tracks, Between
<1>6. /\ R2 \subseteq Places /\ (\A r \in R2 : r[1] <= m + 1)
      /\ start \in R2 /\ (\A r \in R2 : r[1] = 1 => r = start)
      /\ end \in R2 /\ (\A r \in R2 : r[1] = m + 1 => r = end)
  BY <1>4 DEF Tracks, Between
<1>7. /\ d <= top1 /\ d1 <= top1 /\ n <= n1 /\ d1 <= top2 /\ d2 <= top2 /\ n1 <= n2
  BY <1>3, <1>4 DEF Tracks
<1>8. Behind(start, l) = <<l + 1, q1, d1, n1>> /\ Behind(end, l) = <<l + m + 1, q2, d2, n2>>
  <2>1. 1 + l = l + 1 /\ m + 1 + l = l + m + 1
    BY <1>2
  <2> HIDE DEF l, m
  <2> QED
    BY <2>1 DEF Behind
<1> HIDE DEF start, end
<1>9. ASSUME NEW x \in R2
      PROVE  /\ Behind(x, l) \in R /\ Behind(x, l) \in Places /\ x[1] \in Nat /\ 0 < x[1]
             /\ x[3] \in Nat /\ x[4] \in Nat
             /\ Behind(x, l)[1] = x[1] + l /\ Behind(x, l)[2] = x[2]
             /\ Behind(x, l)[3] = x[3] /\ Behind(x, l)[4] = x[4]
  <2>1. x \in Places /\ l \in Nat
    BY <1>2, <1>6
  <2> QED
    BY <2>1, BehindIs
<1>10. ASSUME NEW r \in R1
       PROVE  r \in R /\ r \in Places /\ r[1] \in Nat /\ 0 < r[1] /\ r[3] \in Nat /\ r[4] \in Nat
  <2>1. r \in Places
    BY <1>5
  <2> QED
    BY <2>1, BehindIs
<1>11. ASSUME NEW r \in R
       PROVE  (r \in R1 /\ r[1] <= l) \/ \E x \in R2 : r = Behind(x, l)
  <2>1. CASE r \in R1 /\ r[1] = l + 1
    BY <1>5, <1>6, <1>8, <2>1
  <2>2. CASE r \in R1 /\ r[1] # l + 1
    BY <1>2, <1>5, <1>10, <2>2
  <2> QED
    BY <2>1, <2>2
<1>12. R \subseteq Places
  BY <1>9, <1>10
<1> HIDE DEF R
<1>13. Between(R, u, q, d, n, q2, d2, n2)
  <2>1. ASSUME NEW r \in R
        PROVE  /\ r[1] <= l + m + 1
               /\ r[1] = 1 => r = <<1, q, d, n>>
               /\ r[1] = l + m + 1 => r = <<l + m + 1, q2, d2, n2>>
    <3>1. CASE r \in R1 /\ r[1] <= l
      BY <1>2, <1>5, <1>10, <3>1
    <3>2. CASE \E x \in R2 : r = Behind(x, l)
      <4>1. PICK x \in R2 : r = Behind(x, l)
        BY <3>2
      <4>2. r[1] = x[1] + l /\ x[1] \in Nat /\ 0 < x[1] /\ x[1] <= m + 1
        BY <1>6, <1>9, <4>1
      <4>3. r[1] = l + m + 1 => x[1] = m + 1
        BY <1>2, <4>2
      <4>4. r[1] = l + m + 1 => r = <<l + m + 1, q2, d2, n2>>
        BY <1>6, <1>8, <4>1, <4>3
      <4> QED
        BY <1>2, <4>2, <4>4
    <3> QED
      BY <1>11, <3>1, <3>2
  <2>2. <<1, q, d, n>> \in R /\ <<l + m + 1, q2, d2, n2>> \in R
    BY <1>5, <1>6, <1>8, <1>9, <1>10
  <2>3. Len(u) + 1 = l + m + 1
    BY <1>2
  <2> HIDE DEF l, m
  <2> QED
    BY <1>12, <2>1, <2>2, <2>3 DEF Between
<1>21. Single(R)
  <2>1. Single(R1) /\ Single(R2)
    BY <1>3, <1>4 DEF Tracks
  <2> SUFFICES ASSUME NEW x \in R, NEW y \in R, x[1] = y[1] PROVE x = y
    BY DEF Single
  <2>3. CASE x \in R1 /\ x[1] <= l /\ y \in R1 /\ y[1] <= l
    BY <2>1, <2>3 DEF Single
  <2>4. CASE \E x0 \in R2 : x = Behind(x0, l)
    <3>1. PICK x0 \in R2 : x = Behind(x0, l)
      BY <2>4
    <3>7. x[1] = x0[1] + l /\ x0[1] \in Nat /\ 0 < x0[1]
      BY <1>9, <3>1
    <3>2. x[1] = x0[1] + l /\ x0[1] \in Nat /\ ~(y[1] <= l)
      BY <1>2, <3>7
    <3>3. PICK y0 \in R2 : y = Behind(y0, l)
      BY <1>11, <3>2
    <3>4. y[1] = y0[1] + l /\ y0[1] \in Nat
      BY <1>9, <3>3
    <3>5. x0[1] = y0[1]
      <4>1. x0[1] + l = y0[1] + l /\ l \in Nat
        BY <1>2, <3>2, <3>4
      <4> HIDE DEF l
      <4> QED
        BY <3>2, <3>4, <4>1
    <3>6. x0 = y0
      BY <2>1, <3>5 DEF Single
    <3> QED
      BY <3>1, <3>3, <3>6
  <2>5. CASE \E y0 \in R2 : y = Behind(y0, l)
    <3>1. PICK y0 \in R2 : y = Behind(y0, l)
      BY <2>5
    <3>7. y[1] = y0[1] + l /\ y0[1] \in Nat /\ 0 < y0[1]
      BY <1>9, <3>1
    <3>2. y[1] = y0[1] + l /\ y0[1] \in Nat /\ ~(x[1] <= l)
      BY <1>2, <3>7
    <3>3. PICK x0 \in R2 : x = Behind(x0, l)
      BY <1>11, <3>2
    <3>4. x[1] = x0[1] + l /\ x0[1] \in Nat
      BY <1>9, <3>3
    <3>5. x0[1] = y0[1]
      <4>1. x0[1] + l = y0[1] + l /\ l \in Nat
        BY <1>2, <3>2, <3>4
      <4> HIDE DEF l
      <4> QED
        BY <3>2, <3>4, <4>1
    <3>6. x0 = y0
      BY <2>1, <3>5 DEF Single
    <3> QED
      BY <3>1, <3>3, <3>6
  <2> QED
    BY <1>11, <2>3, <2>4, <2>5
<1>14. top \in Nat /\ top1 <= top /\ top2 <= top /\ d <= top /\ d2 <= top /\ n <= n2
  BY <1>1, <1>7
<1>15. plain \in BOOLEAN /\ (plain => p1) /\ (plain => p2)
  BY <1>1
<1>16. ASSUME NEW r \in R1, r[1] <= l
       PROVE  Within(u, r, n2, top, floor) /\ Goes(R, u, r, plain)
  <2>1. Within(s, r, n1, top1, floor1) /\ Goes(R1, s, r, p1)
    BY <1>3, <1>16 DEF Tracks
  <2>2. u[r[1]] = s[r[1]]
    BY <1>2, <1>10, <1>16
  <2>3. Within(u, r, n2, top, floor)
    BY <1>1, <1>7, <1>10, <1>14, <2>1, <2>2 DEF Within
  <2>4. Behind(r, 0) = r
    <3>1. r[1] + 0 = r[1] /\ r = <<r[1], r[2], r[3], r[4]>>
      BY <1>10, BehindIs
    <3> QED
      BY <3>1 DEF Behind
  <2>5. \A x \in R1 : Behind(x, 0) \in R
    <3> SUFFICES ASSUME NEW x \in R1 PROVE Behind(x, 0) \in R
      OBVIOUS
    <3>1. x[1] + 0 = x[1] /\ x = <<x[1], x[2], x[3], x[4]>>
      BY <1>10, BehindIs
    <3> QED
      BY <1>10, <3>1 DEF Behind
  <2>6. \A x \in R : x[1] <= 0 \/ l + 0 < x[1] \/ \E y \in R1 : x = Behind(y, 0)
    <3> SUFFICES ASSUME NEW x \in R
                 PROVE  l + 0 < x[1] \/ \E y \in R1 : x = Behind(y, 0)
      OBVIOUS
    <3>1. CASE x \in R1
      <4>1. x[1] + 0 = x[1] /\ x = <<x[1], x[2], x[3], x[4]>>
        BY <1>10, <3>1, BehindIs
      <4> QED
        BY <3>1, <4>1 DEF Behind
    <3>2. CASE \E y \in R2 : x = Behind(y, l)
      BY <1>2, <1>9, <3>2
    <3> QED
      BY <1>11, <3>1, <3>2
  <2>7. ASSUME s[l] \in Scan!Digits, \E y \in R1 : y[1] = l + 1 /\ ~y[2]
        PROVE  u[l + 0 + 1] \notin Scan!Digits \cup {".", "e"}
    <3>1. ~q1
      BY <1>5, <2>7
    <3>3. u[l + 0 + 1] = t[1]
      BY <1>2
    <3> QED
      BY <2>7, <3>1, <3>3 DEF Apart
  <2>8. Goes(R, u, Behind(r, 0), plain)
    <3>1. /\ l \in Nat /\ Len(u) \in Nat /\ 0 \in Nat /\ l + 0 <= Len(u)
          /\ \A k \in 1 .. l : u[k + 0] = s[k]
      BY <1>2
    <3>2. R1 \subseteq Places
      BY <1>5
    <3>3. Embeds(s, R1, u, R, 0)
      BY <1>12, <2>5, <2>6, <2>7, <3>1, <3>2 DEF Embeds
    <3> QED
      BY <1>1, <1>15, <1>16, <2>1, <3>3, MovedGoes
  <2> QED
    BY <2>3, <2>4, <2>8
<1>17. ASSUME NEW x \in R2, x[1] <= m
       PROVE  Within(u, Behind(x, l), n2, top, floor) /\ Goes(R, u, Behind(x, l), plain)
  <2> DEFINE r == Behind(x, l)
  <2>1. Within(t, x, n2, top2, floor2) /\ Goes(R2, t, x, p2)
    BY <1>4, <1>17 DEF Tracks
  <2>2. u[r[1]] = t[x[1]]
    BY <1>2, <1>9, <1>17
  <2>3. floor <= r[3]
    <3>1. CASE x[1] = 1
      <4>1. x[3] = d1
        BY <1>6, <3>1 DEF start
      <4> QED
        BY <1>9, <4>1
    <3>2. CASE x[1] # 1
      <4>1. 1 < x[1] /\ x[3] \in Nat
        BY <1>9, <3>2
      <4>2. floor2 <= x[3]
        BY <2>1, <4>1 DEF Within
      <4>3. r[3] = x[3]
        BY <1>9
      <4> HIDE DEF r
      <4> QED
        BY <1>1, <4>1, <4>2, <4>3
    <3> QED
      BY <3>1, <3>2
  <2>4. Within(u, r, n2, top, floor)
    <3>1. r[2] = x[2] /\ r[3] = x[3] /\ r[4] = x[4]
      BY <1>9
    <3> HIDE DEF r
    <3> QED
      BY <1>1, <1>9, <1>14, <2>1, <2>2, <2>3, <3>1 DEF Within
  <2>5. \A y \in R2 : Behind(y, l) \in R
    BY <1>9
  <2>6. \A y \in R : y[1] <= l \/ m + l < y[1] \/ \E z \in R2 : y = Behind(z, l)
    BY <1>11
  <2>7. ~(m + l < Len(u)) /\ m + l <= Len(u) /\ Len(u) \in Nat
    BY <1>2
  <2>8. Goes(R, u, Behind(x, l), plain)
    <3>1. m \in Nat /\ l \in Nat /\ \A k \in 1 .. m : u[k + l] = t[k]
      BY <1>2
    <3>2. R2 \subseteq Places
      BY <1>6
    <3>3. Embeds(t, R2, u, R, l)
      BY <1>12, <2>5, <2>6, <2>7, <3>1, <3>2 DEF Embeds
    <3> QED
      BY <1>1, <1>15, <1>17, <2>1, <3>3, MovedGoes
  <2> QED
    BY <2>4, <2>8
<1>18. ASSUME NEW r \in R, r[1] <= Len(u)
       PROVE  Within(u, r, n2, top, floor) /\ Goes(R, u, r, plain)
  <2>1. CASE r \in R1 /\ r[1] <= l
    BY <1>16, <2>1
  <2>2. CASE \E x \in R2 : r = Behind(x, l)
    <3>1. PICK x \in R2 : r = Behind(x, l)
      BY <2>2
    <3>2. x[1] <= m
      BY <1>2, <1>9, <1>18, <3>1
    <3> QED
      BY <1>17, <3>1, <3>2
  <2> QED
    BY <1>11, <2>1, <2>2
<1>19. Reaches(R, u, d, n, n2, top, plain)
  <2>1. Reaches(R1, s, d, n, n1, top1, p1) /\ Reaches(R2, t, d1, n1, n2, top2, p2)
    BY <1>3, <1>4 DEF Tracks
  <2>2. ASSUME NEW r \in R1, r[1] <= l
        PROVE  /\ r \in R /\ r[1] <= Len(u) /\ u[r[1]] = s[r[1]]
               /\ Broken(s, r[1], r[2]) => Broken(u, r[1], r[2])
    <3>1. r \in R /\ r[1] <= Len(u) /\ u[r[1]] = s[r[1]]
      BY <1>2, <1>10, <2>2
    <3>2. ASSUME NEW j, Stops(s, r[1], r[2], j) PROVE Broken(u, r[1], r[2])
      <4>1. j \in Int /\ r[1] <= j /\ j < l /\ r[1] \in Int /\ r[1] + 0 = r[1] /\ j + 0 = j
        BY <1>10, <3>2 DEF Stops
      <4>2. j + 0 < Len(u) /\ \A k \in r[1] .. j + 1 : u[k + 0] = s[k]
        BY <1>2, <1>10, <4>1
      <4>3. Stops(u, r[1] + 0, r[2], j + 0)
        <5>1. l \in Nat /\ Len(u) \in Nat /\ r[1] \in Int /\ j \in Int /\ 0 \in Nat
          BY <1>2, <4>1
        <5> QED
          BY <3>2, <4>2, <5>1, MovedStops
      <4> QED
        BY <4>1, <4>3 DEF Broken
    <3> QED
      BY <3>1, <3>2 DEF Broken
  <2>3. ASSUME NEW x \in R2, x[1] <= m
        PROVE  LET r == Behind(x, l)
               IN  /\ r \in R /\ r[1] <= Len(u) /\ u[r[1]] = t[x[1]]
                   /\ r[2] = x[2] /\ r[3] = x[3] /\ r[4] = x[4]
                   /\ Broken(t, x[1], x[2]) => Broken(u, r[1], r[2])
    <3> DEFINE r == Behind(x, l)
    <3>1. /\ r \in R /\ r[1] <= Len(u) /\ u[r[1]] = t[x[1]]
          /\ r[2] = x[2] /\ r[3] = x[3] /\ r[4] = x[4] /\ r[1] = x[1] + l
      BY <1>2, <1>9, <2>3
    <3> HIDE DEF r
    <3>2. ASSUME NEW j, Stops(t, x[1], x[2], j) PROVE Broken(u, r[1], r[2])
      <4>1. j \in Int /\ x[1] <= j /\ j < m /\ x[1] \in Int
        BY <1>9, <3>2 DEF Stops
      <4>2. j + l < Len(u) /\ \A k \in x[1] .. j + 1 : u[k + l] = t[k]
        BY <1>2, <1>9, <4>1
      <4>3. Stops(u, x[1] + l, x[2], j + l)
        <5>1. l \in Nat /\ m \in Nat /\ Len(u) \in Nat /\ x[1] \in Int /\ j \in Int
          BY <1>2, <4>1
        <5> QED
          BY <3>2, <4>2, <5>1, MovedStops
      <4> QED
        BY <3>1, <4>3 DEF Broken
    <3> QED
      BY <3>1, <3>2 DEF Broken, r
  <2>4. d < top => \E r \in R : r[1] <= Len(u) /\ Opens(u[r[1]], r[2]) /\ r[3] + 1 = top
    <3>1. CASE top = top1
      BY <2>1, <2>2, <3>1 DEF Reaches
    <3>2. CASE top = top2 /\ d1 < top2
      <4>1. PICK x \in R2 : x[1] <= m /\ Opens(t[x[1]], x[2]) /\ x[3] + 1 = top2
        BY <2>1, <3>2 DEF Reaches
      <4> QED
        BY <2>3, <3>2, <4>1
    <3> QED
      BY <1>1, <1>7, <3>1, <3>2
  <2>5. n < n2 => \E r \in R : r[1] <= Len(u) /\ Separates(u[r[1]], r[2]) /\ r[4] + 1 = n2
    <3>1. CASE n1 < n2
      <4>1. PICK x \in R2 : x[1] <= m /\ Separates(t[x[1]], x[2]) /\ x[4] + 1 = n2
        BY <2>1, <3>1 DEF Reaches
      <4> QED
        BY <2>3, <4>1
    <3>2. CASE n1 = n2
      BY <2>1, <2>2, <3>2 DEF Reaches
    <3> QED
      BY <1>1, <1>7, <3>1, <3>2
  <2>6. ~plain => \E r \in R : r[1] <= Len(u) /\ Broken(u, r[1], r[2])
    <3>1. CASE ~p1
      BY <2>1, <2>2, <3>1 DEF Reaches
    <3>2. CASE ~p2
      <4>1. PICK x \in R2 : x[1] <= m /\ Broken(t, x[1], x[2])
        BY <2>1, <3>2 DEF Reaches
      <4> QED
        BY <2>3, <4>1
    <3> QED
      BY <3>1, <3>2
  <2> QED
    BY <2>4, <2>5, <2>6 DEF Reaches
<1>20. Tracks(R, u, q, d, n, q2, d2, n2, top, floor, plain)
  BY <1>13, <1>14, <1>18, <1>19, <1>21 DEF Tracks
<1> QED
  BY <1>1, <1>2, <1>14, <1>15, <1>20 DEF Reading, u

-----------------------------------------------------------------------------
(* Single bytes, strings and numbers                                           *)

\* A bracket that opens or closes, and a separator.
LEMMA Opening ==
    ASSUME NEW c, Opens(c, FALSE), NEW d \in Nat, NEW n \in Nat, NEW floor \in Nat
    PROVE  Reading(<<c>>, FALSE, d, n, FALSE, d + 1, n, d + 1, floor, TRUE)
<1>1. /\ Quotes(c, FALSE) = FALSE /\ Nests(c, FALSE, d) = d + 1 /\ Counts(c, FALSE, n) = n
      /\ ~Closes(c, FALSE)
  BY DEF Quotes, Nests, Counts, Opens, Closes, Separates, Scan!Quote
<1>2. c \in Tokens /\ c \notin Scan!Digits \cup {"-", "+", ".", "high"}
  BY DEF Tokens, Scan!Digits, Opens, Closes, Separates
<1>3. d + 1 = IF d < d + 1 THEN d + 1 ELSE d
  OBVIOUS
<1>4. d + 1 \in Nat
  OBVIOUS
<1> QED
  BY <1>1, <1>2, <1>3, <1>4, OneLetter

LEMMA Closing ==
    ASSUME NEW c, Closes(c, FALSE), NEW d \in Nat, NEW n \in Nat, NEW floor \in Nat
    PROVE  Reading(<<c>>, FALSE, d + 1, n, FALSE, d, n, d + 1, floor, TRUE)
<1> DEFINE e == d + 1
<1>1. e \in Nat /\ 0 < e /\ e - 1 = d /\ ~(e < d)
  OBVIOUS
<1> HIDE DEF e
<1>2. /\ Quotes(c, FALSE) = FALSE /\ Nests(c, FALSE, e) = d /\ Counts(c, FALSE, n) = n
  BY <1>1 DEF Quotes, Nests, Counts, Opens, Closes, Separates, Scan!Quote
<1>3. c \in Tokens /\ c \notin Scan!Digits \cup {"-", "+", ".", "high"}
  BY DEF Tokens, Scan!Digits, Opens, Closes, Separates
<1>4. e = IF e < d THEN d ELSE e
  BY <1>1
<1>5. Reading(<<c>>, FALSE, e, n, FALSE, d, n, e, floor, TRUE)
  BY <1>1, <1>2, <1>3, <1>4, OneLetter
<1> QED
  BY <1>5 DEF e

LEMMA Separating ==
    ASSUME NEW c, Separates(c, FALSE), NEW d \in Nat, NEW n \in Nat, NEW floor \in Nat
    PROVE  Reading(<<c>>, FALSE, d, n, FALSE, d, n + 1, d, floor, TRUE)
<1>1. /\ Quotes(c, FALSE) = FALSE /\ Nests(c, FALSE, d) = d /\ Counts(c, FALSE, n) = n + 1
      /\ ~Closes(c, FALSE)
  BY DEF Quotes, Nests, Counts, Opens, Closes, Separates, Scan!Quote
<1>2. c \in Tokens /\ c \notin Scan!Digits \cup {"-", "+", ".", "high"}
  BY DEF Tokens, Scan!Digits, Opens, Closes, Separates
<1>3. d = IF d < d THEN d ELSE d
  OBVIOUS
<1> QED
  BY <1>1, <1>2, <1>3, OneLetter

\* A byte that counts for nothing, and the two ends of a string.
LEMMA Uncounted ==
    ASSUME NEW c \in Tokens, NEW q \in BOOLEAN, NEW q1 \in BOOLEAN,
           NEW d \in Nat, NEW n \in Nat, NEW floor \in Nat, ~(q /\ c = Scan!Escape),
           q \/ c \notin Scan!Digits \cup {"-", "+", ".", "high"},
           q1 = Quotes(c, q), ~Opens(c, q), ~Closes(c, q), ~Separates(c, q)
    PROVE  Reading(<<c>>, q, d, n, q1, d, n, d, floor, TRUE)
<1>1. d = Nests(c, q, d) /\ n = Counts(c, q, n)
  BY DEF Nests, Counts
<1>2. d = IF d < d THEN d ELSE d
  OBVIOUS
<1> QED
  BY <1>1, <1>2, OneLetter

LEMMA Idle ==
    ASSUME NEW c \in Tokens, NEW q \in BOOLEAN, NEW q1 \in BOOLEAN,
           NEW d \in Nat, NEW n \in Nat, NEW floor \in Nat,
           \/ q /\ q1 /\ c # Scan!Escape /\ c # Scan!Quote
           \/ q /\ ~q1 /\ c = Scan!Quote
           \/ ~q /\ q1 /\ c = Scan!Quote
           \/ ~q /\ ~q1 /\ c \in {"a", "e"}
    PROVE  Reading(<<c>>, q, d, n, q1, d, n, d, floor, TRUE)
<1>1. /\ q1 = Quotes(c, q) /\ ~Opens(c, q) /\ ~Closes(c, q) /\ ~Separates(c, q)
      /\ ~(q /\ c = Scan!Escape) /\ (q \/ c \notin Scan!Digits \cup {"-", "+", ".", "high"})
  BY DEF Quotes, Opens, Closes, Separates, Scan!Quote, Scan!Escape, Scan!Digits
<1> QED
  BY <1>1, Uncounted

\* What stands in a string.
Inner(x, plain) == \A d, n \in Nat : Reading(x, TRUE, d, n, TRUE, d, n, d, d, plain)

\* A value.
Readable(v, k) ==
    /\ v.depth \in Nat /\ v.members \in Nat /\ v.plain \in BOOLEAN
    /\ \A d, n \in Nat :
          Reading(v.text, FALSE, d, n, FALSE, d, n + v.members, d + v.depth, d + k, v.plain)

LEMMA InnerLetter ==
    ASSUME NEW c \in Tokens \ {Scan!Escape, Scan!Quote}
    PROVE  Inner(<<c>>, TRUE)
<1> SUFFICES ASSUME NEW d \in Nat, NEW n \in Nat
             PROVE  Reading(<<c>>, TRUE, d, n, TRUE, d, n, d, d, TRUE)
  BY DEF Inner
<1> QED
  BY Idle

LEMMA InnerEscaped ==
    ASSUME NEW c \in Tokens
    PROVE  Inner(<<Scan!Escape, c>>, c \notin Scan!Unescapable)
  BY Escaped DEF Inner

LEMMA InnerJoined ==
    ASSUME NEW x, NEW y, NEW p1, NEW p2, Inner(x, p1), Inner(y, p2), NEW p, p = (p1 /\ p2)
    PROVE  Inner(x \o y, p)
<1> SUFFICES ASSUME NEW d \in Nat, NEW n \in Nat
             PROVE  Reading(x \o y, TRUE, d, n, TRUE, d, n, d, d, p)
  BY DEF Inner
<1>1. Reading(x, TRUE, d, n, TRUE, d, n, d, d, p1) /\ Reading(y, TRUE, d, n, TRUE, d, n, d, d, p2)
  BY DEF Inner
<1>2. d <= d /\ d = IF d < d THEN d ELSE d
  OBVIOUS
<1> QED
  BY <1>1, <1>2, Joined

\* A text that counts for nothing as a value.
Flat(x, plain) == \A d, n \in Nat : Reading(x, FALSE, d, n, FALSE, d, n, d, d, plain)

LEMMA FlatReadable ==
    ASSUME NEW x, NEW plain \in BOOLEAN, Flat(x, plain)
    PROVE  Readable(Scan!Value(x, 0, 0, plain), 0)
<1> DEFINE v == Scan!Value(x, 0, 0, plain)
<1>1. v.text = x /\ v.depth = 0 /\ v.members = 0 /\ v.plain = plain
  BY DEF Scan!Value
<1> HIDE DEF v
<1>2. ASSUME NEW d \in Nat, NEW n \in Nat
      PROVE  Reading(v.text, FALSE, d, n, FALSE, d, n + v.members, d + v.depth, d + 0, v.plain)
  <2>1. n + v.members = n /\ d + v.depth = d /\ d + 0 = d
    BY <1>1
  <2>2. Reading(x, FALSE, d, n, FALSE, d, n, d, d, plain)
    BY DEF Flat
  <2> QED
    BY <1>1, <2>1, <2>2
<1>3. v.depth \in Nat /\ v.members \in Nat /\ v.plain \in BOOLEAN
  BY <1>1
<1>4. Readable(v, 0)
  BY <1>2, <1>3 DEF Readable
<1> QED
  BY <1>4 DEF v

LEMMA StringIsFlat ==
    ASSUME NEW x, NEW plain \in BOOLEAN, Inner(x, plain)
    PROVE  Flat(Scan!String(x), plain)
<1> SUFFICES ASSUME NEW d \in Nat, NEW n \in Nat
             PROVE  Reading(Scan!String(x), FALSE, d, n, FALSE, d, n, d, d, plain)
  BY DEF Flat
<1> DEFINE s == <<Scan!Quote>>
<1>1. Scan!Quote \in Tokens /\ d <= d /\ d = IF d < d THEN d ELSE d
  BY DEF Tokens
<1>2. s[1] = Scan!Quote /\ s[Len(s)] = Scan!Quote
      /\ Scan!Quote \notin Scan!Digits /\ Scan!Quote \notin Scan!Digits \cup {".", "e"}
  BY DEF Scan!Quote, Scan!Digits
<1>3. /\ Reading(s, FALSE, d, n, TRUE, d, n, d, d, TRUE)
      /\ Reading(s, TRUE, d, n, FALSE, d, n, d, d, TRUE)
  BY <1>1, Idle
<1> HIDE DEF s
<1>4. Reading(x, TRUE, d, n, TRUE, d, n, d, d, plain)
  BY DEF Inner
<1>5. Reading(s \o x, FALSE, d, n, TRUE, d, n, d, d, plain)
  <2>1. plain = (TRUE /\ plain)
    OBVIOUS
  <2> QED
    BY <1>1, <1>2, <1>3, <1>4, <2>1, Joined, ZenonT(60)
<1>6. Reading(s \o x \o s, FALSE, d, n, FALSE, d, n, d, d, plain)
  <2>1. plain = (plain /\ TRUE)
    OBVIOUS
  <2>2. Reading(s, TRUE, d, n, FALSE, d, n, d, d, TRUE)
    BY <1>3
  <2>3. d \in Nat /\ d <= d /\ (d = IF d < d THEN d ELSE d)
    BY <1>1
  <2> DEFINE a == s \o x
  <2>4. Reading(a, FALSE, d, n, TRUE, d, n, d, d, plain)
    BY <1>5
  <2> HIDE DEF a
  <2>5. Reading(a \o s, FALSE, d, n, FALSE, d, n, d, d, plain)
    BY <2>1, <2>2, <2>3, <2>4, Joined
  <2> QED
    BY <2>5 DEF a
<1> QED
  BY <1>6 DEF Scan!String, s

LEMMA EmptyIsFlat == Flat(Scan!String(<<>>), TRUE)
<1> SUFFICES ASSUME NEW d \in Nat, NEW n \in Nat
             PROVE  Reading(Scan!String(<<>>), FALSE, d, n, FALSE, d, n, d, d, TRUE)
  BY DEF Flat
<1> DEFINE s == <<Scan!Quote>>
<1>1. Scan!Quote \in Tokens /\ d <= d /\ d = IF d < d THEN d ELSE d
  BY DEF Tokens
<1>2. s[1] = Scan!Quote /\ Scan!Quote \notin Scan!Digits \cup {".", "e"}
  BY DEF Scan!Quote, Scan!Digits
<1>3. /\ Reading(s, FALSE, d, n, TRUE, d, n, d, d, TRUE)
      /\ Reading(s, TRUE, d, n, FALSE, d, n, d, d, TRUE)
  BY <1>1, Idle
<1>4. s \o <<>> = s
  OBVIOUS
<1> HIDE DEF s
<1>5. Reading(s \o s, FALSE, d, n, FALSE, d, n, d, d, TRUE)
  <2>1. TRUE = (TRUE /\ TRUE)
    OBVIOUS
  <2> QED
    BY <1>1, <1>3, <2>1, Joined
<1> QED
  BY <1>4, <1>5 DEF Scan!String, s

LEMMA Pairs ==
    ASSUME NEW a, NEW b
    PROVE  <<a>> \o <<b>> = <<a, b>>
<1> DEFINE S == {a, b}
           u == <<a>> \o <<b>>
           w == <<a, b>>
<1>1. u \in Seq(S) /\ Len(u) = 2 /\ u[1] = a /\ u[2] = b
  <2>1. <<a>> \in Seq(S) /\ <<b>> \in Seq(S)
    OBVIOUS
  <2> QED
    BY <2>1
<1>2. w \in Seq(S) /\ Len(w) = 2 /\ w[1] = a /\ w[2] = b
  OBVIOUS
<1> HIDE DEF u, w, S
<1>3. \A i \in 1 .. Len(u) : u[i] = w[i]
  BY <1>1, <1>2
<1>4. u = w
  BY <1>1, <1>2, <1>3, SeqEqual
<1> QED
  BY <1>4 DEF u, w

LEMMA Triples ==
    ASSUME NEW a, NEW b, NEW c
    PROVE  <<a, b>> \o <<c>> = <<a, b, c>>
<1> DEFINE S == {a, b, c}
           u == <<a, b>> \o <<c>>
           w == <<a, b, c>>
<1>1. u \in Seq(S) /\ Len(u) = 3 /\ u[1] = a /\ u[2] = b /\ u[3] = c
  <2>1. <<a, b>> \in Seq(S) /\ <<c>> \in Seq(S)
    OBVIOUS
  <2> QED
    BY <2>1
<1>2. w \in Seq(S) /\ Len(w) = 3 /\ w[1] = a /\ w[2] = b /\ w[3] = c
  OBVIOUS
<1> HIDE DEF u, w, S
<1>3. \A i \in 1 .. Len(u) : u[i] = w[i]
  BY <1>1, <1>2
<1>4. u = w
  BY <1>1, <1>2, <1>3, SeqEqual
<1> QED
  BY <1>4 DEF u, w

\* The strings that are tried.
LEMMA StringsAreFlat ==
    /\ \A s \in {<<>>, <<"{", ":">>, <<"1", ".">>, <<"high">>, <<Scan!Escape, Scan!Quote, ",">>,
                 <<Scan!Escape, Scan!Escape>>, <<Scan!Escape, Scan!Escape, "u0000">>} :
          Flat(Scan!String(s), TRUE)
    /\ \A c \in Scan!Unescapable : Flat(Scan!String(<<Scan!Escape, c>>), FALSE)
    /\ \A key \in Scan!Keys : Flat(key, TRUE)
<1>1. /\ Inner(<<"{">>, TRUE) /\ Inner(<<":">>, TRUE) /\ Inner(<<"1">>, TRUE)
      /\ Inner(<<".">>, TRUE) /\ Inner(<<"high">>, TRUE) /\ Inner(<<",">>, TRUE)
      /\ Inner(<<"u0000">>, TRUE) /\ Inner(<<"a">>, TRUE)
  <2>1. ASSUME NEW c \in {"{", ":", "1", ".", "high", ",", "u0000", "a"}
        PROVE  c \in Tokens \ {Scan!Escape, Scan!Quote}
    BY DEF Tokens, Scan!Escape, Scan!Quote
  <2> QED
    BY <2>1, InnerLetter
<1>2. /\ Inner(<<Scan!Escape, Scan!Quote>>, TRUE) /\ Inner(<<Scan!Escape, Scan!Escape>>, TRUE)
      /\ \A c \in Scan!Unescapable : Inner(<<Scan!Escape, c>>, FALSE)
  <2>1. ASSUME NEW c \in Tokens, NEW p, p = (c \notin Scan!Unescapable)
        PROVE  Inner(<<Scan!Escape, c>>, p)
    BY <2>1, InnerEscaped
  <2>2. /\ Scan!Quote \in Tokens /\ Scan!Escape \in Tokens /\ Scan!Unescapable \subseteq Tokens
        /\ TRUE = (Scan!Quote \notin Scan!Unescapable)
        /\ TRUE = (Scan!Escape \notin Scan!Unescapable)
        /\ \A c \in Scan!Unescapable : FALSE = (c \notin Scan!Unescapable)
    BY DEF Tokens, Scan!Escape, Scan!Quote, Scan!Unescapable
  <2> QED
    BY <2>1, <2>2
<1>3. ASSUME NEW x, NEW y, Inner(x, TRUE), Inner(y, TRUE)
      PROVE  Inner(x \o y, TRUE)
  BY <1>3, InnerJoined
<1>4. Inner(<<"{", ":">>, TRUE)
  BY <1>1, <1>3, Pairs
<1>5. Inner(<<"1", ".">>, TRUE)
  BY <1>1, <1>3, Pairs
<1>6. Inner(<<Scan!Escape, Scan!Quote, ",">>, TRUE)
  BY <1>1, <1>2, <1>3, Triples
<1>7. Inner(<<Scan!Escape, Scan!Escape, "u0000">>, TRUE)
  BY <1>1, <1>2, <1>3, Triples
<1>8. \A key \in Scan!Keys : Flat(key, TRUE)
  BY <1>1, <1>2, StringIsFlat DEF Scan!Keys
<1>9. \A c \in Scan!Unescapable : Flat(Scan!String(<<Scan!Escape, c>>), FALSE)
  BY <1>2, StringIsFlat
<1>10. /\ Flat(Scan!String(<<"{", ":">>), TRUE) /\ Flat(Scan!String(<<"1", ".">>), TRUE)
       /\ Flat(Scan!String(<<"high">>), TRUE)
       /\ Flat(Scan!String(<<Scan!Escape, Scan!Quote, ",">>), TRUE)
       /\ Flat(Scan!String(<<Scan!Escape, Scan!Escape>>), TRUE)
       /\ Flat(Scan!String(<<Scan!Escape, Scan!Escape, "u0000">>), TRUE)
  BY <1>1, <1>2, <1>4, <1>5, <1>6, <1>7, StringIsFlat
<1> QED
  BY <1>8, <1>9, <1>10, EmptyIsFlat

LEMMA IntegerIsFlat ==
    ASSUME NEW t \in Wordings, NEW f \in Nat, f <= Len(t),
           (t[1] = "-" /\ f = 2) \/ (t[1] \in Scan!Digits /\ f = 1),
           \A k \in f .. Len(t) : t[k] \in Scan!Digits, t[f] = "0" => f = Len(t)
    PROVE  Flat(t, TRUE)
<1>1. First(t, 1) = f /\ t[1] \in Scan!Digits \cup {"-"}
  BY DEF First, Scan!Digits
<1>2. Len(t) \in Int /\ Len(t) <= Len(t)
  BY WordingIs
<1>3. Numeral(t, 1, Len(t)) /\ NoZeros(t, 1, Len(t))
  BY <1>1, <1>2 DEF Numeral, NoZeros
<1> SUFFICES ASSUME NEW d \in Nat, NEW n \in Nat
             PROVE  Reading(t, FALSE, d, n, FALSE, d, n, d, d, TRUE)
  BY DEF Flat
<1> QED
  BY <1>1, <1>3, Numbers

LEMMA RealIsFlat ==
    ASSUME NEW t \in Wordings, NEW f \in Nat, f < Len(t),
           (t[1] = "-" /\ f = 2) \/ (t[1] \in Scan!Digits /\ f = 1),
           t[f] \in Scan!Digits, t[f + 1] \in {".", "e"}
    PROVE  Flat(t, FALSE)
<1>1. First(t, 1) = f /\ t[1] \in Scan!Digits \cup {"-"} /\ 1 <= f
  BY DEF First, Scan!Digits
<1>2. Len(t) \in Nat
  BY WordingIs
<1>3. t[f + 1] \notin Scan!Digits
  BY DEF Scan!Digits
<1>4. f \in Int /\ f <= f /\ f <= Len(t) /\ \A k \in f .. f : k = f
  BY <1>2
<1>5. Numeral(t, 1, f) /\ NoZeros(t, 1, f)
  BY <1>1, <1>3, <1>4 DEF Numeral, NoZeros
<1> SUFFICES ASSUME NEW d \in Nat, NEW n \in Nat
             PROVE  Reading(t, FALSE, d, n, FALSE, d, n, d, d, FALSE)
  BY DEF Flat
<1> QED
  BY <1>1, <1>5, Numbers

LEMMA WordIsFlat == Flat(<<"a", "e">>, TRUE)
<1> SUFFICES ASSUME NEW d \in Nat, NEW n \in Nat
             PROVE  Reading(<<"a", "e">>, FALSE, d, n, FALSE, d, n, d, d, TRUE)
  BY DEF Flat
<1> DEFINE s == <<"a">>
           t == <<"e">>
<1>1. "a" \in Tokens /\ "e" \in Tokens
  BY DEF Tokens
<1>2. Reading(s, FALSE, d, n, FALSE, d, n, d, d, TRUE)
  BY <1>1, Idle
<1>3. Reading(t, FALSE, d, n, FALSE, d, n, d, d, TRUE)
  BY <1>1, Idle
<1>4. Apart(s, t)
  BY DEF Scan!Digits, Apart
<1>5. d <= d /\ d = IF d < d THEN d ELSE d
  OBVIOUS
<1>6. s \o t = <<"a", "e">>
  BY Pairs
<1> HIDE DEF s, t
<1>7. Reading(s \o t, FALSE, d, n, FALSE, d, n, d, d, TRUE)
  <2>1. TRUE = (TRUE /\ TRUE)
    OBVIOUS
  <2> QED
    BY <1>2, <1>3, <1>4, <1>5, <2>1, Joined
<1> QED
  BY <1>6, <1>7

LEMMA NumbersAreFlat ==
    /\ \A t \in {<<"1">>, <<"0">>, <<"-", "0">>, <<"1", "0">>} : Flat(t, TRUE)
    /\ \A t \in {<<"1", ".", "1">>, <<"0", "e", "1">>, <<"-", "1", ".", "0">>} : Flat(t, FALSE)
<1>1. "1" \in Scan!Digits /\ "0" \in Scan!Digits /\ "1" # "0"
  BY DEF Scan!Digits
<1>2. "1" \in Tokens /\ "0" \in Tokens /\ "-" \in Tokens /\ "." \in Tokens /\ "e" \in Tokens
  BY DEF Tokens
<1>3. Flat(<<"1">>, TRUE)
  <2> DEFINE f == 1
             t == <<"1">>
  <2>1. t \in Wordings /\ Len(t) = 1 /\ t[1] = "1"
    BY <1>2 DEF Wordings
  <2> HIDE DEF t
  <2>2. /\ f \in Nat /\ f <= Len(t)
        /\ (t[1] = "-" /\ f = 2) \/ (t[1] \in Scan!Digits /\ f = 1)
        /\ \A k \in f .. Len(t) : t[k] \in Scan!Digits
        /\ t[f] = "0" => f = Len(t)
    BY <1>1, <2>1
  <2> HIDE DEF f
  <2>3. Flat(t, TRUE)
    BY <2>1, <2>2, IntegerIsFlat
  <2> QED
    BY <2>3 DEF t
<1>4. Flat(<<"0">>, TRUE)
  <2> DEFINE f == 1
             t == <<"0">>
  <2>1. t \in Wordings /\ Len(t) = 1 /\ t[1] = "0"
    BY <1>2 DEF Wordings
  <2> HIDE DEF t
  <2>2. /\ f \in Nat /\ f <= Len(t)
        /\ (t[1] = "-" /\ f = 2) \/ (t[1] \in Scan!Digits /\ f = 1)
        /\ \A k \in f .. Len(t) : t[k] \in Scan!Digits
        /\ t[f] = "0" => f = Len(t)
    BY <1>1, <2>1
  <2> HIDE DEF f
  <2>3. Flat(t, TRUE)
    BY <2>1, <2>2, IntegerIsFlat
  <2> QED
    BY <2>3 DEF t
<1>5. Flat(<<"-", "0">>, TRUE)
  <2> DEFINE f == 2
             t == <<"-", "0">>
  <2>1. t \in Wordings /\ Len(t) = 2 /\ t[1] = "-" /\ t[2] = "0"
    BY <1>2 DEF Wordings
  <2> HIDE DEF t
  <2>2. /\ f \in Nat /\ f <= Len(t)
        /\ (t[1] = "-" /\ f = 2) \/ (t[1] \in Scan!Digits /\ f = 1)
        /\ \A k \in f .. Len(t) : t[k] \in Scan!Digits
        /\ t[f] = "0" => f = Len(t)
    BY <1>1, <2>1
  <2> HIDE DEF f
  <2>3. Flat(t, TRUE)
    BY <2>1, <2>2, IntegerIsFlat
  <2> QED
    BY <2>3 DEF t
<1>6. Flat(<<"1", "0">>, TRUE)
  <2> DEFINE f == 1
             t == <<"1", "0">>
  <2>1. t \in Wordings /\ Len(t) = 2 /\ t[1] = "1" /\ t[2] = "0"
    BY <1>2 DEF Wordings
  <2> HIDE DEF t
  <2>2. /\ f \in Nat /\ f <= Len(t)
        /\ (t[1] = "-" /\ f = 2) \/ (t[1] \in Scan!Digits /\ f = 1)
        /\ t[f] = "0" => f = Len(t)
    BY <1>1, <2>1
  <2>3. ASSUME NEW k \in f .. Len(t) PROVE t[k] \in Scan!Digits
    <3>1. k = 1 \/ k = 2
      BY <2>1
    <3> QED
      BY <1>1, <2>1, <3>1
  <2> HIDE DEF f
  <2>4. Flat(t, TRUE)
    BY <2>1, <2>2, <2>3, IntegerIsFlat
  <2> QED
    BY <2>4 DEF t
<1>7. Flat(<<"1", ".", "1">>, FALSE)
  <2> DEFINE f == 1
             t == <<"1", ".", "1">>
  <2>1. t \in Wordings /\ Len(t) = 3 /\ t[1] = "1" /\ t[f + 1] = "."
    BY <1>2 DEF Wordings
  <2> HIDE DEF t
  <2>2. /\ f \in Nat /\ f < Len(t) /\ t[f] \in Scan!Digits /\ t[f + 1] \in {".", "e"}
        /\ (t[1] = "-" /\ f = 2) \/ (t[1] \in Scan!Digits /\ f = 1)
    BY <1>1, <2>1
  <2> HIDE DEF f
  <2>3. Flat(t, FALSE)
    BY <2>1, <2>2, RealIsFlat
  <2> QED
    BY <2>3 DEF t
<1>8. Flat(<<"0", "e", "1">>, FALSE)
  <2> DEFINE f == 1
             t == <<"0", "e", "1">>
  <2>1. t \in Wordings /\ Len(t) = 3 /\ t[1] = "0" /\ t[f + 1] = "e"
    BY <1>2 DEF Wordings
  <2> HIDE DEF t
  <2>2. /\ f \in Nat /\ f < Len(t) /\ t[f] \in Scan!Digits /\ t[f + 1] \in {".", "e"}
        /\ (t[1] = "-" /\ f = 2) \/ (t[1] \in Scan!Digits /\ f = 1)
    BY <1>1, <2>1
  <2> HIDE DEF f
  <2>3. Flat(t, FALSE)
    BY <2>1, <2>2, RealIsFlat
  <2> QED
    BY <2>3 DEF t
<1>9. Flat(<<"-", "1", ".", "0">>, FALSE)
  <2> DEFINE f == 2
             t == <<"-", "1", ".", "0">>
  <2>1. t \in Wordings /\ Len(t) = 4 /\ t[1] = "-" /\ t[2] = "1" /\ t[f + 1] = "."
    BY <1>2 DEF Wordings
  <2> HIDE DEF t
  <2>2. /\ f \in Nat /\ f < Len(t) /\ t[f] \in Scan!Digits /\ t[f + 1] \in {".", "e"}
        /\ (t[1] = "-" /\ f = 2) \/ (t[1] \in Scan!Digits /\ f = 1)
    BY <1>1, <2>1
  <2> HIDE DEF f
  <2>3. Flat(t, FALSE)
    BY <2>1, <2>2, RealIsFlat
  <2> QED
    BY <2>3 DEF t
<1> QED
  BY <1>3, <1>4, <1>5, <1>6, <1>7, <1>8, <1>9

LEMMA ScalarsAreReadable == \A v \in Scan!Scalars : Readable(v, 0)
<1> SUFFICES ASSUME NEW v \in Scan!Scalars PROVE Readable(v, 0)
  OBVIOUS
<1>1. \E x : \E plain \in BOOLEAN : v = Scan!Value(x, 0, 0, plain) /\ Flat(x, plain)
  <2>1. CASE \E t \in {<<"1">>, <<"0">>, <<"-", "0">>, <<"1", "0">>, <<"a", "e">>} :
                v = Scan!Value(t, 0, 0, TRUE)
    BY <2>1, NumbersAreFlat, WordIsFlat
  <2>2. CASE \E t \in {<<"1", ".", "1">>, <<"0", "e", "1">>, <<"-", "1", ".", "0">>} :
                v = Scan!Value(t, 0, 0, FALSE)
    BY <2>2, NumbersAreFlat
  <2>3. CASE \E t \in {<<>>, <<"{", ":">>, <<"1", ".">>, <<"high">>,
                       <<Scan!Escape, Scan!Quote, ",">>, <<Scan!Escape, Scan!Escape>>,
                       <<Scan!Escape, Scan!Escape, "u0000">>} :
                v = Scan!Value(Scan!String(t), 0, 0, TRUE)
    BY <2>3, StringsAreFlat
  <2>4. CASE \E c \in Scan!Unescapable : v = Scan!Value(Scan!String(<<Scan!Escape, c>>), 0, 0, FALSE)
    BY <2>4, StringsAreFlat
  <2> DEFINE A == {<<"1">>, <<"0">>, <<"-", "0">>, <<"1", "0">>, <<"a", "e">>}
             B == {<<"1", ".", "1">>, <<"0", "e", "1">>, <<"-", "1", ".", "0">>}
             C == {<<>>, <<"{", ":">>, <<"1", ".">>, <<"high">>,
                   <<Scan!Escape, Scan!Quote, ",">>, <<Scan!Escape, Scan!Escape>>,
                   <<Scan!Escape, Scan!Escape, "u0000">>}
  <2>5. Scan!Scalars =
            {Scan!Value(t, 0, 0, TRUE) : t \in A} \cup {Scan!Value(t, 0, 0, FALSE) : t \in B}
            \cup {Scan!Value(Scan!String(t), 0, 0, TRUE) : t \in C}
            \cup {Scan!Value(Scan!String(<<Scan!Escape, c>>), 0, 0, FALSE) : c \in Scan!Unescapable}
    BY DEF Scan!Scalars
  <2> HIDE DEF A, B, C
  <2>6. \/ \E t \in A : v = Scan!Value(t, 0, 0, TRUE)
        \/ \E t \in B : v = Scan!Value(t, 0, 0, FALSE)
        \/ \E t \in C : v = Scan!Value(Scan!String(t), 0, 0, TRUE)
        \/ \E c \in Scan!Unescapable : v = Scan!Value(Scan!String(<<Scan!Escape, c>>), 0, 0, FALSE)
    BY <2>5
  <2> QED
    BY <2>1, <2>2, <2>3, <2>4, <2>6 DEF A, B, C
<1> QED
  BY <1>1, FlatReadable

-----------------------------------------------------------------------------
(* Containers.  What stands in one is read one level deeper than its bracket.  *)

\* The beginning of a container: m separators, nested h deep.
Opened(s, m, h, plain) ==
    /\ m \in Nat /\ h \in Nat /\ 0 < h /\ plain \in BOOLEAN
    /\ s \in Wordings /\ Opens(s[1], FALSE)
    /\ \A d, n \in Nat : Reading(s, FALSE, d, n, FALSE, d + 1, n + m, d + h, d + 1, plain)

\* A whole container.
Bracketed(v) == Readable(v, 1) /\ v.text \in Wordings /\ Opens(v.text[1], FALSE)

\* What each of these bytes is not.
LEMMA StructureIs ==
    ASSUME NEW c, Opens(c, FALSE) \/ Closes(c, FALSE) \/ Separates(c, FALSE)
    PROVE  c \in Tokens /\ c \notin Scan!Digits \cup {".", "e"} /\ c \notin Scan!Digits
  BY Zenon DEF Opens, Closes, Separates, Tokens, Scan!Digits

LEMMA BracketsAre ==
    /\ Opens("{", FALSE) /\ Opens("[", FALSE) /\ Closes("}", FALSE) /\ Closes("]", FALSE)
    /\ Separates(":", FALSE) /\ Separates(",", FALSE)
  BY Zenon DEF Opens, Closes, Separates

\* What stays above a floor stays above a lower one.
LEMMA Lowered ==
    ASSUME NEW t, NEW q, NEW d, NEW n, NEW q1, NEW d1, NEW n1, NEW top, NEW floor1, NEW plain,
           Reading(t, q, d, n, q1, d1, n1, top, floor1, plain),
           NEW floor \in Nat, floor <= floor1
    PROVE  Reading(t, q, d, n, q1, d1, n1, top, floor, plain)
<1>1. floor1 \in Nat
  BY DEF Reading
<1>2. PICK R : Tracks(R, t, q, d, n, q1, d1, n1, top, floor1, plain)
  BY DEF Reading
<1>3. ASSUME NEW r \in R, r[1] <= Len(t)
      PROVE  Within(t, r, n1, top, floor) /\ Goes(R, t, r, plain)
  <2>1. Within(t, r, n1, top, floor1) /\ Goes(R, t, r, plain)
    BY <1>2, <1>3 DEF Tracks
  <2>2. r \in Places
    BY <1>2 DEF Tracks, Between
  <2>3. r[3] \in Nat
    BY <2>2, BehindIs
  <2>4. floor1 <= r[3] => floor <= r[3]
    BY <1>1, <2>3
  <2> QED
    BY <2>1, <2>4 DEF Within
<1>4. Tracks(R, t, q, d, n, q1, d1, n1, top, floor, plain)
  BY <1>2, <1>3 DEF Tracks
<1> QED
  BY <1>4 DEF Reading

LEMMA LastIs ==
    ASSUME NEW s \in Wordings, NEW c \in Tokens
    PROVE  (s \o <<c>>)[Len(s \o <<c>>)] = c
<1> DEFINE t == <<c>>
<1>1. t \in Wordings /\ Len(t) = 1 /\ t[1] = c
  BY DEF Wordings
<1> HIDE DEF t
<1>2. Len(s \o t) = Len(s) + Len(t) /\ \A i \in 1 .. Len(t) : (s \o t)[i + Len(s)] = t[i]
  BY <1>1, JoinedIs
<1>4. Len(s) \in Nat /\ 1 \in 1 .. Len(t)
  BY <1>1, WordingIs
<1>5. (s \o t)[1 + Len(s)] = t[1]
  BY <1>2, <1>4
<1>3. (s \o t)[Len(s \o t)] = c
  BY <1>1, <1>2, <1>4, <1>5
<1> QED
  BY <1>3 DEF t

LEMMA OpenedBracket ==
    ASSUME NEW c, Opens(c, FALSE)
    PROVE  Opened(<<c>>, 0, 1, TRUE)
<1> DEFINE s == <<c>>
           m == 0
           h == 1
           p == TRUE
<1>1. c \in Tokens
  BY StructureIs
<1>2. s \in Wordings /\ s[1] = c
  BY <1>1 DEF Wordings
<1>3. m \in Nat /\ h \in Nat /\ 0 < h /\ p \in BOOLEAN /\ p = TRUE /\ h = 1 /\ m = 0
  OBVIOUS
<1>4. ASSUME NEW d \in Nat, NEW n \in Nat
      PROVE  Reading(s, FALSE, d, n, FALSE, d + 1, n, d + 1, d + 1, TRUE)
  <2>1. d + 1 \in Nat
    OBVIOUS
  <2> QED
    BY <2>1, Opening
<1> HIDE DEF s, m, h, p
<1>5. ASSUME NEW d \in Nat, NEW n \in Nat
      PROVE  Reading(s, FALSE, d, n, FALSE, d + 1, n + m, d + h, d + 1, p)
  <2>1. n + m = n /\ d + h = d + 1
    BY <1>3
  <2> QED
    BY <1>3, <1>4, <2>1
<1>6. Opened(s, m, h, p)
  BY <1>2, <1>3, <1>5 DEF Opened
<1> QED
  BY <1>6 DEF s, m, h, p

\* A stretch that leaves the nesting as it was.
Steady(t, m, h, floor, plain) ==
    \A d, n \in Nat : Reading(t, FALSE, d, n, FALSE, d, n + m, d + h, d + floor, plain)

\* One more stretch behind the beginning of a container.
LEMMA OpenedJoined ==
    ASSUME NEW s, NEW m, NEW h, NEW p, Opened(s, m, h, p),
           NEW t \in Wordings, NEW m1 \in Nat, NEW h1 \in Nat, NEW p1 \in BOOLEAN,
           Apart(s, t),
           NEW floor \in Nat,
           Steady(t, m1, h1, floor, p1),
           NEW m2, m2 = m + m1, NEW h2, h2 = IF h < h1 + 1 THEN h1 + 1 ELSE h,
           NEW p2, p2 = (p /\ p1)
    PROVE  Opened(s \o t, m2, h2, p2)
<1>1. m2 \in Nat /\ h2 \in Nat /\ 0 < h2
  BY DEF Opened
<1>2. p2 \in BOOLEAN
  BY Zenon DEF Opened
<1>3. s \o t \in Wordings /\ (s \o t)[1] = s[1]
  <2>1. s \in Wordings /\ 1 \in 1 .. Len(s)
    BY WordingIs DEF Opened
  <2> QED
    BY <2>1, JoinedIs
<1>4. ASSUME NEW d \in Nat, NEW n \in Nat
      PROVE  Reading(s \o t, FALSE, d, n, FALSE, d + 1, n + m2, d + h2, d + 1, p2)
  <2> DEFINE d1 == d + 1
             n1 == n + m
             n2 == n1 + m1
             top1 == d + h
             top2 == d1 + h1
             floor2 == d1 + floor
             top == d + h2
  <2>1. Reading(s, FALSE, d, n, FALSE, d1, n1, top1, d1, p)
    BY DEF Opened
  <2>2. d1 \in Nat /\ n1 \in Nat
    BY DEF Opened
  <2>3. n2 = n + m2 /\ top = (IF top1 < top2 THEN top2 ELSE top1) /\ d1 <= d1 /\ d1 <= floor2
    BY DEF Opened
  <2> HIDE DEF d1, n1
  <2>4. Reading(t, FALSE, d1, n1, FALSE, d1, n2, top2, floor2, p1)
    BY <2>2 DEF Steady
  <2> HIDE DEF n2, top1, top2, floor2, top
  <2>7. d1 \in Nat /\ d1 <= d1
    BY <2>2
  <2>9. Reading(t, FALSE, d1, n1, FALSE, d1, n2, top2, d1, p1)
    BY <2>3, <2>4, <2>7, Lowered
  <2>8. top = IF top1 < top2 THEN top2 ELSE top1
    BY <2>3
  <2>5. Reading(s \o t, FALSE, d, n, FALSE, d1, n2, top, d1, p2)
    BY <2>1, <2>7, <2>8, <2>9, Joined, ZenonT(60)
  <2> QED
    BY <2>3, <2>5 DEF d1, top
<1> QED
  BY <1>1, <1>2, <1>3, <1>4 DEF Opened

LEMMA OpenedSeparated ==
    ASSUME NEW s, NEW m, NEW h, NEW p, Opened(s, m, h, p), NEW c, Separates(c, FALSE),
           NEW m1, m1 = m + 1
    PROVE  Opened(s \o <<c>>, m1, h, p) /\ (s \o <<c>>)[Len(s \o <<c>>)] \notin Scan!Digits
<1> DEFINE t == <<c>>
<1>2. c \in Tokens /\ c \notin Scan!Digits \cup {".", "e"} /\ c \notin Scan!Digits
  BY StructureIs
<1>1. t \in Wordings /\ t[1] = c
  BY <1>2 DEF Wordings
<1>3. ASSUME NEW d \in Nat, NEW n \in Nat
      PROVE  Reading(t, FALSE, d, n, FALSE, d, n + 1, d + 0, d + 0, TRUE)
  <2>1. d + 0 = d
    OBVIOUS
  <2> QED
    BY <2>1, Separating
<1>8. m \in Nat /\ h \in Nat /\ 0 < h /\ s \in Wordings
  BY DEF Opened
<1>4. m + 1 \in Nat /\ h = (IF h < 0 + 1 THEN 0 + 1 ELSE h)
  BY <1>8
<1>5. p = (p /\ TRUE)
  BY Zenon DEF Opened
<1>6. Apart(s, t)
  BY <1>1, <1>2 DEF Apart
<1> HIDE DEF t
<1>9. Steady(t, 1, 0, 0, TRUE)
  BY <1>3 DEF Steady
<1>7. Opened(s \o t, m1, h, p)
  BY <1>1, <1>9, <1>4, <1>5, <1>6, OpenedJoined
<1> QED
  BY <1>2, <1>7, <1>8, LastIs DEF t

LEMMA OpenedFilled ==
    ASSUME NEW s, NEW m, NEW h, NEW p, Opened(s, m, h, p), s[Len(s)] \notin Scan!Digits,
           NEW v, NEW k \in Nat, Readable(v, k),
           NEW h2, h2 = IF h < v.depth + 1 THEN v.depth + 1 ELSE h,
           NEW p2, p2 = (p /\ v.plain)
    PROVE  Opened(s \o v.text, m + v.members, h2, p2)
<1>1. v.depth \in Nat /\ v.members \in Nat /\ v.plain \in BOOLEAN
  BY DEF Readable
<1>2. \A d, n \in Nat :
         Reading(v.text, FALSE, d, n, FALSE, d, n + v.members, d + v.depth, d + k, v.plain)
  BY DEF Readable
<1>3. v.text \in Wordings
  BY <1>2 DEF Reading
<1> DEFINE x == v.text
           m1 == v.members
           h1 == v.depth
           p1 == v.plain
           m2 == m + m1
<1>4. /\ x \in Wordings /\ m1 \in Nat /\ h1 \in Nat /\ p1 \in BOOLEAN
      /\ h2 = (IF h < h1 + 1 THEN h1 + 1 ELSE h) /\ m2 = m + m1 /\ p2 = (p /\ p1)
  BY <1>1, <1>3
<1>5. Steady(x, m1, h1, k, p1)
  BY <1>2 DEF Steady
<1>7. Apart(s, x)
  BY DEF Apart
<1> HIDE DEF x, m1, h1, p1, m2
<1>6. Opened(s \o x, m2, h2, p2)
  BY <1>4, <1>5, <1>7, OpenedJoined
<1> QED
  BY <1>6 DEF x, m1, m2

LEMMA Closed ==
    ASSUME NEW s, NEW m, NEW h, NEW p, Opened(s, m, h, p), NEW c, Closes(c, FALSE)
    PROVE  Bracketed(Scan!Value(s \o <<c>>, h, m, p))
<1> DEFINE t == <<c>>
           v == Scan!Value(s \o t, h, m, p)
<1> HIDE DEF v
<1>7. c \in Tokens
  BY StructureIs
<1>1. t \in Wordings /\ t[1] = c
  BY <1>7 DEF Wordings
<1>2. Apart(s, t)
  BY <1>1, StructureIs DEF Apart
<1>3. s \o t \in Wordings /\ (s \o t)[1] = s[1] /\ Opens(s[1], FALSE)
  <2>1. s \in Wordings /\ 1 \in 1 .. Len(s)
    BY WordingIs DEF Opened
  <2> HIDE DEF t
  <2> QED
    BY <1>1, <2>1, JoinedIs DEF Opened
<1>4. ASSUME NEW d \in Nat, NEW n \in Nat
      PROVE  Reading(s \o t, FALSE, d, n, FALSE, d, n + m, d + h, d + 1, p)
  <2> DEFINE d1 == d + 1
             n1 == n + m
             top == d + h
  <2>1. Reading(s, FALSE, d, n, FALSE, d1, n1, top, d1, p)
    BY DEF Opened
  <2>2. d1 \in Nat /\ n1 \in Nat /\ d1 <= d1 /\ top = (IF top < d1 THEN d1 ELSE top)
    BY DEF Opened
  <2>3. Reading(t, FALSE, d1, n1, FALSE, d, n1, d1, d1, TRUE)
    BY <2>2, Closing
  <2>4. p = (p /\ TRUE)
    BY Zenon DEF Opened
  <2> HIDE DEF d1, n1, top, t
  <2>5. Reading(s \o t, FALSE, d, n, FALSE, d, n1, top, d1, p)
    BY <1>2, <2>1, <2>2, <2>3, <2>4, Joined
  <2> QED
    BY <2>5 DEF d1, n1, top
<1>5. v.text = s \o t /\ v.depth = h /\ v.members = m /\ v.plain = p
  BY DEF Scan!Value, v
<1> HIDE DEF t
<1>6. Readable(v, 1)
  BY <1>4, <1>5 DEF Readable, Opened
<1>8. Bracketed(v)
  BY <1>3, <1>5, <1>6 DEF Bracketed
<1> QED
  BY <1>8 DEF v, t

LEMMA BracketLast ==
    ASSUME NEW c, Opens(c, FALSE)
    PROVE  <<c>>[Len(<<c>>)] \notin Scan!Digits
  BY StructureIs

LEMMA NoItemIs == Bracketed(Scan!NoItem)
<1>1. Opened(<<"[">>, 0, 1, TRUE)
  BY OpenedBracket, BracketsAre
<1>2. Bracketed(Scan!Value(<<"[">> \o <<"]">>, 1, 0, TRUE))
  BY <1>1, Closed, BracketsAre
<1>3. <<"[">> \o <<"]">> = <<"[", "]">>
  BY Pairs
<1> QED
  BY <1>2, <1>3 DEF Scan!NoItem

LEMMA OneItemIs ==
    ASSUME NEW v, NEW k \in Nat, Readable(v, k)
    PROVE  Bracketed(Scan!OneItem(v))
<1> DEFINE s == <<"[">>
           h == v.depth + 1
<1>1. Opened(s, 0, 1, TRUE) /\ s[Len(s)] \notin Scan!Digits
  BY OpenedBracket, BracketLast, BracketsAre
<1>2. h = (IF 1 < v.depth + 1 THEN v.depth + 1 ELSE 1) /\ 0 + v.members = v.members
  BY DEF Readable
<1>3. v.plain = (TRUE /\ v.plain)
  BY Zenon DEF Readable
<1> HIDE DEF s, h
<1>4. Opened(s \o v.text, 0 + v.members, h, v.plain)
  BY <1>1, <1>2, <1>3, OpenedFilled
<1>5. Opened(s \o v.text, v.members, h, v.plain)
  BY <1>2, <1>4
<1>6. Bracketed(Scan!Value(s \o v.text \o <<"]">>, h, v.members, v.plain))
  BY <1>5, Closed, BracketsAre
<1> QED
  BY <1>6 DEF s, h, Scan!OneItem

LEMMA TwoItemsIs ==
    ASSUME NEW v, NEW w, NEW k \in Nat, Readable(v, k), Readable(w, k)
    PROVE  Bracketed(Scan!TwoItems(v, w))
<1> DEFINE s == <<"[">>
           h == v.depth + 1
           s1 == s \o v.text
           s2 == s1 \o <<",">>
           s3 == s2 \o w.text
           h3 == (IF v.depth > w.depth THEN v.depth ELSE w.depth) + 1
           m2 == v.members + 1
           m3 == v.members + w.members + 1
           p == v.plain /\ w.plain
<1>1. Opened(s, 0, 1, TRUE) /\ s[Len(s)] \notin Scan!Digits
  BY OpenedBracket, BracketLast, BracketsAre
<1>2. /\ v.depth \in Nat /\ w.depth \in Nat /\ v.members \in Nat /\ w.members \in Nat
      /\ v.plain \in BOOLEAN /\ w.plain \in BOOLEAN
  BY DEF Readable
<1>3. h = (IF 1 < v.depth + 1 THEN v.depth + 1 ELSE 1) /\ 0 + v.members = v.members
  BY <1>2
<1>4. v.plain = (TRUE /\ v.plain)
  BY <1>2, Zenon
<1>5. h3 = (IF h < w.depth + 1 THEN w.depth + 1 ELSE h) /\ m2 + w.members = m3
  BY <1>2
<1>6. p = (v.plain /\ w.plain)
  OBVIOUS
<1> HIDE DEF s, h, h3, p
<1>7. Opened(s1, 0 + v.members, h, v.plain)
  BY <1>1, <1>3, <1>4, OpenedFilled
<1>8. Opened(s1, v.members, h, v.plain)
  BY <1>3, <1>7
<1> HIDE DEF s1
<1>13. m2 = v.members + 1
  OBVIOUS
<1>9. Opened(s2, m2, h, v.plain) /\ s2[Len(s2)] \notin Scan!Digits
  BY <1>8, <1>13, OpenedSeparated, BracketsAre
<1> HIDE DEF s2, m2
<1>10. Opened(s3, m2 + w.members, h3, p)
  BY <1>5, <1>6, <1>9, OpenedFilled
<1> HIDE DEF s3, m3
<1>11. Opened(s3, m3, h3, p)
  BY <1>5, <1>10
<1>12. Bracketed(Scan!Value(s3 \o <<"]">>, h3, m3, p))
  BY <1>11, Closed, BracketsAre
<1> QED
  BY <1>12 DEF s, h, s1, s2, s3, h3, m3, p, Scan!TwoItems

LEMMA ObjectIs ==
    ASSUME NEW key \in Scan!Keys, NEW v, NEW k \in Nat, Readable(v, k)
    PROVE  Bracketed(Scan!Object(key, v))
<1> DEFINE s == <<"{">>
           name == Scan!Value(key, 0, 0, TRUE)
           s1 == s \o name.text
           s2 == s1 \o <<":">>
           s3 == s2 \o v.text
           h == v.depth + 1
           m == v.members + 1
<1>1. Opened(s, 0, 1, TRUE) /\ s[Len(s)] \notin Scan!Digits
  BY OpenedBracket, BracketLast, BracketsAre
<1>2. Readable(name, 0)
  BY StringsAreFlat, FlatReadable
<1>3. name.text = key /\ name.depth = 0 /\ name.members = 0 /\ name.plain = TRUE
  BY DEF Scan!Value
<1> HIDE DEF s, h, s1, s2, s3, name
<1>4. v.depth \in Nat /\ v.members \in Nat /\ v.plain \in BOOLEAN
  BY DEF Readable
<1>5. 1 = (IF 1 < name.depth + 1 THEN name.depth + 1 ELSE 1) /\ 0 + name.members = 0
  BY <1>3
<1>14. TRUE = (TRUE /\ name.plain)
  BY <1>3
<1>6. h = (IF 1 < v.depth + 1 THEN v.depth + 1 ELSE 1) /\ 1 + v.members = m
  BY <1>4 DEF h
<1>7. v.plain = (TRUE /\ v.plain)
  BY <1>4, Zenon
<1>8. Opened(s1, 0 + name.members, 1, TRUE)
  BY <1>1, <1>2, <1>5, <1>14, OpenedFilled DEF s1
<1>9. Opened(s1, 0, 1, TRUE)
  BY <1>5, <1>8
<1>15. 1 = 0 + 1
  OBVIOUS
<1>10. Opened(s2, 1, 1, TRUE) /\ s2[Len(s2)] \notin Scan!Digits
  BY <1>9, <1>15, OpenedSeparated, BracketsAre DEF s2
<1> HIDE DEF m
<1>12. Opened(s3, 1 + v.members, h, v.plain)
  BY <1>6, <1>7, <1>10, OpenedFilled DEF s3
<1>13. Bracketed(Scan!Value(s3 \o <<"}">>, h, m, v.plain))
  BY <1>6, <1>12, Closed, BracketsAre
<1> QED
  BY <1>3, <1>13 DEF s, h, s1, s2, s3, m, Scan!Object

-----------------------------------------------------------------------------
(* The values that are sent are containers, all of them read like this.        *)

LEMMA ContainersAreBracketed ==
    ASSUME NEW S, NEW k \in Nat, \A v \in S : Readable(v, k)
    PROVE  \A v \in Scan!Containers(S) : Bracketed(v)
<1> SUFFICES ASSUME NEW v \in Scan!Containers(S) PROVE Bracketed(v)
  OBVIOUS
<1>1. \/ v = Scan!NoItem
      \/ \E w \in S : v = Scan!OneItem(w)
      \/ \E key \in Scan!Keys : \E w \in S : v = Scan!Object(key, w)
  BY DEF Scan!Containers
<1> QED
  BY <1>1, NoItemIs, OneItemIs, ObjectIs

\* The values on level n, with the level below it.
Level(n, below) ==
    IF n = 0 THEN Scan!Scalars
    ELSE IF n = 1
         THEN Scan!Containers(Scan!Scalars)
              \cup {Scan!TwoItems(v, w) : v, w \in Scan!Scalars}
         ELSE Scan!Containers(below)

LEMMA LevelIs ==
    ASSUME NEW n \in Nat, NEW S, 1 < n => \A v \in S : Bracketed(v)
    PROVE  0 < n => \A v \in Level(n, S) : Bracketed(v)
<1>1. CASE n = 1
  <2> SUFFICES ASSUME NEW x \in Level(n, S) PROVE Bracketed(x)
    OBVIOUS
  <2>1. \/ x \in Scan!Containers(Scan!Scalars)
        \/ \E v, w \in Scan!Scalars : x = Scan!TwoItems(v, w)
    BY <1>1 DEF Level
  <2>2. \A v \in Scan!Containers(Scan!Scalars) : Bracketed(v)
    BY ScalarsAreReadable, ContainersAreBracketed
  <2>3. \A v, w \in Scan!Scalars : Bracketed(Scan!TwoItems(v, w))
    BY ScalarsAreReadable, TwoItemsIs
  <2> QED
    BY <2>1, <2>2, <2>3
<1>2. CASE 1 < n
  <2>1. \A v \in S : Readable(v, 1)
    BY <1>2 DEF Bracketed
  <2>2. \A v \in Scan!Containers(S) : Bracketed(v)
    BY <2>1, ContainersAreBracketed
  <2>3. Level(n, S) = Scan!Containers(S)
    BY <1>2 DEF Level
  <2> QED
    BY <2>2, <2>3
<1> QED
  BY <1>1, <1>2

\* g holds the levels up to k.
Layered(g, k) == \A n \in 0 .. k : g[n] = Level(n, g[n - 1])

Built(k) == \E g : Layered(g, k) /\ g = [n \in 0 .. Levels |-> g[n]]

LEMMA LayersExist ==
    \E g : g = [n \in 0 .. Levels |-> Level(n, g[n - 1])]
<1>1. Levels \in Nat
  BY InputAssumption DEF Scan!CommandTextAssumption
<1> DEFINE Unbuilt == {k \in Nat : k <= Levels /\ ~Built(k)}
<1>2. CASE Unbuilt = {}
  <2>1. PICK g : Layered(g, Levels) /\ g = [n \in 0 .. Levels |-> g[n]]
    <3>1. Levels \notin Unbuilt
      BY <1>2
    <3>2. Built(Levels)
      BY <1>1, <3>1
    <3> QED
      BY <3>2 DEF Built
  <2>2. \A n \in 0 .. Levels : g[n] = Level(n, g[n - 1])
    BY <2>1 DEF Layered
  <2>3. [n \in 0 .. Levels |-> g[n]] = [n \in 0 .. Levels |-> Level(n, g[n - 1])]
    BY <2>2
  <2> QED
    BY <2>1, <2>3
<1>3. CASE Unbuilt # {}
  <2>1. PICK k \in Unbuilt : \A i \in Unbuilt : k <= i
    BY <1>3, Least
  <2>2. k \in Nat /\ k <= Levels /\ ~Built(k)
    OBVIOUS
  <2>3. CASE k = 0
    <3> DEFINE g == [n \in 0 .. Levels |-> Level(0, n)]
    <3>1. g = [n \in 0 .. Levels |-> g[n]]
      OBVIOUS
    <3>2. \A n \in 0 .. 0 : n = 0 /\ g[n] = Level(0, n)
      BY <1>1
    <3>3. \A x, y : Level(0, x) = Level(0, y)
      BY DEF Level
    <3> HIDE DEF g
    <3>4. Layered(g, 0)
      BY <3>2, <3>3 DEF Layered
    <3> QED
      BY <2>2, <2>3, <3>1, <3>4 DEF Built
  <2>4. CASE 0 < k
    <3>1. k - 1 \in Nat /\ k - 1 <= Levels /\ ~(k <= k - 1)
      BY <1>1, <2>2, <2>4
    <3>9. k - 1 \notin Unbuilt
      <4> HIDE DEF Unbuilt
      <4> QED
        BY <2>1, <3>1
    <3>8. Built(k - 1)
      BY <3>1, <3>9
    <3>2. PICK g : Layered(g, k - 1)
      BY <3>8 DEF Built
    <3> DEFINE f == [n \in 0 .. Levels |-> IF n = k THEN Level(k, g[k - 1]) ELSE g[n]]
    <3>3. f = [n \in 0 .. Levels |-> f[n]]
      OBVIOUS
    <3>4. f[k] = Level(k, g[k - 1])
      BY <2>2
    <3>5. ASSUME NEW n \in 0 .. k - 1 PROVE n \in Int /\ f[n] = g[n]
      <4>1. n \in Int /\ n \in 0 .. Levels /\ n # k
        BY <1>1, <2>2
      <4> QED
        BY <4>1
    <3> HIDE DEF f
    <3>6. ASSUME NEW n \in 0 .. k PROVE f[n] = Level(n, f[n - 1])
      <4>1. CASE n = k
        <5>1. k - 1 \in 0 .. k - 1
          BY <2>2, <2>4
        <5> QED
          BY <3>4, <3>5, <4>1, <5>1
      <4>2. CASE n = 0 /\ n # k
        <5>1. f[n] = Level(n, g[n - 1]) /\ n \in 0 .. k - 1
          BY <2>2, <3>2, <3>5, <4>2 DEF Layered
        <5> QED
          BY <4>2, <5>1 DEF Level
      <4>3. CASE n # 0 /\ n # k
        <5>1. n \in 0 .. k - 1 /\ n - 1 \in 0 .. k - 1
          BY <2>2, <4>3
        <5>2. f[n] = g[n] /\ f[n - 1] = g[n - 1]
          BY <3>5, <5>1
        <5> QED
          BY <3>2, <5>1, <5>2 DEF Layered
      <4> QED
        BY <4>1, <4>2, <4>3
    <3>7. Layered(f, k)
      BY <3>6 DEF Layered
    <3> QED
      BY <2>2, <3>3, <3>7 DEF Built
  <2> QED
    BY <2>2, <2>3, <2>4
<1> QED
  BY <1>2, <1>3

LEMMA ValuesAreBracketed == \A v \in Scan!JsonValues : Bracketed(v)
<1> DEFINE L == CHOOSE g : g = [n \in 0 .. Levels |-> Level(n, g[n - 1])]
<1>1. L = [n \in 0 .. Levels |-> Level(n, L[n - 1])]
  BY LayersExist
<1>2. Scan!JsonValues = UNION {L[n] : n \in 1 .. Levels}
  BY DEF Scan!JsonValues, Level
<1> HIDE DEF L
<1>3. Levels \in Nat
  BY InputAssumption DEF Scan!CommandTextAssumption
<1>4. \A n \in 0 .. Levels : L[n] = Level(n, L[n - 1])
  BY <1>1
<1> DEFINE Odd == {n \in 1 .. Levels : ~ \A v \in L[n] : Bracketed(v)}
<1>5. CASE Odd = {}
  BY <1>2, <1>5
<1>6. CASE Odd # {}
  <2>1. Odd \subseteq Nat
    BY <1>3
  <2>2. PICK n \in Odd : \A i \in Odd : n <= i
    BY <1>6, <2>1, Least
  <2>3. n \in Nat /\ 0 < n /\ n \in 0 .. Levels /\ ~ \A v \in L[n] : Bracketed(v)
    BY <1>3
  <2>4. 1 < n => \A v \in L[n - 1] : Bracketed(v)
    <3>1. 1 < n => n - 1 \in 1 .. Levels /\ n - 1 \notin Odd
      BY <1>3, <2>2, <2>3
    <3> QED
      BY <3>1
  <2> QED
    BY <1>4, <2>3, <2>4, LevelIs
<1> QED
  BY <1>5, <1>6

-----------------------------------------------------------------------------
(* What a turn of the scan takes and refuses.                                  *)

LEMMA LastDigitIs ==
    ASSUME Len(text) \in Nat, NEW i \in Nat, NEW j \in Int, i <= j, j <= Len(text),
           \A k \in i .. j : text[k] \in Scan!Digits,
           j = Len(text) \/ text[j + 1] \notin Scan!Digits
    PROVE  Scan!LastDigit(i) = j
<1> DEFINE Last(x) == (\A k \in i .. x : Scan!Is(k, Scan!Digits)) /\ ~Scan!Is(x + 1, Scan!Digits)
<1>1. j \in i .. Len(text) /\ Last(j)
  <2>1. j \in i .. Len(text)
    OBVIOUS
  <2>2. \A k \in i .. j : Scan!Is(k, Scan!Digits)
    BY DEF Scan!Is
  <2>3. ~Scan!Is(j + 1, Scan!Digits)
    BY DEF Scan!Is
  <2> QED
    BY <2>1, <2>2, <2>3
<1>2. ASSUME NEW x \in i .. Len(text), Last(x)
      PROVE  x = j
  <2>1. CASE x < j
    <3>1. x + 1 \in i .. j
      BY <2>1
    <3> QED
      BY <1>1, <1>2, <3>1
  <2>2. CASE j < x
    <3>1. j + 1 \in i .. x
      BY <2>2
    <3> QED
      BY <1>1, <1>2, <3>1
  <2> QED
    BY <2>1, <2>2
<1>3. Scan!LastDigit(i) = CHOOSE x \in i .. Len(text) : Last(x)
  BY DEF Scan!LastDigit
<1> HIDE DEF Last
<1> QED
  BY <1>1, <1>2, <1>3

LEMMA FirstDigitIs == Scan!FirstDigit = First(text, at)
  BY DEF Scan!FirstDigit, First

LEMMA IntegerHereIs ==
    ASSUME Len(text) \in Nat, at \in Nat, NEW j, Numeral(text, at, j)
    PROVE  /\ Scan!LastDigit(Scan!FirstDigit) = j
           /\ Scan!IntegerHere <=> /\ NoZeros(text, at, j)
                                   /\ j = Len(text) \/ text[j + 1] \notin {".", "e"}
<1> DEFINE f == First(text, at)
           l == Len(text)
<1>1. /\ f \in Nat /\ j \in Int /\ f <= j /\ j <= l
      /\ (\A k \in f .. j : text[k] \in Scan!Digits)
      /\ j = l \/ text[j + 1] \notin Scan!Digits
  BY DEF Numeral, First
<1>2. Scan!LastDigit(f) = j
  BY <1>1, LastDigitIs
<1>3. Scan!Is(f, Scan!Digits)
  BY <1>1 DEF Scan!Is
<1>4. (text[f] = "0" /\ Scan!Is(f + 1, Scan!Digits)) <=> ~NoZeros(text, at, j)
  <2>1. CASE j = f
    <3>1. ~Scan!Is(f + 1, Scan!Digits)
      BY <1>1, <2>1 DEF Scan!Is
    <3> QED
      BY <2>1, <3>1 DEF NoZeros
  <2>2. CASE j # f
    <3>1. f + 1 \in f .. j /\ f + 1 <= l
      BY <1>1, <2>2
    <3>2. Scan!Is(f + 1, Scan!Digits)
      BY <1>1, <3>1 DEF Scan!Is
    <3> QED
      BY <2>2, <3>2 DEF NoZeros
  <2> QED
    BY <2>1, <2>2
<1>5. Scan!Is(j + 1, {".", "e"}) <=> ~(j = l \/ text[j + 1] \notin {".", "e"})
  <2>1. j + 1 <= l <=> j # l
    BY <1>1
  <2> QED
    BY <2>1 DEF Scan!Is
<1> HIDE DEF f, l
<1>6. Scan!FirstDigit = f
  BY FirstDigitIs DEF f
<1>7. Scan!IntegerHere <=> NoZeros(text, at, j) /\ ~Scan!Is(j + 1, {".", "e"})
  BY <1>2, <1>3, <1>4, <1>6 DEF Scan!IntegerHere
<1> QED
  BY <1>2, <1>5, <1>6, <1>7 DEF l

\* The scan stops at what is not plain.
LEMMA BrokenIsRefused ==
    ASSUME Len(text) \in Nat, at \in Nat, Broken(text, at, quoted)
    PROVE  Scan!Refused
<1>1. PICK j : Stops(text, at, quoted, j)
  BY DEF Broken
<1>2. j \in Int /\ at <= j /\ j < Len(text)
  BY <1>1 DEF Stops
<1>3. CASE /\ NumberAt(text, at, quoted)
           /\ Numeral(text, at, j) /\ text[j + 1] \in {".", "e"}
  <2>1. j # Len(text)
    BY <1>2
  <2>2. ~Scan!IntegerHere
    BY <1>3, <2>1, IntegerHereIs
  <2> QED
    BY <1>3, <2>2, Zenon DEF NumberAt, Scan!Refused
<1>4. CASE EscapeAt(text, at, quoted) /\ j = at /\ text[j + 1] \in Scan!Unescapable
  BY <1>4, Zenon DEF EscapeAt, Scan!Refused
<1> QED
  BY <1>1, <1>3, <1>4 DEF Stops

\* Where a turn can take its bytes, only the limits refuse it.
LEMMA TakesIs ==
    ASSUME Len(text) \in Nat, at \in Nat, at <= Len(text), quoted \in BOOLEAN,
           NEW j, Takes(text, at, quoted, j), text[at] \notin Scan!Controls
    PROVE  /\ Scan!Taken = j
           /\ Scan!Refused <=> \/ Separates(text[at], quoted) /\ members = MemberLimit
                               \/ Opens(text[at], quoted) /\ depth = DepthLimit
                               \/ Closes(text[at], quoted) /\ depth = 0
<1> DEFINE Limited == \/ Separates(text[at], quoted) /\ members = MemberLimit
                      \/ Opens(text[at], quoted) /\ depth = DepthLimit
                      \/ Closes(text[at], quoted) /\ depth = 0
<1>1. Limited => Scan!Refused
  BY Zenon DEF Separates, Opens, Closes, Scan!Refused
<1>2. CASE NumberAt(text, at, quoted)
  <2>1. ~EscapeAt(text, at, quoted)
    BY <1>2, Zenon DEF NumberAt, EscapeAt
  <2>2. /\ Numeral(text, at, j) /\ NoZeros(text, at, j)
        /\ j = Len(text) \/ text[j + 1] \notin {".", "e"}
    BY <1>2 DEF Takes
  <2>3. Scan!LastDigit(Scan!FirstDigit) = j /\ Scan!IntegerHere
    BY <2>2, IntegerHereIs
  <2>4. Scan!Taken = j
    BY <1>2, <2>3, Zenon DEF NumberAt, Scan!Taken
  <2>5. text[at] \notin {"+", "."} /\ text[at] # "high"
    BY <1>2, Zenon DEF NumberAt, Scan!Digits
  <2>6. Scan!Refused => Limited
    BY <1>2, <2>3, <2>5, Zenon DEF NumberAt, Scan!Refused, Separates, Opens, Closes
  <2> QED
    BY <1>1, <2>4, <2>6
<1>3. CASE EscapeAt(text, at, quoted)
  <2>1. j = at + 1 /\ j <= Len(text) /\ text[j] \notin Scan!Unescapable
    BY <1>3 DEF Takes
  <2>2. at # Len(text) /\ text[at + 1] \notin Scan!Unescapable
    BY <2>1
  <2>3. Scan!Taken = j
    BY <1>3, <2>1, Zenon DEF EscapeAt, Scan!Taken
  <2>4. Scan!Refused => Limited
    BY <1>3, <2>2, Zenon DEF EscapeAt, Scan!Refused
  <2> QED
    BY <1>1, <2>3, <2>4
<1>4. CASE ~NumberAt(text, at, quoted) /\ ~EscapeAt(text, at, quoted)
  <2>1. j = at /\ (quoted \/ text[at] \notin {"+", ".", "high"})
    BY <1>4 DEF Takes
  <2>2. Scan!Taken = j
    BY <1>4, <2>1, Zenon DEF NumberAt, EscapeAt, Scan!Taken
  <2>3. Scan!Refused => Limited
    BY <1>4, <2>1, Zenon DEF NumberAt, EscapeAt, Scan!Refused, Separates, Opens, Closes
  <2> QED
    BY <1>1, <2>2, <2>3
<1> QED
  BY <1>2, <1>3, <1>4

\* A turn that is not refused.
LEMMA TurnIs ==
    ASSUME Scan!Turn, ~Scan!Refused, quoted \in BOOLEAN
    PROVE  /\ verdict = "none" /\ verdict' = "none" /\ value' = value /\ text' = text
           /\ at <= Len(text) /\ at' = Scan!Taken + 1
           /\ quoted' = Quotes(text[at], quoted)
           /\ depth' = Nests(text[at], quoted, depth)
           /\ members' = Counts(text[at], quoted, members)
<1>1. /\ verdict = "none" /\ verdict' = "none" /\ value' = value /\ text' = text
      /\ at <= Len(text) /\ at' = Scan!Taken + 1
  BY Zenon DEF Scan!Turn
<1>2. quoted' = Quotes(text[at], quoted)
  BY Zenon DEF Scan!Turn, Quotes
<1>3. depth' = Nests(text[at], quoted, depth)
  BY Zenon DEF Scan!Turn, Nests, Opens, Closes
<1>4. members' = Counts(text[at], quoted, members)
  BY Zenon DEF Scan!Turn, Counts, Separates
<1> QED
  BY <1>1, <1>2, <1>3, <1>4

-----------------------------------------------------------------------------
(* The places of a value's text, and a text that is ruined before its end.     *)

Track(v) ==
    CHOOSE R : Tracks(R, v.text, FALSE, 0, 0, FALSE, 0, v.members, v.depth, 1, v.plain)

LEMMA TrackIs ==
    ASSUME NEW v \in Scan!JsonValues
    PROVE  /\ Tracks(Track(v), v.text, FALSE, 0, 0, FALSE, 0, v.members, v.depth, 1, v.plain)
           /\ v.depth \in Nat /\ v.members \in Nat /\ v.plain \in BOOLEAN
           /\ v.text \in Wordings /\ Opens(v.text[1], FALSE)
<1>1. Bracketed(v)
  BY ValuesAreBracketed
<1>2. /\ v.depth \in Nat /\ v.members \in Nat /\ v.plain \in BOOLEAN
      /\ v.text \in Wordings /\ Opens(v.text[1], FALSE)
  BY <1>1 DEF Bracketed, Readable
<1>3. Reading(v.text, FALSE, 0, 0, FALSE, 0, 0 + v.members, 0 + v.depth, 0 + 1, v.plain)
  BY <1>1 DEF Bracketed, Readable
<1>4. 0 + v.members = v.members /\ 0 + v.depth = v.depth /\ 0 + 1 = 1
  BY <1>2
<1>5. Reading(v.text, FALSE, 0, 0, FALSE, 0, v.members, v.depth, 1, v.plain)
  BY <1>3, <1>4
<1>6. \E R : Tracks(R, v.text, FALSE, 0, 0, FALSE, 0, v.members, v.depth, 1, v.plain)
  BY <1>5 DEF Reading
<1>7. Tracks(Track(v), v.text, FALSE, 0, 0, FALSE, 0, v.members, v.depth, 1, v.plain)
  BY <1>6 DEF Track
<1> QED
  BY <1>2, <1>7

Point == <<at, quoted, depth, members>>

LEMMA PointIs ==
    ASSUME NEW R, R \subseteq Places, Point \in R
    PROVE  /\ at \in Nat /\ 0 < at /\ quoted \in BOOLEAN /\ depth \in Nat /\ members \in Nat
           /\ Point[1] = at /\ Point[2] = quoted /\ Point[3] = depth /\ Point[4] = members
  BY DEF Point, Places

\* What the scan has passed lies within the limits and is plain.
Passed(R) ==
    \A r \in R :
        r[1] < at =>
            /\ Opens(text[r[1]], r[2]) => r[3] + 1 <= DepthLimit
            /\ Separates(text[r[1]], r[2]) => r[4] + 1 <= MemberLimit
            /\ ~Broken(text, r[1], r[2])

Allowed == value.depth <= DepthLimit /\ value.members <= MemberLimit /\ value.plain

\* The whole text.
Whole ==
    /\ text = value.text
    /\ verdict = "none" =>
          /\ Point \in Track(value) /\ Passed(Track(value))
          /\ depth <= DepthLimit /\ members <= MemberLimit
    /\ verdict = "accepted" => Allowed
    /\ verdict = "refused" => ~Allowed

\* Of the text of the value, what is before b comes; then there is an end, or a control
\* character.
RuinedAt(b) ==
    /\ b \in Nat /\ 0 < b /\ b <= Len(value.text) /\ Len(text) \in Nat
    /\ \A k \in 1 .. b - 1 : text[k] = value.text[k]
    /\ \/ Len(text) = b - 1 /\ 1 < b
       \/ Len(text) = Len(value.text) /\ text[b] \in Scan!Controls

\* The scan does not come behind b, and comes to it inside the value.
Ruined(b) ==
    /\ RuinedAt(b) /\ text # value.text
    /\ verdict = "none" =>
          /\ quoted \in BOOLEAN /\ depth \in Nat /\ members \in Nat
          /\ \/ at < b /\ Point \in Track(value)
             \/ at = b /\ (1 < b => 1 <= depth)
    /\ verdict # "accepted"

ScanInv ==
    /\ part # "scan" => verdict = "none"
    /\ part = "scan" =>
          /\ value \in Scan!JsonValues /\ verdict \in {"none", "accepted", "refused"}
          /\ Scan!Hidden \/ Whole \/ \E b : Ruined(b)

LEMMA ScanInvDecides == ScanInv => ScanDecides
  BY Zenon DEF ScanInv, ScanDecides, Scan!ScanDecides, Whole, Ruined, Allowed

-----------------------------------------------------------------------------

LEMMA ScanStarts ==
    ASSUME Scan!Init, InputAssumption
    PROVE  /\ value \in Scan!JsonValues /\ verdict = "none"
           /\ Whole \/ \E b : Ruined(b)
<1> DEFINE s == value.text
           R == Track(value)
<1>1. value \in Scan!JsonValues
  BY DEF Scan!Init
<1>2. at = 1 /\ quoted = FALSE /\ depth = 0 /\ members = 0 /\ verdict = "none"
  BY DEF Scan!Init
<1>3. /\ Tracks(R, s, FALSE, 0, 0, FALSE, 0, value.members, value.depth, 1, value.plain)
      /\ s \in Wordings
  BY <1>1, TrackIs
<1>4. s \in Seq(Tokens) /\ Len(s) \in Nat /\ 0 < Len(s) /\ DOMAIN s = 1 .. Len(s)
      /\ \A i \in 1 .. Len(s) : s[i] \in Tokens
  BY <1>3, WordingIs
<1>5. \/ \E n \in DOMAIN s : text = SubSeq(s, 1, n)
      \/ \E n \in DOMAIN s : \E c \in Scan!Controls : text = [s EXCEPT ![n] = c]
  BY DEF Scan!Init
<1>6. Point = <<1, FALSE, 0, 0>> /\ Point \in R /\ R \subseteq Places
  BY <1>2, <1>3 DEF Tracks, Between, Point
<1>7. DepthLimit \in Nat /\ MemberLimit \in Nat
  BY DEF InputAssumption, Scan!CommandTextAssumption
<1> HIDE DEF s, R
<1>8. ASSUME RuinedAt(2) \/ RuinedAt(1) \/ \E b : 1 < b /\ RuinedAt(b), text # s
      PROVE  \E b : Ruined(b)
  <2>1. PICK b : RuinedAt(b)
    BY <1>8
  <2>2. at < b \/ (at = b /\ ~(1 < b))
    BY <1>2, <2>1 DEF RuinedAt
  <2> QED
    BY <1>2, <1>6, <1>8, <2>1, <2>2 DEF Ruined, s, R
<1>9. ASSUME NEW n \in DOMAIN s, text = SubSeq(s, 1, n)
      PROVE  Whole \/ \E b : Ruined(b)
  <2>1. n \in Nat /\ 0 < n /\ n <= Len(s)
    BY <1>4
  <2>2. Len(text) = n /\ \A k \in 1 .. n : text[k] = s[k]
    BY <1>4, <1>9, <2>1
  <2>3. CASE n = Len(s)
    <3>1. text = s
      BY <1>4, <1>9, <2>3
    <3>2. Passed(R)
      <4>1. \A r \in R : ~(r[1] < at)
        <5> SUFFICES ASSUME NEW r \in R PROVE ~(r[1] < at)
          OBVIOUS
        <5>1. r[1] \in Nat /\ 0 < r[1]
          BY <1>6, BehindIs
        <5> QED
          BY <1>2, <5>1
      <4> QED
        BY <4>1 DEF Passed
    <3> QED
      BY <1>2, <1>6, <1>7, <3>1, <3>2 DEF Whole, s, R
  <2>4. CASE n < Len(s)
    <3>1. RuinedAt(n + 1) /\ 1 < n + 1
      BY <1>4, <2>1, <2>2, <2>4 DEF RuinedAt, s
    <3>2. text # s
      BY <2>1, <2>2, <2>4
    <3> QED
      BY <1>8, <3>1, <3>2
  <2> QED
    BY <1>4, <2>1, <2>3, <2>4
<1>10. ASSUME NEW n \in DOMAIN s, NEW c \in Scan!Controls, text = [s EXCEPT ![n] = c]
       PROVE  \E b : Ruined(b)
  <2>1. n \in Nat /\ 0 < n /\ n <= Len(s)
    BY <1>4
  <2>2. DOMAIN text = DOMAIN s /\ text[n] = c /\ \A k \in DOMAIN s \ {n} : text[k] = s[k]
    BY <1>10
  <2>3. Len(text) = Len(s)
    BY <1>4, <2>2
  <2>4. c \notin Tokens
    BY Zenon DEF Scan!Controls, Tokens, Scan!Quote, Scan!Escape
  <2>5. text # s
    BY <1>4, <2>2, <2>4
  <2>6. \A k \in 1 .. n - 1 : text[k] = s[k]
    BY <1>4, <2>1, <2>2
  <2>7. RuinedAt(n)
    BY <1>4, <2>1, <2>2, <2>3, <2>6 DEF RuinedAt, s
  <2>8. n = 1 \/ 1 < n
    BY <2>1
  <2> QED
    BY <1>8, <2>5, <2>7, <2>8
<1> QED
  BY <1>1, <1>2, <1>5, <1>9, <1>10

\* The reading of the text at a place of its value's track.
LEMMA TrackHere ==
    ASSUME value \in Scan!JsonValues, Point \in Track(value), at <= Len(value.text)
    PROVE  /\ at \in Nat /\ 0 < at /\ quoted \in BOOLEAN /\ depth \in Nat /\ members \in Nat
           /\ value.text[at] \in Tokens
           /\ 1 < at => 1 <= depth
           /\ Opens(value.text[at], quoted) => depth < value.depth
           /\ Closes(value.text[at], quoted) => 0 < depth
           /\ Separates(value.text[at], quoted) => members < value.members
           /\ \/ ~value.plain /\ Broken(value.text, at, quoted)
              \/ \E j \in Int :
                    /\ at <= j /\ j <= Len(value.text) /\ Takes(value.text, at, quoted, j)
                    /\ <<j + 1, Quotes(value.text[at], quoted), Nests(value.text[at], quoted, depth),
                         Counts(value.text[at], quoted, members)>> \in Track(value)
                    /\ \A x \in Track(value) : x[1] <= at \/ j < x[1]
<1> DEFINE s == value.text
           R == Track(value)
<1>1. /\ Tracks(R, s, FALSE, 0, 0, FALSE, 0, value.members, value.depth, 1, value.plain)
      /\ s \in Wordings
  BY TrackIs
<1>2. R \subseteq Places
  BY <1>1 DEF Tracks, Between
<1>3. /\ at \in Nat /\ 0 < at /\ quoted \in BOOLEAN /\ depth \in Nat /\ members \in Nat
      /\ Point[1] = at /\ Point[2] = quoted /\ Point[3] = depth /\ Point[4] = members
  BY <1>2, PointIs
<1>4. s[at] \in Tokens
  BY <1>1, <1>3, WordingIs
<1>5. Within(s, Point, value.members, value.depth, 1) /\ Goes(R, s, Point, value.plain)
  BY <1>1, <1>3 DEF Tracks
<1>6. /\ 1 < at => 1 <= depth
      /\ Opens(s[at], quoted) => depth < value.depth
      /\ Closes(s[at], quoted) => 0 < depth
      /\ Separates(s[at], quoted) => members < value.members
  BY <1>3, <1>5 DEF Within
<1>7. \/ ~value.plain /\ Broken(s, at, quoted)
      \/ \E j \in Int :
            /\ at <= j /\ j <= Len(s) /\ Takes(s, at, quoted, j)
            /\ <<j + 1, Quotes(s[at], quoted), Nests(s[at], quoted, depth),
                 Counts(s[at], quoted, members)>> \in R
            /\ \A x \in R : x[1] <= at \/ j < x[1]
  BY <1>3, <1>5 DEF Goes
<1> QED
  BY <1>3, <1>4, <1>6, <1>7

LEMMA TokensAreNoControls == \A c \in Tokens : c \notin Scan!Controls
  BY Zenon DEF Scan!Controls, Tokens, Scan!Quote, Scan!Escape

LEMMA RefusedTurn ==
    ASSUME Scan!Turn, Scan!Refused
    PROVE  /\ verdict = "none" /\ verdict' = "refused" /\ value' = value /\ text' = text
           /\ at <= Len(text)
  BY Zenon DEF Scan!Turn

LEMMA LimitsAreNat == DepthLimit \in Nat /\ MemberLimit \in Nat
  BY InputAssumption DEF Scan!CommandTextAssumption

LEMMA WholeTurn ==
    ASSUME value \in Scan!JsonValues, Whole, Scan!Turn
    PROVE  Whole'
<1> DEFINE s == value.text
           R == Track(value)
<1>1. /\ Tracks(R, s, FALSE, 0, 0, FALSE, 0, value.members, value.depth, 1, value.plain)
      /\ s \in Wordings /\ value.depth \in Nat /\ value.members \in Nat
  BY TrackIs
<1>2. verdict = "none" /\ at <= Len(text) /\ text = s
  BY Zenon DEF Scan!Turn, Whole
<1>3. /\ Point \in R /\ Passed(R) /\ depth <= DepthLimit /\ members <= MemberLimit
  BY <1>2 DEF Whole
<1>4. /\ at \in Nat /\ 0 < at /\ quoted \in BOOLEAN /\ depth \in Nat /\ members \in Nat
      /\ text[at] \in Tokens
      /\ Opens(text[at], quoted) => depth < value.depth
      /\ Closes(text[at], quoted) => 0 < depth
      /\ Separates(text[at], quoted) => members < value.members
      /\ \/ ~value.plain /\ Broken(text, at, quoted)
         \/ \E j \in Int :
               /\ at <= j /\ j <= Len(text) /\ Takes(text, at, quoted, j)
               /\ <<j + 1, Quotes(text[at], quoted), Nests(text[at], quoted, depth),
                    Counts(text[at], quoted, members)>> \in R
               /\ \A x \in R : x[1] <= at \/ j < x[1]
  BY <1>2, <1>3, TrackHere
<1>5. Len(text) \in Nat /\ text[at] \notin Scan!Controls
  BY <1>1, <1>2, <1>4, WordingIs, TokensAreNoControls
<1> HIDE DEF s, R
<1>6. CASE Scan!Refused
  <2>1. verdict' = "refused" /\ value' = value /\ text' = text
    BY <1>6, RefusedTurn
  <2>2. ~Allowed
    <3>1. CASE ~value.plain
      BY <3>1 DEF Allowed
    <3>2. CASE \E j \in Int : Takes(text, at, quoted, j)
      <4>1. \/ Separates(text[at], quoted) /\ members = MemberLimit
            \/ Opens(text[at], quoted) /\ depth = DepthLimit
            \/ Closes(text[at], quoted) /\ depth = 0
        BY <1>2, <1>4, <1>5, <1>6, <3>2, TakesIs
      <4>2. ~(Closes(text[at], quoted) /\ depth = 0)
        BY <1>4
      <4>3. MemberLimit < value.members \/ DepthLimit < value.depth
        BY <1>4, <4>1, <4>2
      <4> QED
        BY <1>1, <4>3, LimitsAreNat DEF Allowed
    <3> QED
      BY <1>4, <3>1, <3>2
  <2>3. text' = value'.text /\ ~Allowed'
    BY <1>2, <2>1, <2>2 DEF Allowed, s
  <2> QED
    BY <2>1, <2>3 DEF Whole
<1>7. CASE ~Scan!Refused
  <2>1. ~Broken(text, at, quoted)
    BY <1>4, <1>5, <1>7, BrokenIsRefused
  <2>2. PICK j \in Int :
             /\ at <= j /\ j <= Len(text) /\ Takes(text, at, quoted, j)
             /\ <<j + 1, Quotes(text[at], quoted), Nests(text[at], quoted, depth),
                  Counts(text[at], quoted, members)>> \in R
             /\ \A x \in R : x[1] <= at \/ j < x[1]
    BY <1>4, <2>1
  <2>3. /\ Scan!Taken = j
        /\ ~(Separates(text[at], quoted) /\ members = MemberLimit)
        /\ ~(Opens(text[at], quoted) /\ depth = DepthLimit)
    BY <1>2, <1>4, <1>5, <1>7, <2>2, TakesIs
  <2>4. /\ verdict' = "none" /\ value' = value /\ text' = text /\ at' = j + 1
        /\ quoted' = Quotes(text[at], quoted)
        /\ depth' = Nests(text[at], quoted, depth)
        /\ members' = Counts(text[at], quoted, members)
    BY <1>4, <1>7, <2>3, TurnIs
  <2>5. Point' \in R
    BY <2>2, <2>4 DEF Point
  <2>6. /\ Opens(text[at], quoted) => depth + 1 <= DepthLimit
        /\ Separates(text[at], quoted) => members + 1 <= MemberLimit
    BY <1>3, <1>4, <2>3, LimitsAreNat
  <2>7. depth' <= DepthLimit /\ members' <= MemberLimit
    <3>1. /\ Opens(text[at], quoted) => depth' = depth + 1
          /\ ~Opens(text[at], quoted) => depth' <= depth
          /\ Separates(text[at], quoted) => members' = members + 1
          /\ ~Separates(text[at], quoted) => members' = members
          /\ depth' \in Nat
      <4>1. Closes(text[at], quoted) => 0 < depth
        BY <1>4
      <4> DEFINE c == text[at]
                 d1 == Nests(c, quoted, depth)
                 n1 == Counts(c, quoted, members)
      <4>2. depth' = d1 /\ members' = n1
        BY <2>4
      <4> HIDE DEF c
      <4>3. d1 \in Nat
        BY <1>4, <4>1, Counted DEF c
      <4>4. Opens(c, quoted) => d1 = depth + 1
        BY <1>4, <4>1, Counted DEF c
      <4>5. ~Opens(c, quoted) => d1 <= depth
        BY <1>4, <4>1, Counted DEF c
      <4>6. Separates(c, quoted) => n1 = members + 1
        BY <1>4, <4>1, Counted DEF c
      <4>7. ~Separates(c, quoted) => n1 = members
        BY <1>4, <4>1, Counted DEF c
      <4> HIDE DEF d1, n1
      <4> QED
        BY <4>2, <4>3, <4>4, <4>5, <4>6, <4>7 DEF c
    <3> QED
      BY <1>3, <1>4, <2>6, <3>1, LimitsAreNat
  <2>8. ASSUME NEW r \in R, r[1] < at'
        PROVE  /\ Opens(text[r[1]], r[2]) => r[3] + 1 <= DepthLimit
               /\ Separates(text[r[1]], r[2]) => r[4] + 1 <= MemberLimit
               /\ ~Broken(text, r[1], r[2])
    <3>1. r \in Places /\ R \subseteq Places /\ Single(R)
      BY <1>1 DEF Tracks, Between
    <3>2. r[1] \in Nat
      BY <3>1, BehindIs
    <3>3. r[1] <= at
      BY <2>2, <2>4, <2>8, <3>2
    <3>4. CASE r[1] < at
      BY <1>3, <3>4 DEF Passed
    <3>5. CASE r[1] = at
      <4>1. Point[1] = at /\ Point[2] = quoted /\ Point[3] = depth /\ Point[4] = members
        BY DEF Point
      <4>2. r = Point
        BY <1>3, <3>1, <3>5, <4>1 DEF Single
      <4> QED
        BY <2>1, <2>6, <4>1, <4>2
    <3> QED
      BY <1>4, <3>2, <3>3, <3>4, <3>5
  <2>9. Passed(R)'
    <3>1. R' = R
      BY <2>4 DEF R
    <3> QED
      BY <2>4, <2>8, <3>1 DEF Passed
  <2>10. text' = value'.text
    BY <1>2, <2>4 DEF s
  <2>11. Point' \in Track(value)' /\ Passed(Track(value))'
    BY <2>4, <2>5, <2>9 DEF R
  <2> QED
    BY <2>4, <2>7, <2>10, <2>11 DEF Whole
<1> QED
  BY <1>6, <1>7

LEMMA WholeReturn ==
    ASSUME value \in Scan!JsonValues, Whole, Scan!Return
    PROVE  Whole'
<1> DEFINE s == value.text
           R == Track(value)
<1>1. /\ Tracks(R, s, FALSE, 0, 0, FALSE, 0, value.members, value.depth, 1, value.plain)
      /\ s \in Wordings /\ value.depth \in Nat /\ value.members \in Nat
  BY TrackIs
<1>2. /\ verdict = "none" /\ at > Len(text) /\ value' = value /\ text' = text
      /\ verdict' = IF ~quoted /\ depth = 0 THEN "accepted" ELSE "refused"
  BY DEF Scan!Return
<1>3. text = s /\ Point \in R /\ Passed(R)
  BY <1>2 DEF Whole
<1> HIDE DEF s, R
<1>4. /\ R \subseteq Places /\ (\A r \in R : r[1] <= Len(s) + 1)
      /\ \A r \in R : r[1] = Len(s) + 1 => r = <<Len(s) + 1, FALSE, 0, value.members>>
  BY <1>1 DEF Tracks, Between
<1>5. Len(s) \in Nat
  BY <1>1, WordingIs
<1>6. Point[1] = at /\ Point[2] = quoted /\ Point[3] = depth /\ at \in Nat
  BY <1>3, <1>4, PointIs
<1>7. at = Len(s) + 1
  BY <1>2, <1>3, <1>4, <1>5, <1>6
<1>8. quoted = FALSE /\ depth = 0
  <2>1. Point = <<Len(s) + 1, FALSE, 0, value.members>>
    BY <1>3, <1>4, <1>6, <1>7
  <2> QED
    BY <2>1, <1>6
<1>9. verdict' = "accepted"
  BY <1>2, <1>8
<1>10. ASSUME NEW r \in R, r[1] <= Len(s)
       PROVE  /\ Opens(s[r[1]], r[2]) => r[3] + 1 <= DepthLimit
              /\ Separates(s[r[1]], r[2]) => r[4] + 1 <= MemberLimit
              /\ ~Broken(s, r[1], r[2])
  <2>1. r[1] \in Nat
    BY <1>4, BehindIs
  <2>2. r[1] < at
    BY <1>5, <1>7, <1>10, <2>1
  <2> QED
    BY <1>3, <2>2 DEF Passed
<1>11. Reaches(R, s, 0, 0, value.members, value.depth, value.plain)
  BY <1>1 DEF Tracks
<1>12. value.depth <= DepthLimit
  <2>1. CASE 0 < value.depth
    BY <1>10, <1>11, <2>1 DEF Reaches
  <2> QED
    BY <1>1, <2>1, LimitsAreNat
<1>13. value.members <= MemberLimit
  <2>1. CASE 0 < value.members
    BY <1>10, <1>11, <2>1 DEF Reaches
  <2> QED
    BY <1>1, <2>1, LimitsAreNat
<1>14. value.plain
  BY <1>10, <1>11 DEF Reaches
<1>15. Allowed' /\ text' = value'.text
  BY <1>2, <1>3, <1>12, <1>13, <1>14 DEF Allowed, s
<1> QED
  BY <1>9, <1>15 DEF Whole

-----------------------------------------------------------------------------
(* A text that is ruined.                                                      *)

LEMMA RuinedIs ==
    ASSUME NEW b, RuinedAt(b), value \in Scan!JsonValues
    PROVE  /\ b \in Nat /\ 0 < b /\ Len(text) \in Nat /\ b - 1 <= Len(text)
           /\ Len(value.text) \in Nat /\ b <= Len(value.text)
           /\ \A k \in 1 .. b - 1 : text[k] = value.text[k]
           /\ b <= Len(text) => text[b] \in Scan!Controls
           /\ Len(text) = b - 1 \/ b <= Len(text)
<1>1. Len(value.text) \in Nat
  BY TrackIs, WordingIs
<1> QED
  BY <1>1 DEF RuinedAt

LEMMA ControlsAre ==
    ASSUME NEW c \in Scan!Controls
    PROVE  c \notin Scan!Digits /\ c \notin Scan!Digits \cup {".", "e"}
  BY Zenon DEF Scan!Controls, Scan!Digits

\* What a number's first byte is not.
LEMMA NumberBegins ==
    ASSUME NEW t, NEW i, NEW q, NumberAt(t, i, q)
    PROVE  ~Opens(t[i], q) /\ ~Closes(t[i], q) /\ ~Separates(t[i], q) /\ ~Opens(t[i], FALSE)
  BY Zenon DEF NumberAt, Opens, Closes, Separates, Scan!Digits

\* The digits of a number end where the text is ruined, or it has none.
LEMMA RuinedNumber ==
    ASSUME NEW b, RuinedAt(b), value \in Scan!JsonValues, at \in Nat, 0 < at, at < b,
           NEW j, Numeral(value.text, at, j), b <= j + 1
    PROVE  First(text, at) = b \/ Numeral(text, at, b - 1)
<1> DEFINE s == value.text
           f == First(text, at)
<1>1. /\ b \in Nat /\ 0 < b /\ Len(text) \in Nat /\ b - 1 <= Len(text)
      /\ \A k \in 1 .. b - 1 : text[k] = s[k]
      /\ b <= Len(text) => text[b] \in Scan!Controls
      /\ Len(text) = b - 1 \/ b <= Len(text)
  BY RuinedIs
<1>2. at \in 1 .. b - 1
  BY <1>1
<1>3. First(s, at) = f /\ f \in Nat /\ at <= f /\ f <= at + 1
  BY <1>1, <1>2 DEF First
<1>4. j \in Int /\ \A k \in f .. j : s[k] \in Scan!Digits
  BY <1>3 DEF Numeral
<1> HIDE DEF s, f
<1>5. CASE f < b
  <2>1. ASSUME NEW k \in f .. b - 1 PROVE text[k] \in Scan!Digits
    <3>1. k \in 1 .. b - 1 /\ k \in f .. j
      BY <1>1, <1>2, <1>3, <1>4
    <3> QED
      BY <1>1, <1>4, <3>1
  <2>2. b - 1 \in Int /\ f <= b - 1 /\ b - 1 <= Len(text) /\ b - 1 + 1 = b
    BY <1>1, <1>3, <1>5
  <2>3. b - 1 = Len(text) \/ text[b] \notin Scan!Digits
    BY <1>1, ControlsAre
  <2>4. b - 1 = Len(text) \/ text[b - 1 + 1] \notin Scan!Digits
    BY <2>2, <2>3
  <2> QED
    BY <2>1, <2>2, <2>4 DEF Numeral, f
<1>6. CASE ~(f < b)
  BY <1>1, <1>2, <1>3, <1>6 DEF f
<1> QED
  BY <1>5, <1>6

LEMMA RuinedNumberTurn ==
    ASSUME value \in Scan!JsonValues, NEW b, Ruined(b), Scan!Turn, ~Scan!Refused, at < b,
           Point \in Track(value), NumberAt(value.text, at, quoted),
           NEW j, Numeral(value.text, at, j), b <= j + 1
    PROVE  Ruined(b)'
<1> DEFINE s == value.text
<1>1. /\ b \in Nat /\ 0 < b /\ Len(text) \in Nat /\ b - 1 <= Len(text)
      /\ Len(s) \in Nat /\ b <= Len(s)
      /\ \A k \in 1 .. b - 1 : text[k] = s[k]
      /\ b <= Len(text) => text[b] \in Scan!Controls
      /\ Len(text) = b - 1 \/ b <= Len(text)
  BY RuinedIs DEF Ruined
<1>2. verdict = "none" /\ RuinedAt(b) /\ text # s
  BY Zenon DEF Scan!Turn, Ruined
<1>3. at <= Len(s)
  <2>1. Track(value) \subseteq Places
    BY TrackIs DEF Tracks, Between
  <2>2. at \in Nat
    BY <2>1, PointIs
  <2> QED
    BY <1>1, <2>2
<1>4. /\ at \in Nat /\ 0 < at /\ quoted \in BOOLEAN /\ depth \in Nat /\ members \in Nat
      /\ 1 < at => 1 <= depth
      /\ Closes(s[at], quoted) => 0 < depth
  BY <1>3, TrackHere
<1>5. text[at] = s[at]
  BY <1>1, <1>4
<1>6. NumberAt(text, at, quoted)
  BY <1>5 DEF NumberAt
<1>7. at # 1
  <2>1. Opens(s[1], FALSE)
    BY TrackIs
  <2>2. ~Opens(s[at], FALSE)
    BY NumberBegins
  <2> QED
    BY <2>1, <2>2
<1>8. Scan!IntegerHere
  BY <1>6, Zenon DEF NumberAt, Scan!Refused
<1>9. Numeral(text, at, b - 1)
  <2>1. First(text, at) # b
    <3>1. Scan!Is(Scan!FirstDigit, Scan!Digits)
      BY <1>8 DEF Scan!IntegerHere
    <3>2. First(text, at) <= Len(text) /\ text[First(text, at)] \in Scan!Digits
      BY <3>1, FirstDigitIs DEF Scan!Is
    <3> QED
      BY <1>1, <3>2, ControlsAre
  <2> QED
    BY <1>2, <1>4, <2>1, RuinedNumber
<1>10. Scan!Taken = b - 1
  <2>1. Scan!LastDigit(Scan!FirstDigit) = b - 1
    BY <1>1, <1>4, <1>9, IntegerHereIs
  <2> QED
    BY <1>6, <2>1, Zenon DEF NumberAt, Scan!Taken
<1>11. /\ verdict' = "none" /\ value' = value /\ text' = text /\ at' = b - 1 + 1
       /\ quoted' = Quotes(text[at], quoted)
       /\ depth' = Nests(text[at], quoted, depth)
       /\ members' = Counts(text[at], quoted, members)
  BY <1>4, <1>10, TurnIs
<1>12. depth' = depth /\ members' = members /\ quoted' \in BOOLEAN
  <2>1. ~Opens(text[at], quoted) /\ ~Closes(text[at], quoted) /\ ~Separates(text[at], quoted)
    BY <1>6, NumberBegins
  <2>2. depth' = depth /\ members' = members
    BY <1>11, <2>1 DEF Nests, Counts
  <2>3. quoted' \in BOOLEAN
    BY <1>11, Zenon DEF Quotes
  <2> QED
    BY <2>2, <2>3
<1>13. at' = b /\ 1 <= depth'
  BY <1>1, <1>4, <1>7, <1>11, <1>12
<1>14. RuinedAt(b)' /\ (text # value.text)'
  BY <1>2, <1>11 DEF RuinedAt, s
<1>15. verdict' # "accepted"
  BY <1>11
<1> QED
  BY <1>4, <1>12, <1>13, <1>14, <1>15 DEF Ruined

LEMMA RuinedTaken ==
    ASSUME value \in Scan!JsonValues, NEW b, Ruined(b), Scan!Turn, ~Scan!Refused, at < b,
           Point \in Track(value), NEW j \in Int, at <= j, j < b, Takes(value.text, at, quoted, j),
           <<j + 1, Quotes(value.text[at], quoted), Nests(value.text[at], quoted, depth),
             Counts(value.text[at], quoted, members)>> \in Track(value)
    PROVE  Ruined(b)'
<1> DEFINE s == value.text
           R == Track(value)
<1>1. /\ b \in Nat /\ 0 < b /\ Len(text) \in Nat /\ b - 1 <= Len(text)
      /\ Len(s) \in Nat /\ b <= Len(s)
      /\ \A k \in 1 .. b - 1 : text[k] = s[k]
      /\ b <= Len(text) => text[b] \in Scan!Controls
      /\ Len(text) = b - 1 \/ b <= Len(text)
  BY RuinedIs DEF Ruined
<1>2. verdict = "none" /\ RuinedAt(b) /\ text # s
  BY Zenon DEF Scan!Turn, Ruined
<1>3. /\ Tracks(R, s, FALSE, 0, 0, FALSE, 0, value.members, value.depth, 1, value.plain)
      /\ R \subseteq Places
  BY TrackIs DEF Tracks, Between
<1>4. at \in Nat /\ 0 < at /\ quoted \in BOOLEAN
  BY <1>3, PointIs
<1>5. at <= Len(s) /\ at <= Len(text)
  BY <1>1, <1>4
<1>6. s[at] \in Tokens
  BY <1>5, TrackHere
<1>7. text[at] = s[at] /\ text[at] \notin Scan!Controls
  <2>1. at \in 1 .. b - 1
    BY <1>1, <1>4
  <2> QED
    BY <1>1, <1>6, <2>1, TokensAreNoControls
<1>8. Takes(text, at, quoted, j)
  <2>1. /\ 0 \in Nat /\ at \in Int /\ j <= Len(s) /\ j + 0 <= Len(text) /\ j + 0 = j /\ at + 0 = at
    BY <1>1, <1>4
  <2>2. \A k \in at .. j : text[k + 0] = s[k]
    <3> SUFFICES ASSUME NEW k \in at .. j PROVE text[k + 0] = s[k]
      OBVIOUS
    <3>1. k \in 1 .. b - 1 /\ k + 0 = k
      BY <1>1, <1>4
    <3> QED
      BY <1>1, <3>1
  <2>3. ASSUME NumberAt(s, at, quoted), j + 0 < Len(text)
        PROVE  text[j + 0 + 1] \notin Scan!Digits \cup {".", "e"}
    <3>1. Numeral(s, at, j)
      BY <2>3 DEF Takes
    <3>2. CASE j + 1 < b
      <4>1. j + 1 \in 1 .. b - 1 /\ j # Len(s) /\ j + 0 + 1 = j + 1
        BY <1>1, <1>4, <3>2
      <4>2. text[j + 0 + 1] = s[j + 1]
        BY <1>1, <4>1
      <4>3. s[j + 1] \notin Scan!Digits
        BY <3>1, <4>1 DEF Numeral
      <4>4. s[j + 1] \notin {".", "e"}
        BY <2>3, <4>1 DEF Takes
      <4> QED
        BY <4>2, <4>3, <4>4
    <3>3. CASE j + 1 = b
      <4>1. j + 0 + 1 = b /\ b <= Len(text)
        BY <1>1, <2>3, <3>3
      <4> QED
        BY <1>1, <4>1, ControlsAre
    <3> QED
      BY <1>1, <3>2, <3>3
  <2>4. Takes(text, at + 0, quoted, j + 0)
    BY <1>1, <2>1, <2>2, <2>3, MovedTakes
  <2> QED
    BY <2>1, <2>4
<1>9. Scan!Taken = j
  BY <1>1, <1>4, <1>5, <1>7, <1>8, TakesIs
<1>10. /\ verdict' = "none" /\ value' = value /\ text' = text /\ at' = j + 1
       /\ quoted' = Quotes(text[at], quoted)
       /\ depth' = Nests(text[at], quoted, depth)
       /\ members' = Counts(text[at], quoted, members)
  BY <1>4, <1>9, TurnIs
<1>11. Point' \in R
  BY <1>7, <1>10 DEF Point
<1>12. /\ at' \in Nat /\ quoted' \in BOOLEAN /\ depth' \in Nat /\ members' \in Nat
       /\ Point'[1] = at' /\ Point'[3] = depth'
  BY <1>3, <1>11 DEF Point, Places
<1>13. at' < b \/ (at' = b /\ (1 < b => 1 <= depth'))
  <2>1. CASE at' = b
    <3>1. Within(s, Point', value.members, value.depth, 1)
      BY <1>1, <1>3, <1>11, <1>12, <2>1 DEF Tracks
    <3> QED
      BY <1>12, <2>1, <3>1 DEF Within
  <2>2. CASE at' # b
    BY <1>1, <1>10, <2>2
  <2> QED
    BY <2>1, <2>2
<1>14. RuinedAt(b)' /\ (text # value.text)'
  BY <1>2, <1>10 DEF RuinedAt, s
<1>15. Point' \in Track(value)'
  BY <1>10, <1>11
<1>16. verdict' # "accepted"
  BY <1>10
<1> QED
  BY <1>12, <1>13, <1>14, <1>15, <1>16 DEF Ruined

LEMMA RuinedTurn ==
    ASSUME value \in Scan!JsonValues, NEW b, Ruined(b), Scan!Turn, ~Scan!Hidden
    PROVE  Ruined(b)'
<1> DEFINE s == value.text
           R == Track(value)
<1>1. /\ b \in Nat /\ 0 < b /\ Len(text) \in Nat /\ b - 1 <= Len(text)
      /\ Len(s) \in Nat /\ b <= Len(s)
      /\ \A k \in 1 .. b - 1 : text[k] = s[k]
      /\ b <= Len(text) => text[b] \in Scan!Controls
      /\ Len(text) = b - 1 \/ b <= Len(text)
  BY RuinedIs DEF Ruined
<1>2. verdict = "none" /\ at <= Len(text) /\ RuinedAt(b) /\ text # s
  BY Zenon DEF Scan!Turn, Ruined
<1>3. \/ at < b /\ Point \in R
      \/ at = b
  BY <1>2 DEF Ruined
<1>4. CASE Scan!Refused
  <2>1. verdict' = "refused" /\ value' = value /\ text' = text
    BY <1>4, RefusedTurn
  <2>2. RuinedAt(b)' /\ (text # value.text)'
    BY <1>2, <2>1 DEF RuinedAt, s
  <2> QED
    BY <2>1, <2>2 DEF Ruined
<1>5. CASE ~Scan!Refused
  <2>1. at # b
    <3>1. at = b => text[at] \in Scan!Controls
      BY <1>1, <1>2
    <3> QED
      BY <1>5, <3>1, Zenon DEF Scan!Refused
  <2>2. at < b /\ Point \in R
    BY <1>3, <2>1
  <2>3. /\ Tracks(R, s, FALSE, 0, 0, FALSE, 0, value.members, value.depth, 1, value.plain)
        /\ R \subseteq Places
    BY TrackIs DEF Tracks, Between
  <2>4. at \in Nat /\ 0 < at /\ quoted \in BOOLEAN
    BY <2>2, <2>3, PointIs
  <2>5. at <= Len(s) /\ text[at] = s[at]
    BY <1>1, <2>2, <2>4
  <2>6. \/ Broken(s, at, quoted)
        \/ \E j \in Int :
              /\ at <= j /\ j <= Len(s) /\ Takes(s, at, quoted, j)
              /\ <<j + 1, Quotes(s[at], quoted), Nests(s[at], quoted, depth),
                   Counts(s[at], quoted, members)>> \in R
    BY <2>2, <2>5, TrackHere
  <2>7. ASSUME EscapeAt(s, at, quoted) PROVE at + 1 # b
    <3>1. quoted /\ text[at] = Scan!Escape
      BY <2>5, <2>7 DEF EscapeAt
    <3>2. at # Len(text)
      BY <1>5, <3>1, Zenon DEF Scan!Refused
    <3>3. SUFFICES ASSUME at + 1 = b PROVE FALSE
      OBVIOUS
    <3>4. b \in 2 .. Len(text) /\ b - 1 = at
      BY <1>1, <2>4, <3>2, <3>3
    <3>5. text[b] \in Scan!Controls /\ text[b - 1] = Scan!Escape
      BY <1>1, <3>1, <3>4
    <3> QED
      BY <3>4, <3>5 DEF Scan!Hidden
  <2>8. ASSUME NEW j, NumberAt(s, at, quoted), Numeral(s, at, j), b <= j + 1
        PROVE  Ruined(b)'
    BY <1>5, <2>2, <2>8, RuinedNumberTurn
  <2>9. CASE Broken(s, at, quoted)
    <3>1. PICK j : Stops(s, at, quoted, j)
      BY <2>9 DEF Broken
    <3>2. j \in Int /\ at <= j /\ j < Len(s)
      BY <3>1 DEF Stops
    <3>3. ~(j + 1 < b)
      <4> SUFFICES ASSUME j + 1 < b PROVE FALSE
        OBVIOUS
      <4>1. /\ 0 \in Nat /\ at \in Int /\ j + 0 < Len(text) /\ j + 0 = j /\ at + 0 = at
        BY <1>1, <2>4, <3>2
      <4>2. ASSUME NEW k \in at .. j + 1 PROVE text[k + 0] = s[k]
        <5>1. k \in 1 .. b - 1 /\ k + 0 = k
          BY <1>1, <2>4, <3>2
        <5> QED
          BY <1>1, <5>1
      <4>3. Stops(text, at + 0, quoted, j + 0)
        BY <1>1, <3>1, <3>2, <4>1, <4>2, MovedStops
      <4>4. Broken(text, at, quoted)
        BY <4>1, <4>3 DEF Broken
      <4> QED
        BY <1>1, <1>5, <2>4, <4>4, BrokenIsRefused
    <3>4. CASE NumberAt(s, at, quoted) /\ Numeral(s, at, j)
      BY <1>1, <2>8, <3>2, <3>3, <3>4
    <3>5. CASE EscapeAt(s, at, quoted) /\ j = at
      BY <1>1, <2>2, <2>4, <2>7, <3>3, <3>5
    <3> QED
      BY <3>1, <3>4, <3>5 DEF Stops
  <2>10. CASE \E j \in Int :
              /\ at <= j /\ j <= Len(s) /\ Takes(s, at, quoted, j)
              /\ <<j + 1, Quotes(s[at], quoted), Nests(s[at], quoted, depth),
                   Counts(s[at], quoted, members)>> \in R
    <3>1. PICK j \in Int :
              /\ at <= j /\ j <= Len(s) /\ Takes(s, at, quoted, j)
              /\ <<j + 1, Quotes(s[at], quoted), Nests(s[at], quoted, depth),
                   Counts(s[at], quoted, members)>> \in R
      BY <2>10
    <3>2. CASE j < b
      BY <1>5, <2>2, <3>1, <3>2, RuinedTaken
    <3>3. CASE ~(j < b)
      <4>1. CASE NumberAt(s, at, quoted)
        <5>1. Numeral(s, at, j)
          BY <3>1, <4>1 DEF Takes
        <5>2. b <= j + 1
          BY <1>1, <3>1, <3>3
        <5> QED
          BY <2>8, <4>1, <5>1, <5>2
      <4>2. CASE EscapeAt(s, at, quoted)
        <5>1. j = at + 1
          BY <3>1, <4>2 DEF Takes
        <5>2. at + 1 # b
          BY <2>7, <4>2
        <5> QED
          BY <1>1, <2>2, <2>4, <3>3, <5>1, <5>2
      <4>3. CASE ~NumberAt(s, at, quoted) /\ ~EscapeAt(s, at, quoted)
        <5>1. j = at
          BY <3>1, <4>3 DEF Takes
        <5> QED
          BY <2>2, <3>3, <5>1
      <4> QED
        BY <4>1, <4>2, <4>3
    <3> QED
      BY <3>2, <3>3
  <2> QED
    BY <2>6, <2>9, <2>10
<1> QED
  BY <1>4, <1>5

LEMMA RuinedReturn ==
    ASSUME value \in Scan!JsonValues, NEW b, Ruined(b), Scan!Return
    PROVE  Ruined(b)'
<1>1. /\ b \in Nat /\ 0 < b /\ Len(text) \in Nat /\ b - 1 <= Len(text)
      /\ Len(text) = b - 1 \/ b <= Len(text)
  BY RuinedIs DEF Ruined
<1>2. /\ verdict = "none" /\ at > Len(text) /\ value' = value /\ text' = text
      /\ verdict' = IF ~quoted /\ depth = 0 THEN "accepted" ELSE "refused"
  BY DEF Scan!Return
<1>3. /\ RuinedAt(b) /\ text # value.text /\ depth \in Nat
      /\ \/ at < b /\ Point \in Track(value)
         \/ at = b /\ (1 < b => 1 <= depth)
  BY <1>2 DEF Ruined
<1>4. at = b /\ Len(text) = b - 1
  <2>1. CASE at < b
    <3>1. Track(value) \subseteq Places
      BY TrackIs DEF Tracks, Between
    <3>3. Point \in Track(value)
      BY <1>1, <1>3, <2>1
    <3>2. at \in Nat
      BY <3>1, <3>3, PointIs
    <3> QED
      BY <1>1, <1>2, <2>1, <3>2
  <2>2. CASE at = b
    BY <1>1, <1>2, <2>2
  <2> QED
    BY <1>3, <2>1, <2>2
<1>5. 1 < b
  <2>1. Len(value.text) \in Nat
    BY TrackIs, WordingIs
  <2> QED
    BY <1>1, <1>3, <1>4, <2>1 DEF RuinedAt
<1>6. verdict' = "refused"
  BY <1>1, <1>2, <1>3, <1>4, <1>5
<1>7. RuinedAt(b)' /\ (text # value.text)'
  BY <1>2, <1>3 DEF RuinedAt
<1> QED
  BY <1>6, <1>7 DEF Ruined

-----------------------------------------------------------------------------

LEMMA ScanStep ==
    ASSUME ScanInv, [MCNext]_MCvars
    PROVE  ScanInv'
<1>1. CASE part = "scan" /\ Scan!Next /\ part' = part
  <2>1. /\ value \in Scan!JsonValues
        /\ Scan!Hidden \/ Whole \/ \E b : Ruined(b)
    BY <1>1 DEF ScanInv
  <2>2. /\ value' = value /\ text' = text
        /\ verdict' \in {"none", "accepted", "refused"}
    <3>1. CASE Scan!Turn
      BY <3>1, Zenon DEF Scan!Turn
    <3>2. CASE Scan!Return
      BY <3>2, Zenon DEF Scan!Return
    <3> QED
      BY <1>1, <3>1, <3>2 DEF Scan!Next
  <2>3. (value \in Scan!JsonValues)'
    <3>1. Scan!JsonValues' = Scan!JsonValues
      BY DEF Scan!JsonValues
    <3> QED
      BY <2>1, <2>2, <3>1
  <2>4. (Scan!Hidden \/ Whole \/ \E b : Ruined(b))'
    <3>1. CASE Scan!Hidden
      BY <2>2, <3>1 DEF Scan!Hidden
    <3>2. CASE Whole
      BY <1>1, <2>1, <3>2, WholeTurn, WholeReturn DEF Scan!Next
    <3>3. CASE ~Scan!Hidden /\ \E b : Ruined(b)
      <4>1. PICK b : Ruined(b)
        BY <3>3
      <4>2. Ruined(b)'
        BY <1>1, <2>1, <3>3, <4>1, RuinedTurn, RuinedReturn DEF Scan!Next
      <4> QED
        BY <4>2
    <3> QED
      BY <2>1, <3>1, <3>2, <3>3
  <2> QED
    BY <1>1, <2>2, <2>3, <2>4 DEF ScanInv
<1>2. CASE part' = part /\ UNCHANGED scanVars
  <2>1. /\ value' = value /\ text' = text /\ at' = at /\ quoted' = quoted
        /\ depth' = depth /\ members' = members /\ verdict' = verdict
    BY <1>2 DEF scanVars
  <2>2. Whole' = Whole
    BY <2>1 DEF Whole, Allowed, Point, Passed
  <2>3. \A b : Ruined(b)' = Ruined(b)
    BY <2>1 DEF Ruined, RuinedAt, Point
  <2>4. Scan!Hidden' = Scan!Hidden
    BY <2>1 DEF Scan!Hidden
  <2> QED
    BY <1>2, <2>1, <2>2, <2>3, <2>4 DEF ScanInv
<1>3. \/ part = "scan" /\ Scan!Next /\ part' = part
      \/ part' = part /\ UNCHANGED scanVars
  BY Zenon DEF MCNext, MCvars
<1> QED
  BY <1>1, <1>2, <1>3

\* Of the texts, the scan lets pass exactly those that are whole, nested and separated
\* within the limits, with integers only and without a NUL, plain or escaped, whatever
\* the limits and however deep the values go (valid_bytes).
THEOREM ScanDecidesRight == MCSpec => []ScanDecides
<1>1. MCInit => ScanInv
  <2> SUFFICES ASSUME MCInit PROVE ScanInv
    OBVIOUS
  <2>1. CASE part = "scan"
    <3>1. Scan!Init
      BY <2>1, Zenon DEF MCInit
    <3>2. /\ value \in Scan!JsonValues /\ verdict = "none"
          /\ Whole \/ \E b : Ruined(b)
      BY <3>1, InputAssumption, ScanStarts
    <3> QED
      BY <2>1, <3>2 DEF ScanInv
  <2>2. CASE part # "scan"
    <3>1. verdict = "none"
      BY <2>2, Zenon DEF MCInit
    <3> QED
      BY <2>2, <3>1 DEF ScanInv
  <2> QED
    BY <2>1, <2>2
<1>2. ScanInv /\ [MCNext]_MCvars => ScanInv'
  BY ScanStep
<1> QED
  BY <1>1, <1>2, ScanInvDecides, PTL DEF MCSpec
=============================================================================
