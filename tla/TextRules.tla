------------------------------- MODULE TextRules -----------------------------
(***************************************************************************)
(* The scans of config_codec.c that decide whether a text may stand in a   *)
(* configuration: hostname_valid over letters, and utf8 over bytes.  A     *)
(* behaviour types a text, one letter or byte at a time; after each the    *)
(* scan is compared with the definition of what it looks for.              *)
(***************************************************************************)
EXTENDS Integers, Sequences

CONSTANTS
    Alphabet,   \* letters of host names; "x" stands for every alphanumeric one
    Octets,     \* bytes of UTF-8 texts
    MaxHost,    \* bytes of a host name (253 in the code)
    MaxLabel,   \* bytes of a label (63 in the code)
    MaxOctets   \* bound: bytes of a text

TextAssumption == MaxLabel \in Nat /\ Octets \subseteq 0 .. 255

VARIABLES
    host, octets

vars == <<host, octets>>

Init == host = <<>> /\ octets = <<>>

\* One text is typed; the other stays empty.  A host name may grow too long.
TypeLetter ==
    /\ octets = <<>> /\ Len(host) <= MaxHost
    /\ \E c \in Alphabet : host' = Append(host, c)
    /\ UNCHANGED octets

TypeOctet ==
    /\ host = <<>> /\ Len(octets) < MaxOctets
    /\ \E c \in Octets : octets' = Append(octets, c)
    /\ UNCHANGED host

Next == TypeLetter \/ TypeOctet

Spec == Init /\ [][Next]_vars

-----------------------------------------------------------------------------
(* hostname_valid *)

\* label, as it is when the loop comes to the letter after i
Label(s) ==
    LET label[i \in 0 .. Len(s)] ==
            IF i = 0 \/ s[i] = "." THEN 0 ELSE label[i - 1] + 1
    IN  label

\* Mutant: a hyphen may end a label, save the last one.
LetterGoesOnHyphen(s, i) ==
    LET label == Label(s)
    IN  IF s[i] = "." THEN label[i - 1] # 0 /\ i # Len(s)
        ELSE /\ s[i] = "x" \/ (s[i] = "-" /\ label[i - 1] # 0)
             /\ label[i] <= MaxLabel
             /\ ~(i = Len(s) /\ s[i] = "-")

\* The loop does not return at letter i.
LetterGoesOn(s, i) ==
    LET label == Label(s)
    IN  IF s[i] = "." THEN label[i - 1] # 0 /\ s[i - 1] # "-" /\ i # Len(s)
        ELSE /\ s[i] = "x" \/ (s[i] = "-" /\ label[i - 1] # 0)
             /\ label[i] <= MaxLabel
             /\ ~(i = Len(s) /\ s[i] = "-")

HostnameValid(s) == Len(s) \in 1 .. MaxHost /\ \A i \in DOMAIN s : LetterGoesOn(s, i)

-----------------------------------------------------------------------------
(* utf8 *)

\* Mutant: the code point is not compared with the least of its length.
AcceptableOverlong(cp, minimum, ssid) ==
    /\ cp >= 32 /\ cp <= 1114111 /\ (cp < 55296 \/ cp > 57343)
    /\ cp < 127 \/ cp > (IF ssid THEN 127 ELSE 159)
    /\ ssid \/ ((cp < 64976 \/ cp > 65007) /\ cp % 65536 < 65534)

\* The code point at the end of the loop.
Acceptable(cp, minimum, ssid) ==
    /\ cp >= minimum
    /\ cp >= 32 /\ cp <= 1114111 /\ (cp < 55296 \/ cp > 57343)
    /\ cp < 127 \/ cp > (IF ssid THEN 127 ELSE 159)
    /\ ssid \/ ((cp < 64976 \/ cp > 65007) /\ cp % 65536 < 65534)

\* Bytes that follow a first byte, the bits it gives and the least code point.
More(c) ==
    IF c \in 194 .. 223 THEN [more |-> 1, bits |-> c % 32, minimum |-> 128]
    ELSE IF c \in 224 .. 239 THEN [more |-> 2, bits |-> c % 16, minimum |-> 2048]
    ELSE IF c \in 240 .. 244 THEN [more |-> 3, bits |-> c % 8, minimum |-> 65536]
    ELSE [more |-> 0, bits |-> c, minimum |-> 0]

\* cp, behind the bytes of the character at i.
CodePoint(s, i) ==
    LET first == More(s[i])
        cp[j \in 0 .. first.more] ==
            IF j = 0 THEN first.bits ELSE cp[j - 1] * 64 + (s[i + j] % 64)
    IN  cp[first.more]

\* The loop does not return at the character that begins at i.
CharacterGoesOn(s, i, ssid) ==
    LET first == More(s[i])
    IN  /\ s[i] < 128 \/ first.more > 0
        /\ i + first.more <= Len(s)
        /\ \A j \in 1 .. first.more : s[i + j] \in 128 .. 191
        /\ Acceptable(CodePoint(s, i), first.minimum, ssid)

\* The bytes from i on pass the loop.
Utf8Valid(s, ssid) ==
    LET valid[i \in 1 .. Len(s) + 1] ==
            \/ i = Len(s) + 1
            \/ CharacterGoesOn(s, i, ssid) /\ valid[i + More(s[i]).more + 1]
    IN  valid[1]

-----------------------------------------------------------------------------

\* A DNS name: labels joined by dots, each of 1 to MaxLabel letters, digits and
\* hyphens with no hyphen at either end.  The scan, which looks at one letter and
\* two counters, accepts exactly those (hostname_valid).
DnsName(s) ==
    LET Dots == {i \in DOMAIN s : s[i] = "."} \cup {0, Len(s) + 1}
        Labels == {p \in Dots \X Dots : p[1] < p[2] /\ \A d \in Dots : d <= p[1] \/ d >= p[2]}
    IN  /\ Len(s) \in 1 .. MaxHost
        /\ \A i \in DOMAIN s : s[i] \in {"x", "-", "."}
        /\ \A p \in Labels :
              /\ p[2] - p[1] - 1 \in 1 .. MaxLabel
              /\ s[p[1] + 1] # "-" /\ s[p[2] - 1] # "-"

HostnamesAreDnsNames == HostnameValid(host) <=> DnsName(host)

\* The well-formed sequences of the Unicode standard (table 3-7), as ranges of the
\* bytes, without the control characters and, but for an SSID, the C1 controls and
\* the noncharacters.
Trail == 128 .. 191

Forms == {<<32 .. 126>>, <<194 .. 223, Trail>>,
          <<{224}, 160 .. 191, Trail>>, <<225 .. 236, Trail, Trail>>,
          <<{237}, 128 .. 159, Trail>>, <<238 .. 239, Trail, Trail>>,
          <<{240}, 144 .. 191, Trail, Trail>>, <<241 .. 243, Trail, Trail, Trail>>,
          <<{244}, 128 .. 143, Trail, Trail>>}

Excluded == {<<{194}, 128 .. 159>>, <<{239}, {183}, 144 .. 175>>,
             <<{239}, {191}, {190, 191}>>,
             <<240 .. 244, {143, 159, 175, 191}, {191}, {190, 191}>>}

\* The bytes of s from i on are in these ranges.
In(s, i, ranges) ==
    /\ i + Len(ranges) - 1 <= Len(s)
    /\ \A j \in DOMAIN ranges : s[i + j - 1] \in ranges[j]

WellFormedChars(s, ssid) ==
    LET formed[i \in 1 .. Len(s) + 1] ==
            \/ i = Len(s) + 1
            \/ \E form \in Forms :
                  /\ In(s, i, form)
                  /\ ssid \/ \A e \in Excluded : ~In(s, i, e)
                  /\ formed[i + Len(form)]
    IN  formed[1]

\* The scan by arithmetic accepts exactly the well-formed texts: nothing overlong, no
\* surrogate, no character cut short, no control character (utf8).
Utf8IsWellFormed ==
    \A ssid \in BOOLEAN : Utf8Valid(octets, ssid) <=> WellFormedChars(octets, ssid)
=============================================================================
