------------------------------ MODULE CommandText ----------------------------
(***************************************************************************)
(* The scan that every request passes before the JSON parser may allocate  *)
(* anything for it: valid_bytes of command_decoder.c.  One step is one     *)
(* turn of its loop.  The texts it is run on are JSON values built by the  *)
(* grammar, whole, cut short or with one byte replaced by a NUL or another *)
(* control character, so that what it has to find is known beforehand.     *)
(* Letters stand for bytes: "u0000" for u and four zeros, "high" for a     *)
(* well-formed character of several bytes (TextRules has the same          *)
(* decoding), "a" for any other byte of a name or literal.                 *)
(***************************************************************************)
EXTENDS Integers, Sequences

CONSTANTS
    DepthLimit,   \* nesting allowed (8 in the code)
    MemberLimit,  \* separators allowed (128 in the code)
    Levels        \* bound: nesting of the values that are tried

CommandTextAssumption == DepthLimit \in Nat /\ MemberLimit \in Nat /\ Levels \in Nat

Controls == {"NUL", "control"}
Quote == "quote"
Escape == "backslash"

-----------------------------------------------------------------------------
(* The values of JSON (external), each with what the scan must find in it *)

Value(text, depth, members, plain) ==
    [text |-> text, depth |-> depth, members |-> members, plain |-> plain]

String(inner) == <<Quote>> \o inner \o <<Quote>>

\* What a backslash may not stand before: the zeros of a NUL, and a character of several
\* bytes, whose first byte the escape takes and whose second is then refused.
Unescapable == {"u0000", "high"}

\* Plain are the integers, and the strings where no backslash stands before one of those.
Scalars ==
    {Value(n, 0, 0, TRUE) : n \in {<<"1">>, <<"0">>, <<"-", "0">>, <<"1", "0">>, <<"a", "e">>}}
    \cup {Value(n, 0, 0, FALSE) :
             n \in {<<"1", ".", "1">>, <<"0", "e", "1">>, <<"-", "1", ".", "0">>}}
    \cup {Value(String(s), 0, 0, TRUE) :
             s \in {<<>>, <<"{", ":">>, <<"1", ".">>, <<"high">>, <<Escape, Quote, ",">>,
                    <<Escape, Escape>>, <<Escape, Escape, "u0000">>}}
    \cup {Value(String(<<Escape, c>>), 0, 0, FALSE) : c \in Unescapable}

Keys == {String(<<"a">>), String(<<Escape, Quote>>)}

\* No item, one or two.
NoItem == Value(<<"[", "]">>, 1, 0, TRUE)

OneItem(v) == Value(<<"[">> \o v.text \o <<"]">>, v.depth + 1, v.members, v.plain)

TwoItems(v, w) ==
    Value(<<"[">> \o v.text \o <<",">> \o w.text \o <<"]">>,
          (IF v.depth > w.depth THEN v.depth ELSE w.depth) + 1,
          v.members + w.members + 1, v.plain /\ w.plain)

Object(key, v) ==
    Value(<<"{">> \o key \o <<":">> \o v.text \o <<"}">>, v.depth + 1, v.members + 1, v.plain)

Containers(S) ==
    {NoItem} \cup {OneItem(v) : v \in S} \cup {Object(key, v) : key \in Keys, v \in S}

JsonValues ==
    LET level[n \in 0 .. Levels] ==
            IF n = 0 THEN Scalars
            ELSE IF n = 1 THEN Containers(Scalars) \cup {TwoItems(v, w) : v, w \in Scalars}
            ELSE Containers(level[n - 1])
    IN  UNION {level[n] : n \in 1 .. Levels}

-----------------------------------------------------------------------------

VARIABLES
    value,    \* the value that is sent
    text,     \* the bytes that come
    at,       \* i, from 1
    quoted, depth, members,
    verdict   \* what valid_bytes returns, once it does

vars == <<value, text, at, quoted, depth, members, verdict>>

Init ==
    /\ value \in JsonValues
    /\ LET sent == value.text
       IN  text \in {SubSeq(sent, 1, n) : n \in DOMAIN sent}
                    \cup {[sent EXCEPT ![n] = c] : n \in DOMAIN sent, c \in Controls}
    /\ at = 1
    /\ quoted = FALSE /\ depth = 0 /\ members = 0
    /\ verdict = "none"

Digits == {"0", "1"}

Is(i, letters) == i <= Len(text) /\ text[i] \in letters

\* The last digit of the number whose digits begin at i.
LastDigit(i) ==
    CHOOSE j \in i .. Len(text) : (\A k \in i .. j : Is(k, Digits)) /\ ~Is(j + 1, Digits)

FirstDigit == IF text[at] = "-" THEN at + 1 ELSE at

\* An integer without a leading zero, a fraction or an exponent begins here.
IntegerHere ==
    /\ Is(FirstDigit, Digits)
    /\ ~(text[FirstDigit] = "0" /\ Is(FirstDigit + 1, Digits))
    /\ ~Is(LastDigit(FirstDigit) + 1, {".", "e"})

\* The loop returns false at this byte.
Refused ==
    \/ text[at] \in Controls
    \/ text[at] = "high" /\ ~quoted
    \/ quoted /\ text[at] = Escape /\ (at = Len(text) \/ text[at + 1] \in Unescapable)
    \/ ~quoted /\ text[at] \in {":", ","} /\ members = MemberLimit
    \/ ~quoted /\ text[at] \in {"{", "["} /\ depth = DepthLimit
    \/ ~quoted /\ text[at] \in {"}", "]"} /\ depth = 0
    \/ ~quoted /\ text[at] \in Digits \cup {"-"} /\ ~IntegerHere
    \/ ~quoted /\ text[at] \in {"+", "."}

\* Mutant: an escaped byte is looked at again.
TakenPlain ==
    IF ~quoted /\ text[at] \in Digits \cup {"-"} THEN LastDigit(FirstDigit) ELSE at

\* The last byte that this turn of the loop takes.
Taken ==
    IF quoted /\ text[at] = Escape THEN at + 1
    ELSE IF ~quoted /\ text[at] \in Digits \cup {"-"} THEN LastDigit(FirstDigit)
    ELSE at

Turn ==
    /\ verdict = "none" /\ at <= Len(text)
    /\ IF Refused
       THEN /\ verdict' = "refused"
            /\ UNCHANGED <<at, quoted, depth, members>>
       ELSE /\ at' = Taken + 1
            /\ quoted' = (quoted # (text[at] = Quote))
            /\ members' = IF ~quoted /\ text[at] \in {":", ","} THEN members + 1 ELSE members
            /\ depth' = IF quoted THEN depth
                        ELSE IF text[at] \in {"{", "["} THEN depth + 1
                        ELSE IF text[at] \in {"}", "]"} THEN depth - 1 ELSE depth
            /\ UNCHANGED verdict
    /\ UNCHANGED <<value, text>>

Return ==
    /\ verdict = "none" /\ at > Len(text)
    /\ verdict' = IF ~quoted /\ depth = 0 THEN "accepted" ELSE "refused"
    /\ UNCHANGED <<value, text, at, quoted, depth, members>>

Next == Turn \/ Return

Spec == Init /\ [][Next]_vars

\* A control character stands behind a backslash, where only the parser looks at it.
Hidden ==
    \E i \in 2 .. Len(text) : text[i] \in Controls /\ text[i - 1] = Escape

\* Of the texts, the scan lets pass exactly those that are whole, nested and
\* separated within the limits, with integers only and without a NUL, plain or
\* escaped: whatever strings contain, escapes included, neither counts nor hides
\* structure, and no fraction or exponent slips through (valid_bytes).  How large an
\* integer may be is decided behind the parser, where the members are looked at.
ScanDecides ==
    verdict # "none" /\ ~Hidden =>
        (verdict = "accepted" <=>
            /\ text = value.text
            /\ value.depth <= DepthLimit /\ value.members <= MemberLimit /\ value.plain)
=============================================================================
