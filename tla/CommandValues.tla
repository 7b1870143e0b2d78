----------------------------- MODULE CommandValues ---------------------------
(* The values of a parsed request: an integer; a string with its kind (or the   *)
(* word itself) and its length; null; an object, whose members are kept apart;  *)
(* and the answer of a lookup that finds nothing.                               *)
EXTENDS Sequences

Number(n) == [type |-> "number", s |-> "", n |-> n]
Text(s, n) == [type |-> "string", s |-> s, n |-> n]
Word(s) == Text(s, Len(s))
Null == [type |-> "null", s |-> "", n |-> 0]
Object == [type |-> "object", s |-> "", n |-> 0]
Missing == [type |-> "missing", s |-> "", n |-> 0]
=============================================================================
