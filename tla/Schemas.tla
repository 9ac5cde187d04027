------------------------------ MODULE Schemas ------------------------------
(***************************************************************************)
(* JSON schemas as far as the rewriting of OpenAPI 3.0 schemas into 3.1    *)
(* ones tells them apart (core/normalize.py): the types allowed, nullable, *)
(* an upper bound, and the schemas of allOf.  The lower bound, items and   *)
(* properties are treated alike by the code.  types = {} means that the    *)
(* keyword is absent.                                                      *)
(***************************************************************************)
EXTENDS Naturals, Sequences

\* What a keyword that bounds a number can hold.
Absent == [is |-> "absent"]
Yes == [is |-> "true"]
No == [is |-> "false"]
Null == [is |-> "null"]
Number(n) == [is |-> "number", n |-> n]

Maxima == {Absent} \cup [is : {"number"}, n : Nat]

JsonTypes == {"string", "number", "integer", "boolean", "array", "object", "null"}

\* A schema without allOf, and one with: schemas are nested one deep.
BranchSchemas ==
  [types : SUBSET JsonTypes, nullable : BOOLEAN, maximum : Maxima,
   exclusiveMaximum : Maxima \cup {Yes, No, Null}, allOf : {<<>>}]

ParameterSchemas ==
  [types : SUBSET JsonTypes, nullable : BOOLEAN, maximum : Maxima,
   exclusiveMaximum : Maxima \cup {Yes, No, Null}, allOf : Seq(BranchSchemas)]

\* One level of _normalize_schema_30_to_31; a maximum that is missing becomes None.
NormalizeKeywords(s) ==
  [s EXCEPT
     !.nullable = FALSE,
     !.types = IF s.nullable THEN @ \cup {"null"} ELSE @,
     !.maximum = IF s.exclusiveMaximum = Yes THEN Absent ELSE @,
     !.exclusiveMaximum =
       CASE @ = Yes /\ s.maximum = Absent -> Null
         [] @ = Yes /\ s.maximum # Absent -> s.maximum
         [] OTHER -> @]

\* Mutant: the schemas of allOf are left as they are.
NormalizeOneLevel(s) == NormalizeKeywords(s)

NormalizeSchema(s) ==
  [NormalizeKeywords(s) EXCEPT
     !.allOf = [i \in DOMAIN @ |-> NormalizeKeywords(@[i])]]

(***************************************************************************)
(* What the two dialects mean.  A value is a record of its type and, for   *)
(* integers, its number.  The jsonschema library refuses to validate with  *)
(* a schema whose exclusiveMaximum is present and no number.               *)
(***************************************************************************)
AtMost(v, bound) ==
  v.type = "integer" /\ bound.is = "number" => v.n <= bound.n

LessThan(v, bound) ==
  v.type = "integer" /\ bound.is = "number" => v.n < bound.n

Meets30(v, s) ==
  /\ \/ s.types = {}
     \/ v.type \in s.types
     \/ s.nullable /\ v.type = "null"
  /\ AtMost(v, s.maximum)
  /\ s.exclusiveMaximum = Yes => LessThan(v, s.maximum)

Meets31(v, s) ==
  /\ s.types = {} \/ v.type \in s.types
  /\ AtMost(v, s.maximum)
  /\ s.exclusiveMaximum.is \in {"absent", "number"}
  /\ LessThan(v, s.exclusiveMaximum)

Branches(s) == {s} \cup {s.allOf[i] : i \in DOMAIN s.allOf}

Accepts30(v, s) == \A b \in Branches(s) : Meets30(v, b)

Accepts31(v, s) == \A b \in Branches(s) : Meets31(v, b)

\* What the validator lets through in 3.0: there exclusiveMaximum is a boolean.
Is30(s) == \A b \in Branches(s) : b.exclusiveMaximum \in {Absent, Yes, No}

\* What jsonschema.validate, which checks the schema first, does not raise for.
WellFormed(s) == \A b \in Branches(s) : b.exclusiveMaximum.is \in {"absent", "number"}

(***************************************************************************)
(* Two legal uses of the 3.0 keywords that the rewriting gets wrong.  An   *)
(* exclusiveMaximum that is false, its default, stays a boolean, and one   *)
(* that is true without a maximum becomes None.  nullable without a type   *)
(* means nothing in 3.0, and becomes the type "null".                      *)
(***************************************************************************)
BoundStays(b) ==
  \/ b.exclusiveMaximum = No
  \/ b.exclusiveMaximum = Yes /\ b.maximum = Absent

NullOnly(b) == b.nullable /\ b.types = {}

\* The values that a schema accepts in 3.0 and no longer once it is rewritten.
WronglyRefused(v, s) ==
  \E b \in Branches(s) : BoundStays(b) \/ (NullOnly(b) /\ v.type # "null")
=============================================================================
