----------------------------- MODULE Simplifier -----------------------------
(***************************************************************************)
(* The Simplify stage (core/simplify.py): the arguments an LLM sees for an *)
(* operation and the ArgumentMap that says where each belongs.             *)
(*                                                                         *)
(* A slot is a place of an HTTP request that takes a value: its kind and   *)
(* its path, as in ArgumentBinding.  props is the dict of the properties   *)
(* of the LLM schema; of a property's schema it keeps the property names   *)
(* of an object schema (inner) and, for the properties below, the slot the *)
(* schema was written for (slot).  The body of an operation is a sequence  *)
(* of variants [object, fields]; fields are [name, required, inner].       *)
(***************************************************************************)
EXTENDS Normalizer

CONSTANT ExtensionWords  \* words that begin with "x-"

ASSUME ExtensionAssumption == ExtensionWords \subseteq STRING \ {"body"}

SpecOnlyWords == {"example", "examples", "xml", "externalDocs", "discriminator"}

SpecOnly(name) ==
  /\ name # <<>>
  /\ name[1] \in ExtensionWords \cup (IF Len(name) = 1 THEN SpecOnlyWords ELSE {})

Slot(kind, path) == [kind |-> kind, path |-> path]

\* Mutant: a name that is taken is used again.
KeyByName(name, bindings, suffix) == name

\* _unique_key: the name, else with the suffix, else with the suffix and a number.
UniqueKey(name, bindings, suffix) ==
  LET candidate == Append(name, suffix)
      Numbered(n) == Append(candidate, Numerals[n])
      free == {n \in 2..Len(Numerals) : Numbered(n) \notin Keys(bindings)}
  IN  CASE name \notin Keys(bindings) -> name
        [] name \in Keys(bindings) /\ candidate \notin Keys(bindings) -> candidate
        [] OTHER -> Numbered(Min(free))

\* One argument more, under a key of its own.
AddArgument(s, key, slot, inner, required) ==
  [props    |-> Put(s.props, [key |-> key, inner |-> inner, slot |-> slot]),
   bindings |-> Put(s.bindings, [key |-> key, slot |-> slot]),
   required |-> IF required THEN Append(s.required, key) ELSE s.required]

NoArguments == [props |-> <<>>, bindings |-> <<>>, required |-> <<>>]

AddParameter(s, p) ==
  AddArgument(s, UniqueKey(p.name, s.bindings, "query"),
              Slot(p.in, <<p.name>>), <<>>, p.required)

AddField(s, f, bodyRequired) ==
  AddArgument(s, UniqueKey(f.name, s.bindings, "body"),
              Slot("body_field", <<f.name>>), f.inner, bodyRequired /\ f.required)

WithParameters(params) == Fold(AddParameter, NoArguments, params)

WithFields(s, fields, bodyRequired) ==
  Fold(LAMBDA t, f : AddField(t, f, bodyRequired), s, fields)

\* build_argument_map: every parameter and top-level body field is an argument.
BuildArgumentMap(op) ==
  LET withParams == WithParameters(op.parameters)
      variant == op.body.variants[1]
  IN  CASE op.body = NoBody -> withParams
        [] op.body # NoBody /\ variant.object ->
             WithFields(withParams, variant.fields, op.body.required)
        [] OTHER ->
             AddArgument(withParams, UniqueKey(<<"body">>, withParams.bindings, "query"),
                         Slot("body_root", <<>>), <<>>, op.body.required)

\* apply_drop_spec_metadata recurses into dicts of properties as into schemas.
DropMetadata(s) ==
  LET props == Keep(s.props, {e \in Range(s.props) : ~SpecOnly(e.key)})
  IN  [s EXCEPT !.props =
         [i \in DOMAIN props |->
            [props[i] EXCEPT !.inner = Keep(@, {n \in Range(@) : ~SpecOnly(n)})]]]

IsWrapper(e, bindings) ==
  /\ e.key \in Keys(bindings)
  /\ Lookup(bindings, e.key).slot.kind = "body_field"
  /\ Len(e.inner) = 1

\* One property in the loop of apply_flatten_wrappers; old is the map before it.
FlattenProperty(new, e, old) ==
  IF ~IsWrapper(e, old)
  THEN [new EXCEPT !.props = Put(@, e)]
  ELSE LET inner == e.inner[1]
           key   == IF inner \in Keys(old) THEN e.key \o inner ELSE inner
           slot  == Slot("body_field", Append(Lookup(old, e.key).slot.path, inner))
       IN  [props    |-> Put(new.props,
                             [key |-> key, inner |-> <<>>,
                              slot |-> Slot("body_field", Append(e.slot.path, inner))]),
            bindings |-> Drop(Put(new.bindings, [key |-> key, slot |-> slot]), e.key)]

\* The required list afterwards: a wrapper passes it on to the first binding
\* whose target path begins with its own, of whatever kind.
FlattenRequired(required, old, new) ==
  LET Heir(r) == Keep(new, {b \in Range(new) :
                   IsPrefix(Lookup(old, r).slot.path, b.slot.path)})
      Kept1(r) == IF r \in Keys(new) THEN <<r>>
                  ELSE IF Heir(r) # <<>> THEN <<Heir(r)[1].key>> ELSE <<>>
  IN  FlattenSeq([i \in DOMAIN required |-> Kept1(required[i])])

FlattenProperties(s) ==
  Fold(LAMBDA new, e : FlattenProperty(new, e, s.bindings),
       [props |-> <<>>, bindings |-> s.bindings], s.props)

FlattenWrappers(s) ==
  LET flat == FlattenProperties(s)
  IN  IF s.props = <<>>
      THEN s
      ELSE [props    |-> flat.props,
            bindings |-> flat.bindings,
            required |-> FlattenRequired(s.required, s.bindings, flat.bindings)]

\* _fallback_schema, for an operation whose simplification raised.
Fallback == AddArgument(NoArguments, <<"body">>, Slot("body_root", <<>>), <<>>, TRUE)

\* _simplify_one with the rules that can change keys; the others rewrite the
\* contents of the schemas of properties.
SimplifyOne(op, rules) ==
  LET built   == BuildArgumentMap(op)
      dropped == IF rules.dropSpecMetadata THEN DropMetadata(built) ELSE built
  IN  IF rules.flattenWrappers THEN FlattenWrappers(dropped) ELSE dropped

Simplified(op, rules) == IF op.intricate THEN Fallback ELSE SimplifyOne(op, rules)

\* The operation and its arguments; those of a fallback tool are checked strictly.
SimplifiedOperation(op, rules) ==
  LET s == Simplified(op, rules)
  IN  [id |-> op.id, op |-> op, strict |-> op.intricate,
       props |-> s.props, bindings |-> s.bindings, required |-> s.required]
=============================================================================
