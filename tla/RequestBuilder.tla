--------------------------- MODULE RequestBuilder ---------------------------
(***************************************************************************)
(* Steps 0 to 6 of dispatch (runtime/dispatcher.py): validate the          *)
(* arguments of a call, then put each where its binding says.              *)
(*                                                                         *)
(* The value of an argument is the argument's key, which tells where each  *)
(* value went.  A request is a function from the slots it fills to values. *)
(***************************************************************************)
EXTENDS Simplifier

Fields(op) ==
  IF op.body # NoBody /\ op.body.variants[1].object THEN Range(op.body.variants[1].fields) ELSE {}

\* The schemas of the arguments of an operation, each with the slot it is for.
ArgumentSchemas(op) ==
  {[slot |-> Slot(p.in, <<p.name>>), schema |-> p.schema] : p \in Range(op.parameters)}
    \cup {[slot |-> Slot("body_field", <<f.name>>), schema |-> f.schema] : f \in Fields(op)}
    \cup {[slot |-> Slot("body_root", <<>>), schema |-> x.body.variants[1].schema] :
            x \in {y \in {op} : y.body # NoBody /\ ~y.body.variants[1].object}}

\* The schema of an unwrapped field is gone, and a fallback has a schema of its own.
Shown(a, sop) == ~sop.op.intricate /\ \E e \in Range(sop.props) : e.slot = a.slot

\* jsonschema refuses repeated entries in "required" and bounds that are no numbers.
SchemaIsSound(tool) ==
  /\ IsInjective(tool.sop.required)
  /\ \A a \in ArgumentSchemas(tool.sop.op) : Shown(a, tool.sop) => WellFormed(a.schema)

Valid(tool, args) ==
  /\ \A i \in DOMAIN tool.sop.required : tool.sop.required[i] \in args
  /\ tool.strict => args \subseteq Keys(tool.sop.props)

\* _set_nested: a value replaces what is at its path and a scalar on the way.
SetNested(request, path, value) ==
  LET gone == {s \in DOMAIN request :
                 /\ s.kind = "body_field"
                 /\ IsPrefix(s.path, path) \/ IsPrefix(path, s.path)}
  IN  [s \in (DOMAIN request \ gone) \cup {Slot("body_field", path)} |->
         IF s = Slot("body_field", path) THEN value ELSE request[s]]

\* Each cookie has a slot of its own; in the code they share the Cookie header.
SetSlot(request, slot, value) ==
  [s \in DOMAIN request \cup {slot} |-> IF s = slot THEN value ELSE request[s]]

\* One binding in the loop of dispatch.
Bind(request, b, args) ==
  CASE b.key \notin args -> request
    [] b.key \in args /\ b.slot.kind = "body_field" ->
         SetNested(request, b.slot.path, b.key)
    [] OTHER -> SetSlot(request, b.slot, b.key)

BuildRequest(bindings, args) ==
  Fold(LAMBDA request, b : Bind(request, b, args), <<>>, bindings)

\* op.path.format_map raises for a path variable without a value.
PathFilled(op, request) ==
  \A v \in op.variables : Slot("path", <<v>>) \in DOMAIN request
=============================================================================
