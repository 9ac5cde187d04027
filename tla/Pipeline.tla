------------------------------ MODULE Pipeline ------------------------------
(***************************************************************************)
(* _run_pipeline (cli/serve.py) on one specification and configuration,    *)
(* and the calls of the tools it yields, up to the HTTP request.           *)
(* Every stage is a pure function of the one before it.                    *)
(***************************************************************************)
EXTENDS ToolRegistry, RequestBuilder

CONSTANT
  Families  \* specifications and the configurations to load them with: each
            \* family is [specs, cfgs], a specification [version, items] and a
            \* configuration [server, rules, overrides]

\* How many parameters and body fields the specification lists for an operation.
Listed(o) ==
  Len(o.item.parameters) + Len(o.op.parameters)
    + IF HasBody(o.op.body) THEN Len(o.op.body.variants[1].fields) ELSE 0

\* What passes the validator; the program never runs out of numerals.
ASSUME FamiliesAssumption ==
  \A f \in Families : \A s \in f.specs :
    /\ s.version \in {"3.0", "3.1"}
    /\ ValidItems(s.items)
    /\ Len(Candidates(s.items)) < Len(Numerals)
    /\ \A i \in DOMAIN OperationsOf(s.items) :
         LET o == OperationsOf(s.items)[i]
         IN  /\ Listed(o) + 1 < Len(Numerals)
             /\ s.version = "3.0" => WrittenIn30(o.item, o.op)

VARIABLES
  stage,     \* "loaded", "normalized", "simplified", "serving", or "failed"
  spec,      \* what was loaded
  cfg,
  ops,       \* after normalize, by place in the specification
  sops,      \* after simplify
  registry,  \* after ToolRegistry.build
  result     \* of the call being answered

vars == <<stage, spec, cfg, ops, sops, registry, result>>

NoResult == [status |-> "none"]

Init ==
  /\ stage = "loaded"
  /\ \E f \in Families : spec \in f.specs /\ cfg \in f.cfgs
  /\ ops = <<>>
  /\ sops = <<>>
  /\ registry = <<>>
  /\ result = NoResult

Normalize ==
  /\ stage = "loaded"
  /\ ~NormalizeFails(spec.items, cfg.server)
  /\ ops' = Normalized(spec.items, spec.version, cfg.server)
  /\ stage' = "normalized"
  /\ UNCHANGED <<spec, cfg, sops, registry, result>>

\* NormalizeError ends the start of the server.
NormalizeRaises ==
  /\ stage = "loaded"
  /\ NormalizeFails(spec.items, cfg.server)
  /\ stage' = "failed"
  /\ UNCHANGED <<spec, cfg, ops, sops, registry, result>>

Simplify ==
  /\ stage = "normalized"
  /\ sops' = [i \in DOMAIN ops |-> SimplifiedOperation(ops[i], cfg.rules)]
  /\ stage' = "simplified"
  /\ UNCHANGED <<spec, cfg, ops, registry, result>>

Expose ==
  /\ stage = "simplified"
  /\ registry' = BuildRegistry(sops, cfg.overrides)
  /\ stage' = "serving"
  /\ UNCHANGED <<spec, cfg, ops, sops, result>>

Answer(r) ==
  /\ stage = "serving"
  /\ result = NoResult
  /\ result' = r
  /\ UNCHANGED <<stage, spec, cfg, ops, sops, registry>>

CallUnknown(name) ==
  /\ LookupTool(registry, name) = NoTool
  /\ Answer([status |-> "unknown", name |-> name])

\* Arguments are validated; an unsound schema makes the validation itself raise.
CallInvalid(tool, args) ==
  /\ ~SchemaIsSound(tool) \/ ~Valid(tool, args)
  /\ Answer([status |-> IF SchemaIsSound(tool) THEN "invalid" ELSE "schema error",
             name |-> tool.name, args |-> args])

CallValid(tool, args) ==
  /\ SchemaIsSound(tool)
  /\ Valid(tool, args)
  /\ LET request == BuildRequest(tool.sop.bindings, args)
     IN  Answer([status  |-> IF PathFilled(tool.sop.op, request) THEN "sent" ELSE "DispatchError",
                 name    |-> tool.name, args |-> args, request |-> request])

Return ==
  /\ result # NoResult
  /\ result' = NoResult
  /\ UNCHANGED <<stage, spec, cfg, ops, sops, registry>>

ExposedNames == {registry[i].name : i \in DOMAIN registry}

\* What an LLM may send: properties of the schema, and keys it may invent.
Sendable(tool) == Keys(tool.sop.props) \cup Keys(tool.sop.bindings)

Next ==
  \/ Normalize
  \/ NormalizeRaises
  \/ Simplify
  \/ Expose
  \/ \E name \in {ops[i].id : i \in DOMAIN ops} : CallUnknown(name)
  \/ \E name \in ExposedNames : LET tool == LookupTool(registry, name) IN
       \E args \in SUBSET Sendable(tool) :
         CallInvalid(tool, args) \/ CallValid(tool, args)
  \/ Return

Spec == Init /\ [][Next]_vars

(***************************************************************************)
(* Names.                                                                  *)
(***************************************************************************)

\* Among the rest: docs/naming.md, "The output name is always a non-empty string".
TypeOK ==
  /\ stage \in {"loaded", "normalized", "simplified", "serving", "failed"}
  /\ DOMAIN ops \subseteq DOMAIN Candidates(spec.items)
  /\ DOMAIN sops \subseteq DOMAIN ops
  /\ DOMAIN registry \subseteq DOMAIN sops
  /\ \A i \in DOMAIN ops : ops[i].id # <<>>
  /\ \A i \in DOMAIN registry : registry[i].name # <<>>
  /\ result.status \in {"none", "unknown", "invalid", "schema error", "sent", "DispatchError"}

(***************************************************************************)
(* docs/naming.md: "Two different operations always have different tool    *)
(* names".  It does not hold: see the run pipeline_collision.              *)
(***************************************************************************)
NamesDistinct ==
  \A i, j \in DOMAIN ops : i # j => ops[i].id # ops[j].id

(***************************************************************************)
(* What _resolve_collisions does achieve: different operations have        *)
(* different ids unless one is named like another one with a suffix.       *)
(***************************************************************************)
DistinctUnlessSuffixed ==
  ~SuffixClash(Candidates(spec.items)) => NamesDistinct

(***************************************************************************)
(* Names are stable: neither the filters of the configuration nor path     *)
(* items further down the specification change the name of an operation.   *)
(***************************************************************************)
NamesAreStable ==
  \A n \in 0..Len(spec.items) :
    LET ids == Ids(SubSeq(spec.items, 1, n))
    IN  \A i \in DOMAIN ids \cap DOMAIN ops : ops[i].id = ids[i]

\* A rename takes the name of another operation, or of another override.
RenameClash ==
  \E i \in DOMAIN ops : LET name == ToolName(cfg.overrides, ops[i].id) IN
    \/ \E j \in DOMAIN ops \ {i} : name \in {ops[j].id, ToolName(cfg.overrides, ops[j].id)}
    \/ name # ops[i].id /\ name \in DOMAIN cfg.overrides

(***************************************************************************)
(* Every tool that tools/list shows is the one that tools/call finds under *)
(* its name, and the call runs under the override the tool was built with: *)
(* build looks overrides up by operation id, a call by tool name first.    *)
(***************************************************************************)
ToolsReachable ==
  ~RenameClash =>
    \A i \in DOMAIN registry :
      LET tool == LookupTool(registry, registry[i].name)
      IN  /\ tool = registry[i]
          /\ CallOverride(cfg.overrides, tool.name, tool)
               = OverrideOf(cfg.overrides, ops[i].id)

(***************************************************************************)
(* Schemas.                                                                *)
(***************************************************************************)

SampleValues ==
  {[type |-> t] : t \in {"string", "object", "null"}}
    \cup {[type |-> "integer", n |-> n] : n \in 0..3}

MergedRaw(i) ==
  LET o == OperationsOf(spec.items)[i] IN
  MergeParameters(o.item.parameters, o.op.parameters)

\* The values that new accepts are those of raw but for the ones wrongly refused.
Rewritten(raw, new) ==
  \A v \in SampleValues :
    Accepts31(v, new) <=> Accepts30(v, raw) /\ ~WronglyRefused(v, raw)

(***************************************************************************)
(* What _normalize_schema_30_to_31 does to the meaning of any schema of a  *)
(* parameter, body or body field: nothing that was refused is accepted     *)
(* afterwards, and nothing that was accepted is refused, but for exactly   *)
(* the two misreadings of WronglyRefused.  They are errors of the code.    *)
(***************************************************************************)
SchemasKeepMeaning ==
  spec.version = "3.0" =>
    \A i \in DOMAIN ops :
      /\ \A k \in DOMAIN ops[i].parameters :
           Rewritten(MergedRaw(i)[k].schema, ops[i].parameters[k].schema)
      /\ ops[i].body # NoBody =>
           \A j \in DOMAIN ops[i].body.variants :
             LET raw == OperationsOf(spec.items)[i].op.body.variants[j]
                 new == ops[i].body.variants[j]
             IN  /\ Rewritten(raw.schema, new.schema)
                 /\ \A k \in DOMAIN new.fields :
                      Rewritten(raw.fields[k].schema, new.fields[k].schema)

(***************************************************************************)
(* Arguments.                                                              *)
(***************************************************************************)

RootRequired(op) == op.body # NoBody /\ ~op.body.variants[1].object /\ op.body.required

\* The places where the API takes a value, those it needs, and who offers them.
Inputs(op) ==
  {Slot(p.in, <<p.name>>) : p \in Range(op.parameters)}
    \cup {Slot("body_field", <<f.name>>) : f \in Fields(op)}

RequiredInputs(op) ==
  {Slot(p.in, <<p.name>>) : p \in {q \in Range(op.parameters) : q.required}}
    \cup {Slot("body_field", <<f.name>>) : f \in {g \in Fields(op) : op.body.required /\ g.required}}
    \cup {Slot("body_root", <<>>) : x \in {y \in {op} : RootRequired(y)}}

Covers(slots, input) ==
  \E s \in slots : s.kind = input.kind /\ IsPrefix(input.path, s.path)

(***************************************************************************)
(* core/model.py, "Round-trip invariant (must hold at all times)", and     *)
(* runtime/dispatcher.py:8-11: arguments that the input schema accepts     *)
(* make a complete request.  It does not hold: see pipeline_roundtrip.     *)
(***************************************************************************)
AcceptedCallsDispatch ==
  /\ result.status # "DispatchError"
  /\ result.status = "sent" =>
       \A input \in RequiredInputs(LookupTool(registry, result.name).sop.op) :
         Covers(DOMAIN result.request, input)

\* A name that apply_drop_spec_metadata takes for a keyword.
MetadataClash(op) ==
  \/ \E p \in Range(op.parameters) : SpecOnly(p.name)
  \/ \E f \in Fields(op) : \E n \in {f.name} \cup Range(f.inner) : SpecOnly(n)

\* An unwrapped field ends up under a key that is taken, or beside a parameter
\* of the wrapper's name.
WrapperClash(op) ==
  LET built    == BuildArgumentMap(op)
      wrappers == {e \in Range(built.props) : IsWrapper(e, built.bindings)}
      NewKey(e) == IF e.inner[1] \in Keys(built.bindings) THEN e.key \o e.inner[1] ELSE e.inner[1]
  IN  \E e \in wrappers :
        \/ NewKey(e) \in Keys(built.bindings)
        \/ \E f \in wrappers \ {e} : NewKey(e) = NewKey(f)
        \/ \E p \in Range(op.parameters) : <<p.name>> = e.slot.path

ArgumentClash(op) ==
  \/ op.intricate
  \/ cfg.rules.dropSpecMetadata /\ MetadataClash(op)
  \/ cfg.rules.flattenWrappers /\ WrapperClash(op)

\* An argument with a bound that jsonschema refuses, such as a 3.0 bound that was
\* left a boolean: every call of the tool then ends in an uncaught SchemaError.
BadBound(op) == \E a \in ArgumentSchemas(op) : ~WellFormed(a.schema)

(***************************************************************************)
(* Without such clashes, above all without the two rules, the round trip   *)
(* is exact: the schema offers all inputs, every accepted call makes a     *)
(* complete request, and each argument arrives at the place its schema is  *)
(* of, whatever parameters and fields share a name.  A bad bound is the    *)
(* one thing left that makes the validation itself raise.                  *)
(***************************************************************************)
RoundTrip ==
  stage = "serving" => \A i \in DOMAIN registry :
    LET sop == registry[i].sop
        called == "args" \in DOMAIN result /\ registry[i] = LookupTool(registry, result.name)
    IN  ~ArgumentClash(sop.op) =>
          /\ \A input \in Inputs(sop.op) : Covers({e.slot : e \in Range(sop.props)}, input)
          /\ called => AcceptedCallsDispatch
          /\ called /\ result.status = "schema error" => BadBound(sop.op)
          /\ called /\ result.status = "sent" =>
               \A e \in Range(sop.props) : e.key \in result.args =>
                 /\ e.slot \in DOMAIN result.request
                 /\ result.request[e.slot] = e.key
=============================================================================
