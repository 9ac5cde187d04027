----------------------------- MODULE Normalizer -----------------------------
(***************************************************************************)
(* The Normalize stage (core/normalize.py): from the path items of a       *)
(* specification to operations with an id each.                            *)
(*                                                                         *)
(* A specification is a sequence of path items                             *)
(*   [path, parameters, ops]    ops: a function from some HTTP methods to  *)
(*   [operationId, tags, deprecated, parameters, body, resolvable,         *)
(*    intricate]                                                           *)
(* where operationId is <<>> when it is absent or blank, a body is NoBody  *)
(* or [required, variants], and resolvable says whether the variables of   *)
(* the server URL have values.  Segments of a path are [name, variable],   *)
(* parameters [name, in, required, schema].  A variant of a body has its   *)
(* schema; object says that its type is the string "object" and that it    *)
(* has properties, the fields.  inner holds the names of the properties of *)
(* a field of that kind; their own schemas are without bounds.             *)
(* Summaries, responses, security and the choice of the server pass        *)
(* through this stage unchanged and are left out.                          *)
(***************************************************************************)
EXTENDS ToolNames, Schemas, OrderedDict

CONSTANTS
  NoBody,          \* an operation without a request body
  ReservedHeaders  \* names of the headers that specmcp sets itself

(***************************************************************************)
(* What the validator of the Load stage lets through.                      *)
(***************************************************************************)

ParamLocations == {"path", "query", "header", "cookie"}

RawNames == Names \ {<<>>}

RawParameters ==
  [name : RawNames, in : ParamLocations, required : BOOLEAN, schema : ParameterSchemas]

BodyFields ==
  [name : RawNames, required : BOOLEAN, inner : Seq(RawNames), schema : ParameterSchemas]

Variants == [object : BOOLEAN, fields : Seq(BodyFields), schema : ParameterSchemas]

Bodies == [required : BOOLEAN, variants : Seq(Variants)]

ASSUME NoBodyAssumption == NoBody \notin Bodies

RawOperations ==
  [operationId : Names, tags : SUBSET STRING, deprecated : BOOLEAN,
   parameters : Seq(RawParameters),
   body : {NoBody} \cup Bodies,
   resolvable : BOOLEAN, intricate : BOOLEAN]

HttpMethods == <<"get", "put", "post", "patch", "delete", "head", "options">>

PathVariables(path) == {s.name : s \in {path[i] : i \in {j \in DOMAIN path : path[j].variable}}}

(***************************************************************************)
(* Path variables are parameters and path parameters required; the fields  *)
(* of an object schema are the keys of a JSON object.                      *)
(***************************************************************************)
Resolved(item, op) ==
  LET params == item.parameters \o op.parameters
  IN  /\ \A v \in PathVariables(item.path) :
           \E i \in DOMAIN params : params[i].name = v /\ params[i].in = "path"
      /\ \A i \in DOMAIN params : params[i].in = "path" => params[i].required
      /\ op.body # NoBody =>
           \A i \in DOMAIN op.body.variants :
             LET variant == op.body.variants[i]
                 fields  == variant.fields
             IN  /\ variant.object => variant.schema.types = {"object"}
                 /\ \A j, k \in DOMAIN fields : fields[j].name = fields[k].name => j = k
                 /\ \A j \in DOMAIN fields :
                      /\ IsInjective(fields[j].inner)
                      /\ fields[j].inner # <<>> => fields[j].schema.types = {"object"}

\* The meta-schema of 3.0 wants a boolean for exclusiveMaximum.
WrittenIn30(item, op) ==
  /\ \A p \in Range(item.parameters) \cup Range(op.parameters) : Is30(p.schema)
  /\ op.body # NoBody =>
       \A v \in Range(op.body.variants) :
         Is30(v.schema) /\ \A f \in Range(v.fields) : Is30(f.schema)

ValidItem(item) ==
  /\ item.path \in Seq([name : Names, variable : BOOLEAN])
  /\ item.parameters \in Seq(RawParameters)
  /\ DOMAIN item.ops \subseteq Range(HttpMethods)
  /\ \A m \in DOMAIN item.ops :
       item.ops[m] \in RawOperations /\ Resolved(item, item.ops[m])

ValidItems(items) ==
  /\ items \in Seq(Range(items))
  /\ \A p \in DOMAIN items : ValidItem(items[p])

\* The operations in the order of the specification (pass 1 of normalize).
OperationsOf(spec) ==
  LET OfItem(item) ==
        LET methods == Keep(HttpMethods, DOMAIN item.ops)
        IN  [k \in DOMAIN methods |->
               [method |-> methods[k], item |-> item, op |-> item.ops[methods[k]]]]
  IN  FlattenSeq([p \in DOMAIN spec |-> OfItem(spec[p])])

CandidateId(o) ==
  IF o.op.operationId # <<>>
  THEN o.op.operationId
  ELSE <<o.method>> \o Sanitize(FlattenSeq([i \in DOMAIN o.item.path |-> o.item.path[i].name]))

Candidates(spec) ==
  LET found == OperationsOf(spec) IN [i \in DOMAIN found |-> CandidateId(found[i])]

\* Pass 2: ids are resolved before any filter applies.
Ids(spec) == ResolveCollisions(Candidates(spec))

Keyed(p) == [key |-> <<p.name, p.in>>, param |-> p]

Merged(params) == Fold(LAMBDA d, p : Put(d, Keyed(p)), <<>>, params)

\* Operation-level parameters replace path-level ones of the same name and place.
MergeParameters(pathParams, opParams) ==
  LET merged == Merged(pathParams \o opParams)
      exposed == Keep(merged, {e \in Range(merged) :
                   ~(e.param.in = "header" /\ e.param.name \in ReservedHeaders)})
  IN  [i \in DOMAIN exposed |-> exposed[i].param]

NormalizeParameter(p, version) ==
  IF version = "3.0" THEN [p EXCEPT !.schema = NormalizeSchema(@)] ELSE p

\* nullable turns the type into a list, which later is not taken for an object's.
NormalizeField(f) ==
  [f EXCEPT !.schema = NormalizeSchema(@),
            !.inner = IF f.schema.nullable THEN <<>> ELSE @]

NormalizeVariant(v) ==
  [v EXCEPT !.schema = NormalizeSchema(@),
            !.object = @ /\ ~v.schema.nullable,
            !.fields = [k \in DOMAIN @ |-> NormalizeField(@[k])]]

HasBody(raw) == raw # NoBody /\ raw.variants # <<>>

NormalizeBody(raw, version) ==
  CASE ~HasBody(raw) -> NoBody
    [] HasBody(raw) /\ version = "3.0" ->
         [raw EXCEPT !.variants = [j \in DOMAIN @ |-> NormalizeVariant(@[j])]]
    [] OTHER -> raw

\* The filters of the configuration; an empty set filters nothing.
Included(op, id, server) ==
  /\ op.deprecated => server.includeDeprecated
  /\ server.includeTags # {} => op.tags \cap server.includeTags # {}
  /\ op.tags \cap server.excludeTags = {}
  /\ server.includeOperations # {} => id \in server.includeOperations
  /\ id \notin server.excludeOperations

\* Where the operations that pass the filters stand in the specification.
Kept(spec, server) ==
  {i \in DOMAIN OperationsOf(spec) :
     Included(OperationsOf(spec)[i].op, Ids(spec)[i], server)}

\* A server URL with unresolved variables makes the whole stage fail.
NormalizeFails(spec, server) ==
  \E i \in Kept(spec, server) : ~OperationsOf(spec)[i].op.resolvable

NormalizeOperation(o, id, version) ==
  LET params == MergeParameters(o.item.parameters, o.op.parameters)
  IN  [id         |-> id,
       variables  |-> PathVariables(o.item.path),
       parameters |-> [i \in DOMAIN params |-> NormalizeParameter(params[i], version)],
       body       |-> NormalizeBody(o.op.body, version),
       intricate  |-> o.op.intricate]

\* Mutant: ids are resolved among the operations that pass the filters.
NormalizedThenNamed(spec, version, server) ==
  LET kept == SetToSortSeq(Kept(spec, server), <)
      ids  == ResolveCollisions([k \in DOMAIN kept |-> Candidates(spec)[kept[k]]])
  IN  [i \in Kept(spec, server) |->
         LET k == CHOOSE n \in DOMAIN kept : kept[n] = i
         IN  NormalizeOperation(OperationsOf(spec)[i], ids[k], version)]

\* The list of operations, as a function from their places in the specification.
Normalized(spec, version, server) ==
  [i \in Kept(spec, server) |->
     NormalizeOperation(OperationsOf(spec)[i], Ids(spec)[i], version)]
=============================================================================
