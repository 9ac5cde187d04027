----------------------------- MODULE MCPipeline -----------------------------
(* Instances of Pipeline for TLC: small specifications and configurations. *)
EXTENDS Pipeline, TLC

MCNumerals == <<"1", "2", "3", "4", "5", "6", "7", "8">>

MCReservedHeaders == {<<"host">>}
MCExtensionWords == {"x-id"}

\* Schemas of a parameter.
Plain == [types |-> {"string"}, nullable |-> FALSE, maximum |-> Absent,
          exclusiveMaximum |-> Absent, allOf |-> <<>>]
Bounded == [Plain EXCEPT !.types = {"integer"}, !.maximum = Number(2), !.exclusiveMaximum = Yes]
Nullable == [Plain EXCEPT !.nullable = TRUE]
NullableBound == [Bounded EXCEPT !.nullable = TRUE]
OfBranches == [Plain EXCEPT !.types = {}, !.allOf = <<NullableBound, Bounded>>]
NullableBranches == [OfBranches EXCEPT !.nullable = TRUE]
LooseBound == [Bounded EXCEPT !.exclusiveMaximum = No]
NoMaximum == [NullableBound EXCEPT !.maximum = Absent]
ObjectSchema == [Plain EXCEPT !.types = {"object"}]
NullableObject == [ObjectSchema EXCEPT !.nullable = TRUE]

Param(name, in, required, schema) ==
  [name |-> name, in |-> in, required |-> required, schema |-> schema]

Operation(id) ==
  [operationId |-> id, tags |-> {}, deprecated |-> FALSE, parameters |-> <<>>,
   body |-> NoBody, resolvable |-> TRUE, intricate |-> FALSE]

Segment(name) == [name |-> name, variable |-> FALSE]
Variable(name) == [name |-> name, variable |-> TRUE]

Item(path, methods) == [path |-> path, parameters |-> <<>>, ops |-> methods]

AllRules == [dropSpecMetadata |-> TRUE, flattenWrappers |-> TRUE]
NoFilter == [includeDeprecated |-> TRUE, includeTags |-> {}, excludeTags |-> {},
             includeOperations |-> {}, excludeOperations |-> {}]
NoOverrides == [n \in {} |-> NoOverride]
Plainly == [server |-> NoFilter, rules |-> AllRules, overrides |-> NoOverrides]

(* Names: up to three path items whose operations share names.  As the      *)
(* validator of the Load stage demands, paths and operationIds are distinct. *)
X == <<"get", "x">>
X2 == <<"get", "x", "2">>
At(place) == <<Segment(<<"at", Numerals[place]>>)>>
ItemsAt(place) ==
  {Item(<<Segment(<<"x">>)>>, "get" :> Operation(<<>>)),
   Item(<<Variable(<<"x">>)>>,
        "get" :> [Operation(<<>>) EXCEPT !.tags = {"t"},
                                         !.parameters = <<Param(<<"x">>, "path", TRUE, Plain)>>]
          @@ "put" :> [Operation(X) EXCEPT !.parameters = <<Param(<<"x">>, "path", TRUE, Plain)>>]),
   Item(<<Segment(<<"x">>), Segment(<<"", "2">>)>>, "get" :> Operation(<<>>)),
   Item(At(place), "get" :> [Operation(X2) EXCEPT !.tags = {"t"}]),
   Item(At(place), "get" :> [Operation(X) EXCEPT !.deprecated = TRUE, !.resolvable = FALSE])}

OperationIds(items) ==
  LET found == OperationsOf(items) IN [i \in DOMAIN found |-> found[i].op.operationId]

Valid31(items) ==
  /\ \A p, q \in DOMAIN items : items[p].path = items[q].path => p = q
  /\ LET ids == OperationIds(items) IN
     \A i, j \in DOMAIN ids : ids[i] = ids[j] /\ ids[i] # <<>> => i = j

NameSpecs ==
  {[version |-> "3.1", items |-> items] :
     items \in {f \in UNION {[1..n -> UNION {ItemsAt(p) : p \in 1..3}] : n \in 1..3} :
                Valid31(f) /\ \A p \in DOMAIN f : f[p] \in ItemsAt(p)}}

Filters ==
  {NoFilter,
   [NoFilter EXCEPT !.includeDeprecated = FALSE],
   [NoFilter EXCEPT !.includeTags = {"t"}],
   [NoFilter EXCEPT !.excludeTags = {"t"}],
   [NoFilter EXCEPT !.includeOperations = {X2}],
   [NoFilter EXCEPT !.excludeOperations = {X}]}

Override(rename, hide) == [rename |-> rename, hide |-> hide, strict |-> FALSE]
OverrideSets ==
  {NoOverrides,
   X :> Override(<<"y">>, FALSE),
   X :> Override(X2, FALSE) @@ X2 :> Override(X, FALSE),
   X :> Override(X2, FALSE) @@ X2 :> Override(<<>>, TRUE),
   X2 :> Override(<<>>, TRUE)}

NameConfigs ==
  {[Plainly EXCEPT !.server = s, !.overrides = o] : s \in Filters, o \in OverrideSets}

(* Arguments: one operation at /{id}, with the parameters and fields that can meet. *)
Id == <<"id">>
User == <<"user">>
ParamSets ==
  {<<Param(Id, "query", TRUE, Plain)>>,
   <<Param(Id, "query", FALSE, Bounded), Param(Id, "header", TRUE, OfBranches)>>,
   <<Param(User, "query", FALSE, Nullable), Param(<<"host">>, "header", TRUE, Plain)>>,
   <<Param(<<"id", "query">>, "cookie", FALSE, LooseBound), Param(Id, "header", FALSE, Plain)>>,
   <<Param(Id, "query", FALSE, NullableBranches), Param(User, "header", TRUE, Plain)>>,
   <<Param(<<"x-id">>, "header", TRUE, Plain), Param(Id, "path", TRUE, Bounded)>>}

Field(name, required, inner) ==
  [name |-> name, required |-> required, inner |-> inner,
   schema |-> IF inner = <<>> THEN Plain ELSE ObjectSchema]
FieldChoices ==
  {Field(n, r, inner) : n \in {Id, User, <<"user", "id">>}, r \in BOOLEAN,
                        inner \in {<<>>, <<Id>>, <<<<"a">>>>}}
    \cup {Field(<<"example">>, FALSE, <<>>), Field(User, TRUE, <<<<"a">>, <<"example">>>>)}
FieldSeqs ==
  {<<>>} \cup {<<f>> : f \in FieldChoices}
    \cup {<<f, g>> : f, g \in {c \in FieldChoices : c.required}}
DistinctFields == {fs \in FieldSeqs : Len(fs) = 2 => fs[1].name # fs[2].name}

\* Fields whose schemas the rewriting changes, and wrappers that it closes.
RewrittenFields ==
  {[Field(User, TRUE, <<>>) EXCEPT !.schema = s] : s \in {LooseBound, NullableBranches}}
    \cup {[Field(User, TRUE, <<<<"a">>>>) EXCEPT !.schema = s]
            : s \in {NullableObject, [ObjectSchema EXCEPT !.exclusiveMaximum = No]}}

Variant(object, fields, schema) == [object |-> object, fields |-> fields, schema |-> schema]
RequestBodies ==
  {NoBody, [required |-> FALSE, variants |-> <<>>]}
    \cup {[required |-> TRUE, variants |-> <<Variant(FALSE, <<>>, s)>>]
            : s \in {Plain, NoMaximum, LooseBound}}
    \cup {[required |-> TRUE, variants |-> <<Variant(TRUE, fs, ObjectSchema)>>]
            : fs \in DistinctFields \cup {<<f>> : f \in RewrittenFields}}
    \cup {[required |-> FALSE, variants |-> <<Variant(TRUE, <<f>>, s)>>]
            : f \in FieldChoices, s \in {ObjectSchema, NullableObject}}

ArgumentSpecs ==
  {[version |-> "3.0",
    items |-> <<[path |-> <<Variable(Id)>>,
                 parameters |-> <<Param(Id, "path", TRUE, Plain)>>,
                 ops |-> "post" :> [Operation(<<"f">>) EXCEPT
                           !.parameters = ps, !.body = b, !.intricate = i]]>>]
     : ps \in ParamSets, b \in RequestBodies, i \in BOOLEAN}

ArgumentConfigs ==
  {[Plainly EXCEPT !.rules = [dropSpecMetadata |-> d, flattenWrappers |-> w],
                   !.overrides = <<"f">> :> [rename |-> <<>>, hide |-> FALSE, strict |-> s]]
     : d, w, s \in BOOLEAN}

MCFamilies ==
  {[specs |-> NameSpecs, cfgs |-> NameConfigs],
   [specs |-> ArgumentSpecs, cfgs |-> ArgumentConfigs]}

(* The round trip of operations whose simplification does not raise. *)
PlainFamilies ==
  {[specs |-> {s \in ArgumentSpecs : ~s.items[1].ops["post"].intricate},
    cfgs |-> ArgumentConfigs]}
=============================================================================
