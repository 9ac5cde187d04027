--------------------------- MODULE Pipeline_proofs ---------------------------
(***************************************************************************)
(* Proofs about Pipeline.  Its invariant says that each stage holds what   *)
(* its operator yields of the stage before; what that is, is shown by      *)
(* ToolNames_proofs and Stages_proofs.                                     *)
(***************************************************************************)
EXTENDS Pipeline, ToolNames_proofs, Stages_proofs

\* What a call was answered with is what its tool, found again, makes of it.
ResultInv ==
  /\ result.status \in {"none", "unknown", "invalid", "schema error", "sent", "DispatchError"}
  /\ "args" \in DOMAIN result =>
       LET tool == LookupTool(registry, result.name)
       IN  /\ \E i \in DOMAIN registry : registry[i].name = result.name
           /\ result.status = "schema error" <=> ~SchemaIsSound(tool)
           /\ result.status \in {"sent", "DispatchError"} =>
                /\ Valid(tool, result.args)
                /\ result.request = BuildRequest(tool.sop.bindings, result.args)
                /\ result.status = "sent" <=> PathFilled(tool.sop.op, result.request)
  /\ result.status \in {"sent", "DispatchError"} => "args" \in DOMAIN result

PipelineInv ==
  /\ \E f \in Families : spec \in f.specs /\ cfg \in f.cfgs
  /\ stage \in {"loaded", "normalized", "simplified", "serving", "failed"}
  /\ ops = IF stage \in {"normalized", "simplified", "serving"}
           THEN Normalized(spec.items, spec.version, cfg.server)
           ELSE <<>>
  /\ sops = IF stage \in {"simplified", "serving"}
            THEN [i \in DOMAIN ops |-> SimplifiedOperation(ops[i], cfg.rules)]
            ELSE <<>>
  /\ registry = IF stage = "serving" THEN BuildRegistry(sops, cfg.overrides) ELSE <<>>
  /\ ResultInv

LEMMA LoadingKeeps ==
  ASSUME PipelineInv, Normalize \/ NormalizeRaises \/ Simplify \/ Expose
  PROVE  PipelineInv'
<1> USE DEF PipelineInv
<1>1. result' = result /\ spec' = spec /\ cfg' = cfg
  BY DEF Normalize, NormalizeRaises, Simplify, Expose
<1>2. (stage # "serving" /\ "args" \notin DOMAIN result)
  <2>1. stage # "serving" BY DEF Normalize, NormalizeRaises, Simplify, Expose
  <2>2. registry = <<>> BY <2>1
  <2>3. ~(\E i \in DOMAIN registry : registry[i].name = result.name) BY <2>2
  <2> QED BY <2>1, <2>3 DEF ResultInv
<1>3. ResultInv' BY <1>1, <1>2 DEF ResultInv
<1>4. CASE Normalize BY <1>1, <1>3, <1>4 DEF Normalize
<1>5. CASE NormalizeRaises BY <1>1, <1>3, <1>5 DEF NormalizeRaises
<1>6. CASE Simplify BY <1>1, <1>3, <1>6 DEF Simplify
<1>7. CASE Expose BY <1>1, <1>3, <1>7 DEF Expose
<1> QED BY <1>4, <1>5, <1>6, <1>7

LEMMA AnswerKeeps ==
  ASSUME PipelineInv, NEW name, NEW args,
         \/ CallUnknown(name)
         \/ /\ \E i \in DOMAIN registry : registry[i].name = name
            /\ LookupTool(registry, name).name = name
            /\ \/ CallInvalid(LookupTool(registry, name), args)
               \/ CallValid(LookupTool(registry, name), args)
         \/ Return
  PROVE  PipelineInv'
<1> DEFINE tool == LookupTool(registry, name)
           request == BuildRequest(tool.sop.bindings, args)
<1>1. UNCHANGED <<stage, spec, cfg, ops, sops, registry>>
  BY DEF CallUnknown, CallInvalid, CallValid, Answer, Return
<1>2. CASE CallUnknown(name)
  BY <1>1, <1>2 DEF CallUnknown, Answer, ResultInv, PipelineInv
<1>3. CASE /\ \E i \in DOMAIN registry : registry[i].name = name
           /\ tool.name = name
           /\ CallInvalid(tool, args)
  <2>1. result' = [status |-> IF SchemaIsSound(tool) THEN "invalid" ELSE "schema error",
                   name |-> name, args |-> args]
    BY <1>3 DEF CallInvalid, Answer
  <2>2. LookupTool(registry', result'.name) = tool BY <1>1, <2>1
  <2> HIDE DEF tool
  <2>3. ResultInv' BY <1>1, <1>3, <2>1, <2>2 DEF ResultInv
  <2> QED BY <1>1, <2>3 DEF PipelineInv
<1>4. CASE /\ \E i \in DOMAIN registry : registry[i].name = name
           /\ tool.name = name
           /\ CallValid(tool, args)
  <2>1. result' = [status |-> IF PathFilled(tool.sop.op, request)
                              THEN "sent" ELSE "DispatchError",
                   name |-> name, args |-> args, request |-> request]
    BY <1>4 DEF CallValid, Answer
  <2>2. LookupTool(registry', result'.name) = tool BY <1>1, <2>1
  <2>3. SchemaIsSound(tool) /\ Valid(tool, args) BY <1>4 DEF CallValid
  <2>4. result'.request = request /\ result'.args = args /\ result'.name = name BY <2>1
  <2> HIDE DEF tool
  <2>5. result'.status = (IF PathFilled(tool.sop.op, request) THEN "sent" ELSE "DispatchError")
        /\ "args" \in DOMAIN result'
    BY <2>1
  <2>6. result'.request = BuildRequest(tool.sop.bindings, result'.args) BY <2>4
  <2> HIDE DEF request
  <2>7. ResultInv' BY <1>1, <1>4, <2>2, <2>3, <2>4, <2>5, <2>6 DEF ResultInv
  <2> QED BY <1>1, <2>7 DEF PipelineInv
<1>5. CASE Return
  BY <1>1, <1>5 DEF Return, NoResult, ResultInv, PipelineInv
<1> QED BY <1>2, <1>3, <1>4, <1>5

\* The places of a specification, where tools are.
LEMMA PlacesTyped ==
  ASSUME PipelineInv
  PROVE  /\ ValidItems(spec.items)
         /\ spec.version \in {"3.0", "3.1"}
         /\ OperationsOf(spec.items) \in Seq(Sites(spec.items))
         /\ DOMAIN ops \subseteq DOMAIN OperationsOf(spec.items)
         /\ DOMAIN sops \subseteq DOMAIN ops
         /\ DOMAIN registry \subseteq DOMAIN sops
         /\ Candidates(spec.items) \in Seq(Seq(Words))
         /\ Len(Candidates(spec.items)) < Len(Numerals)
<1>1. ValidItems(spec.items) /\ spec.version \in {"3.0", "3.1"}
      /\ Len(Candidates(spec.items)) < Len(Numerals)
  BY FamiliesAssumption DEF PipelineInv
<1>2. OperationsOf(spec.items) \in Seq(Sites(spec.items)) BY <1>1, OperationsTyped
<1>3. Candidates(spec.items) \in Seq(Seq(Words)) BY <1>1, CandidatesTyped
<1>4. DOMAIN <<>> = {} OBVIOUS
<1>5. DOMAIN ops \subseteq DOMAIN OperationsOf(spec.items)
  <2>1. DOMAIN Normalized(spec.items, spec.version, cfg.server) = Kept(spec.items, cfg.server)
    BY DEF Normalized
  <2>2. Kept(spec.items, cfg.server) \subseteq DOMAIN OperationsOf(spec.items) BY DEF Kept
  <2> QED BY <1>4, <2>1, <2>2 DEF PipelineInv
<1>6. DOMAIN sops \subseteq DOMAIN ops BY <1>4 DEF PipelineInv
<1>7. DOMAIN registry \subseteq DOMAIN sops
  <2>1. DOMAIN BuildRegistry(sops, cfg.overrides) = Exposed(sops, cfg.overrides)
    BY DEF BuildRegistry
  <2>2. Exposed(sops, cfg.overrides) \subseteq DOMAIN sops BY DEF Exposed
  <2> QED BY <1>4, <2>1, <2>2 DEF PipelineInv
<1> QED BY <1>1, <1>2, <1>3, <1>5, <1>6, <1>7

\* The operations that were kept, what each stage makes of them, and its name.
LEMMA KeptOperation ==
  ASSUME PipelineInv, NEW i \in DOMAIN ops
  PROVE  /\ ops[i] = NormalizeOperation(OperationsOf(spec.items)[i],
                                        Ids(spec.items)[i], spec.version)
         /\ ops[i].id = Ids(spec.items)[i]
         /\ i \in DOMAIN OperationsOf(spec.items)
<1>1. ops = Normalized(spec.items, spec.version, cfg.server)
  BY DEF PipelineInv
<1>2. ops[i] = NormalizeOperation(OperationsOf(spec.items)[i],
                                  Ids(spec.items)[i], spec.version)
  BY <1>1 DEF Normalized
<1>3. ops[i].id = Ids(spec.items)[i] BY <1>2 DEF NormalizeOperation
<1> QED BY <1>2, <1>3, PlacesTyped

LEMMA ToolOfOperation ==
  ASSUME PipelineInv, NEW i \in DOMAIN registry
  PROVE  /\ stage = "serving" /\ i \in DOMAIN ops
         /\ sops[i] = SimplifiedOperation(ops[i], cfg.rules)
         /\ registry[i].sop = sops[i]
         /\ registry[i].sop.op = ops[i]
         /\ registry[i].sop.id = ops[i].id
         /\ registry[i].name = ToolName(cfg.overrides, ops[i].id)
<1>1. stage = "serving" /\ registry = BuildRegistry(sops, cfg.overrides)
  BY DEF PipelineInv
<1>2. i \in DOMAIN ops BY PlacesTyped
<1>3. sops[i] = SimplifiedOperation(ops[i], cfg.rules)
  BY <1>1, <1>2 DEF PipelineInv
<1>4. sops[i].id = ops[i].id /\ sops[i].op = ops[i]
  BY <1>3 DEF SimplifiedOperation
<1>5. registry[i] = [name   |-> ToolName(cfg.overrides, sops[i].id),
                     strict |-> sops[i].strict \/ Strict(cfg.overrides, sops[i].id),
                     sop    |-> sops[i]]
  BY <1>1 DEF BuildRegistry
<1>6. registry[i].sop = sops[i] /\ registry[i].name = ToolName(cfg.overrides, sops[i].id)
  BY <1>5
<1> QED BY <1>1, <1>2, <1>3, <1>4, <1>6

LEMMA LookupFinds ==
  ASSUME PipelineInv, NEW i \in DOMAIN registry
  PROVE  \E j \in DOMAIN registry :
           /\ registry[j].name = registry[i].name
           /\ LookupTool(registry, registry[i].name) = registry[j]
<1> DEFINE named == {j \in DOMAIN registry : registry[j].name = registry[i].name}
           n == Len(OperationsOf(spec.items))
<1>1. n \in Nat /\ named \subseteq 1..n /\ named # {}
  <2>1. OperationsOf(spec.items) \in Seq(Sites(spec.items)) BY PlacesTyped
  <2>2. n \in Nat /\ DOMAIN OperationsOf(spec.items) = 1..n BY <2>1
  <2>3. DOMAIN registry \subseteq DOMAIN OperationsOf(spec.items) BY PlacesTyped
  <2> QED BY <2>2, <2>3
<1>2. LookupTool(registry, registry[i].name) = registry[Max(named)]
  BY <1>1 DEF LookupTool
<1> HIDE DEF n
<1>3. Max(named) \in named
  <2> HIDE DEF named
  <2> QED BY <1>1, GreatestIsThere
<1> QED BY <1>2, <1>3

LEMMA NextKeeps ==
  ASSUME PipelineInv, [Next]_vars
  PROVE  PipelineInv'
<1>1. CASE Normalize \/ NormalizeRaises \/ Simplify \/ Expose BY <1>1, LoadingKeeps
<1>2. ASSUME NEW name, CallUnknown(name) PROVE PipelineInv' BY <1>2, AnswerKeeps
<1>3. ASSUME NEW name \in ExposedNames, NEW args,
             \/ CallInvalid(LookupTool(registry, name), args)
             \/ CallValid(LookupTool(registry, name), args)
      PROVE  PipelineInv'
  <2>1. PICK i \in DOMAIN registry : registry[i].name = name BY DEF ExposedNames
  <2>2. LookupTool(registry, name).name = name BY <2>1, LookupFinds
  <2> QED BY <1>3, <2>1, <2>2, AnswerKeeps
<1>4. CASE Return BY <1>4, AnswerKeeps
<1>5. CASE UNCHANGED vars BY <1>5 DEF vars, PipelineInv, ResultInv
<1> QED BY <1>1, <1>2, <1>3, <1>4, <1>5 DEF Next

LEMMA PipelineInvariance == Spec => []PipelineInv
<1>1. Init => PipelineInv
  BY DEF Init, NoResult, PipelineInv, ResultInv
<1>2. PipelineInv /\ [Next]_vars => PipelineInv' BY NextKeeps
<1> QED BY <1>1, <1>2, PTL DEF Spec

(***************************************************************************)
(* Each stage works on a part of what the stage before left, and no        *)
(* operation and no tool, renamed or not, is without a name.               *)
(***************************************************************************)
THEOREM TypeCorrect == Spec => []TypeOK
<1>1. PipelineInv => TypeOK
  <2> SUFFICES ASSUME PipelineInv PROVE TypeOK OBVIOUS
  <2> DEFINE c == Candidates(spec.items)
  <2>1. DOMAIN ops \subseteq DOMAIN c /\ c \in Seq(Seq(Words))
        /\ \A i \in DOMAIN c : c[i] # <<>>
    BY PlacesTyped, CandidatesTyped
  <2>2. \A i \in DOMAIN ops : ops[i].id # <<>>
    <3> SUFFICES ASSUME NEW i \in DOMAIN ops PROVE ops[i].id # <<>> OBVIOUS
    <3>1. ops[i].id = ResolveCollisions(c)[i] BY KeptOperation DEF Ids
    <3> HIDE DEF c
    <3>2. i \in DOMAIN c /\ c[i] \in Seq(Words) /\ c[i] # <<>> BY <2>1
    <3>3. ops[i].id = c[i] \/ \E w : ops[i].id = Append(c[i], w)
      BY <3>1, <3>2 DEF ResolveCollisions
    <3>4. \A w : Append(c[i], w) # <<>>
      <4> SUFFICES ASSUME NEW w PROVE Append(c[i], w) # <<>> OBVIOUS
      <4> DEFINE U == Words \cup {w}
      <4>1. c[i] \in Seq(U) /\ w \in U
        <5>1. \A S, Q : S \subseteq Q => \A n \in Seq(S) : n \in Seq(Q) OBVIOUS
        <5>2. Words \subseteq U OBVIOUS
        <5> QED BY <3>2, <5>1, <5>2
      <4> HIDE DEF U
      <4>2. Len(Append(c[i], w)) = Len(c[i]) + 1 /\ Len(c[i]) \in Nat BY <4>1
      <4> QED BY <4>2
    <3> QED BY <3>2, <3>3, <3>4
  <2>3. \A i \in DOMAIN registry : registry[i].name # <<>>
    BY <2>2, ToolOfOperation DEF ToolName
  <2> QED BY <2>1, <2>2, <2>3, PlacesTyped DEF TypeOK, PipelineInv, ResultInv
<1> QED BY <1>1, PipelineInvariance, PTL

(***************************************************************************)
(* For every specification and configuration: the operations that          *)
(* normalize keeps have different ids, unless the SuffixClash of the       *)
(* finding is there.                                                       *)
(***************************************************************************)
THEOREM DistinctIds == Spec => []DistinctUnlessSuffixed
<1>1. PipelineInv => DistinctUnlessSuffixed
  <2> SUFFICES ASSUME PipelineInv, ~SuffixClash(Candidates(spec.items)),
                      NEW i \in DOMAIN ops, NEW j \in DOMAIN ops,
                      ops[i].id = ops[j].id
      PROVE  i = j
    BY DEF DistinctUnlessSuffixed, NamesDistinct
  <2> DEFINE c == Candidates(spec.items)
  <2>1. c \in Seq(Seq(Words)) /\ Len(c) < Len(Numerals) BY PlacesTyped
  <2>2. i \in DOMAIN c /\ j \in DOMAIN c
        /\ ResolveCollisions(c)[i] = ResolveCollisions(c)[j]
    BY KeptOperation, PlacesTyped, CandidatesTyped DEF Ids
  <2>3. STRING \subseteq Words BY DEF Words
  <2> HIDE DEF c
  <2> QED BY <2>1, <2>2, <2>3, CollisionsResolved DEF c
<1> QED BY <1>1, PipelineInvariance, PTL

\* The ids of a list are those of the longer list.
LEMMA IdsOfPrefix ==
  ASSUME NEW T, NEW c \in Seq(T), NEW d \in Seq(T), Len(d) <= Len(c),
         \A k \in 1..Len(d) : d[k] = c[k],
         NEW i \in DOMAIN d
  PROVE  ResolveCollisions(d)[i] = ResolveCollisions(c)[i]
<1>1. i \in DOMAIN c /\ d[i] = c[i] OBVIOUS
<1>2. {j \in 1..(i - 1) : d[j] = d[i]} = {j \in 1..(i - 1) : c[j] = c[i]}
  <2>1. \A j \in 1..(i - 1) : j \in 1..Len(d) OBVIOUS
  <2> QED BY <1>1, <2>1
<1>3. Earlier(d, i) = Earlier(c, i) BY <1>2 DEF Earlier
<1> QED BY <1>1, <1>3 DEF ResolveCollisions

LEMMA OperationsOfPrefix ==
  ASSUME NEW items, ValidItems(items), NEW n \in 0..Len(items)
  PROVE  LET part == OperationsOf(SubSeq(items, 1, n))
             all  == OperationsOf(items)
         IN  /\ part \in Seq(Sites(items)) /\ all \in Seq(Sites(items))
             /\ Len(part) <= Len(all)
             /\ \A k \in 1..Len(part) : part[k] = all[k]
<1> DEFINE S == Sites(items)
           U == Seq(S)
           parts == [p \in DOMAIN items |-> SitesOfItem(items[p])]
           fewer == SubSeq(items, 1, n)
<1>1. items \in Seq(Range(items)) BY DEF ValidItems
<1>2. DOMAIN items = 1..Len(items) /\ Len(items) \in Nat BY <1>1
<1>3. fewer \in Seq(Range(items)) /\ Len(fewer) = n /\ \A p \in 1..n : fewer[p] = items[p]
  BY <1>1
<1>4. OperationsOf(items) = FlattenSeq(parts) BY DEF OperationsOf, SitesOfItem
<1>5. OperationsOf(fewer) = FlattenSeq([p \in DOMAIN fewer |-> SitesOfItem(fewer[p])])
  BY DEF OperationsOf, SitesOfItem
<1>6. parts \in Seq(U) /\ Len(parts) = Len(items)
  <2>1. \A p \in DOMAIN items : SitesOfItem(items[p]) \in U BY SitesOfItemTyped
  <2> HIDE DEF U
  <2> QED BY <1>2, <2>1
<1>7. [p \in DOMAIN fewer |-> SitesOfItem(fewer[p])] = SubSeq(parts, 1, n)
  <2> HIDE DEF fewer
  <2>1. DOMAIN fewer = 1..n BY <1>3
  <2>2. \A p \in 1..n : p \in DOMAIN items /\ SitesOfItem(fewer[p]) = parts[p]
    BY <1>2, <1>3
  <2>3. SubSeq(parts, 1, n) = [p \in 1..n |-> parts[p]]
    <3> HIDE DEF U, parts
    <3> QED BY <1>2, <1>6
  <2> HIDE DEF parts
  <2> QED BY <2>1, <2>2, <2>3
<1> HIDE DEF parts, fewer
<1>8. LET part == FlattenSeq(SubSeq(parts, 1, n)) IN
      /\ part \in Seq(S) /\ FlattenSeq(parts) \in Seq(S)
      /\ Len(part) <= Len(FlattenSeq(parts))
      /\ \A k \in 1..Len(part) : part[k] = FlattenSeq(parts)[k]
  <2>1. parts \in Seq(Seq(S)) BY <1>6
  <2>2. n \in 0..Len(parts) BY <1>6
  <2> HIDE DEF S, U
  <2> QED BY <2>1, <2>2, FlattenGrows
<1>9. OperationsOf(fewer) = FlattenSeq(SubSeq(parts, 1, n)) BY <1>5, <1>7
<1> QED BY <1>4, <1>8, <1>9 DEF fewer

(***************************************************************************)
(* A filter never changes the name of another operation, and neither does  *)
(* a path item added at the end of the specification.                      *)
(***************************************************************************)
THEOREM IdsAreStable == Spec => []NamesAreStable
<1>1. PipelineInv => NamesAreStable
  <2> SUFFICES ASSUME PipelineInv, NEW n \in 0..Len(spec.items),
                      NEW i \in DOMAIN Ids(SubSeq(spec.items, 1, n)) \cap DOMAIN ops
               PROVE  ops[i].id = Ids(SubSeq(spec.items, 1, n))[i]
    BY DEF NamesAreStable
  <2> DEFINE items == spec.items
             fewer == SubSeq(items, 1, n)
             S == Sites(items)
             part == OperationsOf(fewer)
             all == OperationsOf(items)
             d == Candidates(fewer)
             c == Candidates(items)
             N == Seq(Words)
  <2>1. ValidItems(items) BY PlacesTyped
  <2>2. part \in Seq(S) /\ all \in Seq(S) /\ Len(part) <= Len(all)
        /\ \A k \in 1..Len(part) : part[k] = all[k]
    BY <2>1, OperationsOfPrefix
  <2>3. c \in Seq(N) BY <2>1, CandidatesTyped
  <2>4. d = [k \in DOMAIN part |-> CandidateId(part[k])]
        /\ c = [k \in DOMAIN all |-> CandidateId(all[k])]
    BY DEF Candidates
  <2>5. ops[i].id = ResolveCollisions(c)[i] BY KeptOperation DEF Ids
  <2>6. i \in DOMAIN ResolveCollisions(d) BY DEF Ids
  <2>7. i \in DOMAIN d BY <2>6 DEF ResolveCollisions
  <2>8. Ids(fewer) = ResolveCollisions(d) BY DEF Ids
  <2> HIDE DEF items, fewer, part, all, c, d, N, S
  <2>9. DOMAIN part = 1..Len(part) /\ DOMAIN all = 1..Len(all)
        /\ Len(part) \in Nat /\ Len(all) \in Nat
    BY <2>2
  <2>10. Len(d) = Len(part) /\ Len(c) = Len(all) BY <2>4, <2>9
  <2>11. \A k \in 1..Len(d) : d[k] = c[k] /\ k \in 1..Len(c)
    BY <2>2, <2>4, <2>9, <2>10
  <2>12. d \in Seq(N)
    <3>1. \A k \in 1..Len(part) : d[k] \in N BY <2>3, <2>10, <2>11
    <3>2. d = [k \in 1..Len(part) |-> d[k]] BY <2>4, <2>9
    <3> QED BY <2>9, <3>1, <3>2
  <2>13. ResolveCollisions(d)[i] = ResolveCollisions(c)[i]
    BY <2>2, <2>3, <2>7, <2>10, <2>11, <2>12, IdsOfPrefix
  <2> QED BY <2>5, <2>8, <2>13 DEF fewer, items
<1> QED BY <1>1, PipelineInvariance, PTL

(***************************************************************************)
(* Whatever the overrides are, if they rename no operation to the name of  *)
(* another operation or override: the index of the registry finds every    *)
(* tool that is listed, and a call of it runs under its own override.      *)
(***************************************************************************)
THEOREM ToolsAreReachable == Spec => []ToolsReachable
<1>1. PipelineInv => ToolsReachable
  <2> SUFFICES ASSUME PipelineInv, ~RenameClash, NEW i \in DOMAIN registry
      PROVE  LET tool == LookupTool(registry, registry[i].name)
             IN  /\ tool = registry[i]
                 /\ CallOverride(cfg.overrides, tool.name, tool)
                      = OverrideOf(cfg.overrides, ops[i].id)
    BY DEF ToolsReachable
  <2> DEFINE tool == LookupTool(registry, registry[i].name)
             Name(k) == ToolName(cfg.overrides, ops[k].id)
  <2>1. PICK j \in DOMAIN registry : registry[j].name = registry[i].name /\ tool = registry[j]
    BY LookupFinds
  <2>2. i \in DOMAIN ops /\ j \in DOMAIN ops
        /\ registry[i].name = Name(i) /\ registry[j].name = Name(j)
    BY ToolOfOperation
  <2>3. j = i BY <2>1, <2>2 DEF RenameClash
  <2>4. tool = registry[i] /\ tool.name = Name(i) /\ tool.sop.id = ops[i].id
    BY <2>1, <2>2, <2>3, ToolOfOperation
  <2>5. Name(i) = ops[i].id \/ Name(i) \notin DOMAIN cfg.overrides
    BY <2>2 DEF RenameClash
  <2> HIDE DEF tool, Name
  <2>6. CallOverride(cfg.overrides, Name(i), tool) = OverrideOf(cfg.overrides, ops[i].id)
    BY <2>4, <2>5 DEF CallOverride
  <2> QED BY <2>4, <2>6 DEF tool
<1> QED BY <1>1, PipelineInvariance, PTL

\* The parameters of an operation before and after the rewriting.
LEMMA ParametersOf ==
  ASSUME PipelineInv, NEW i \in DOMAIN ops
  PROVE  /\ MergedRaw(i) \in Seq(RawParameters)
         /\ ops[i].parameters = [k \in DOMAIN MergedRaw(i) |->
                                   NormalizeParameter(MergedRaw(i)[k], spec.version)]
<1> DEFINE o == OperationsOf(spec.items)[i]
<1>1. o \in Sites(spec.items) /\ ValidItems(spec.items) BY PlacesTyped, KeptOperation
<1>2. ValidItem(o.item) /\ o.op \in RawOperations BY <1>1, SitesTyped
<1>3. o.item.parameters \in Seq(RawParameters) /\ o.op.parameters \in Seq(RawParameters)
  BY <1>2 DEF ValidItem, RawOperations
<1>4. MergedRaw(i) = MergeParameters(o.item.parameters, o.op.parameters) BY DEF MergedRaw
<1>5. ops[i] = NormalizeOperation(o, Ids(spec.items)[i], spec.version) BY KeptOperation
<1> HIDE DEF o
<1>6. MergedRaw(i) \in Seq(RawParameters) BY <1>3, <1>4, MergeFacts
<1>7. ops[i].parameters = [k \in DOMAIN MergedRaw(i) |->
                            NormalizeParameter(MergedRaw(i)[k], spec.version)]
  BY <1>4, <1>5 DEF NormalizeOperation
<1> QED BY <1>6, <1>7

\* They come from the path item or from the operation.
LEMMA ParametersAreThere ==
  ASSUME PipelineInv, NEW i \in DOMAIN ops, NEW k \in DOMAIN MergedRaw(i)
  PROVE  LET o == OperationsOf(spec.items)[i]
         IN  MergedRaw(i)[k] \in Range(o.item.parameters) \cup Range(o.op.parameters)
<1> DEFINE o == OperationsOf(spec.items)[i]
           P == RawParameters
           a == o.item.parameters
           b == o.op.parameters
           m == MergedRaw(i)
<1>1. o \in Sites(spec.items) /\ ValidItems(spec.items) BY PlacesTyped, KeptOperation
<1>2. ValidItem(o.item) /\ o.op \in RawOperations BY <1>1, SitesTyped
<1>3. a \in Seq(P) /\ b \in Seq(P) BY <1>2 DEF ValidItem, RawOperations
<1>4. m = MergeParameters(a, b) BY DEF MergedRaw
<1>5. k \in DOMAIN m OBVIOUS
<1> HIDE DEF m, a, b
<1>6. \A j \in DOMAIN m : \E n \in DOMAIN (a \o b) : m[j] = (a \o b)[n]
  BY <1>3, <1>4, MergeFacts
<1> HIDE DEF P
<1>7. PICK n \in DOMAIN (a \o b) : m[k] = (a \o b)[n] BY <1>5, <1>6
<1>8. m[k] \in Range(a) \cup Range(b) BY <1>3, <1>7 DEF Range
<1> QED BY <1>8 DEF m, a, b

\* The body of an operation before and after the rewriting.
LEMMA BodyOf ==
  ASSUME PipelineInv, NEW i \in DOMAIN ops, ops[i].body # NoBody
  PROVE  LET raw == OperationsOf(spec.items)[i].op.body
             new == ops[i].body
         IN  /\ raw # NoBody /\ raw.variants \in Seq(Variants) /\ raw.required \in BOOLEAN
             /\ raw.variants # <<>>
             /\ new.required = raw.required
             /\ new.variants \in Seq(Variants) /\ Len(new.variants) = Len(raw.variants)
             /\ \A j \in DOMAIN raw.variants :
                  new.variants[j] = IF spec.version = "3.0"
                                    THEN NormalizeVariant(raw.variants[j])
                                    ELSE raw.variants[j]
<1> DEFINE o == OperationsOf(spec.items)[i]
           raw == o.op.body
           S == Bodies
<1>1. o \in Sites(spec.items) /\ ValidItems(spec.items) BY PlacesTyped, KeptOperation
<1>2. o.op \in RawOperations BY <1>1, SitesTyped
<1>3. ops[i].body = NormalizeBody(raw, spec.version) BY KeptOperation DEF NormalizeOperation
<1> HIDE DEF o
<1>4. raw \in {NoBody} \cup S BY <1>2 DEF RawOperations
<1> HIDE DEF raw
<1>5. HasBody(raw) BY <1>3 DEF NormalizeBody
<1>6. raw # NoBody /\ raw.variants # <<>> BY <1>5 DEF HasBody
<1>7. raw \in S BY <1>4, <1>6
<1>8. raw = [required |-> raw.required, variants |-> raw.variants]
      /\ raw.variants \in Seq(Variants) /\ raw.required \in BOOLEAN
  BY <1>7 DEF Bodies
<1> HIDE DEF S
<1> QED BY <1>3, <1>5, <1>6, <1>8, BodyTyped DEF raw, o

\* A body that the specification has is not lost.
LEMMA BodyStays ==
  ASSUME NEW op \in RawOperations, NEW version, NormalizeBody(op.body, version) = NoBody
  PROVE  ~HasBody(op.body)
<1> SUFFICES ASSUME HasBody(op.body) PROVE FALSE OBVIOUS
<1> DEFINE raw == op.body
           new == NormalizeBody(raw, version)
<1>1. raw \in Bodies BY DEF HasBody, RawOperations
<1> HIDE DEF raw
<1>2. raw = [required |-> raw.required, variants |-> raw.variants]
      /\ raw.variants \in Seq(Variants) /\ raw.required \in BOOLEAN
  BY <1>1 DEF Bodies
<1>3. new.required = raw.required /\ new.variants \in Seq(Variants)
  BY <1>2, BodyTyped DEF raw
<1>4. new = raw \/ new = [raw EXCEPT !.variants = [j \in DOMAIN raw.variants |->
                                                     NormalizeVariant(raw.variants[j])]]
  BY DEF NormalizeBody, raw
<1> HIDE DEF new
<1>5. new = [required |-> new.required, variants |-> new.variants] BY <1>2, <1>4
<1>6. new \in Bodies BY <1>2, <1>3, <1>5 DEF Bodies
<1> QED BY <1>6, NoBodyAssumption DEF new, raw

\* The rewriting changes neither the number of the fields nor their names.
LEMMA BodyOfFirst ==
  ASSUME PipelineInv, NEW i \in DOMAIN ops, ops[i].body # NoBody
  PROVE  LET raw == OperationsOf(spec.items)[i].op.body
             new == ops[i].body
             fields == new.variants[1].fields
             old == raw.variants[1].fields
         IN  /\ new.required \in BOOLEAN
             /\ new.variants \in Seq(Variants) /\ new.variants # <<>>
             /\ HasBody(raw) /\ 1 \in DOMAIN raw.variants
             /\ DOMAIN fields = DOMAIN old /\ Len(fields) = Len(old)
             /\ \A k \in DOMAIN fields : fields[k].name = old[k].name
<1> DEFINE V == Variants
           F == BodyFields
           raw == OperationsOf(spec.items)[i].op.body
           new == ops[i].body
           before == raw.variants
           after == new.variants
           old == before[1].fields
           fields == after[1].fields
<1>1. /\ raw # NoBody /\ before \in Seq(V) /\ before # <<>> /\ raw.required \in BOOLEAN
      /\ new.required = raw.required /\ after \in Seq(V) /\ Len(after) = Len(before)
      /\ \A j \in DOMAIN before :
           after[j] = IF spec.version = "3.0" THEN NormalizeVariant(before[j]) ELSE before[j]
  BY BodyOf
<1>2. HasBody(raw) BY <1>1 DEF HasBody
<1> HIDE DEF before, after, new, raw
<1>3. 1 \in DOMAIN before /\ before[1] \in V /\ after # <<>>
  <2> HIDE DEF V
  <2> QED BY <1>1
<1>4. old \in Seq(F) BY <1>3 DEF Variants
<1>5. \A k \in DOMAIN old : old[k] \in F
  <2> HIDE DEF F, old
  <2> QED BY <1>4
<1>6. DOMAIN fields = DOMAIN old /\ Len(fields) = Len(old)
      /\ \A k \in DOMAIN fields : fields[k].name = old[k].name
  <2>1. CASE spec.version = "3.0"
    <3>1. fields = [k \in DOMAIN old |-> NormalizeField(old[k])] /\ Len(fields) = Len(old)
      BY <1>1, <1>3, <2>1, VariantTyped
    <3> QED BY <1>5, <3>1, FieldTyped
  <2>2. CASE spec.version # "3.0" BY <1>1, <1>3, <2>2
  <2> QED BY <2>1, <2>2
<1> QED BY <1>1, <1>2, <1>3, <1>6 DEF before, after, new, raw

\* The keywords of a 3.0 document are those of its meta-schema.
LEMMA KeywordsOf30 ==
  ASSUME PipelineInv, spec.version = "3.0", NEW i \in DOMAIN ops
  PROVE  LET o == OperationsOf(spec.items)[i] IN WrittenIn30(o.item, o.op)
<1>1. i \in DOMAIN OperationsOf(spec.items) BY KeptOperation
<1> QED BY <1>1, FamiliesAssumption DEF PipelineInv

LEMMA SampleIsValue ==
  ASSUME NEW v \in SampleValues
  PROVE  IsValue(v)
<1>1. CASE \E t \in {"string", "object", "null"} : v = [type |-> t] BY <1>1 DEF IsValue
<1>2. CASE \E n \in 0..3 : v = [type |-> "integer", n |-> n]
  <2>1. v.n \in Int BY <1>2
  <2> QED BY <2>1 DEF IsValue
<1> QED BY <1>1, <1>2 DEF SampleValues

LEMMA SchemaIsRewritten ==
  ASSUME NEW s \in ParameterSchemas, Is30(s)
  PROVE  Rewritten(s, NormalizeSchema(s))
BY SampleIsValue, SchemaKeepsMeaning DEF Rewritten

(***************************************************************************)
(* For every 3.0 specification, every parameter in it and every body and   *)
(* body field: the rewritten schema accepts the values that the original   *)
(* one does but for those that the two misreadings lose.                   *)
(***************************************************************************)
THEOREM MeaningIsKept == Spec => []SchemasKeepMeaning
<1>1. PipelineInv => SchemasKeepMeaning
  <2> SUFFICES ASSUME PipelineInv, spec.version = "3.0", NEW i \in DOMAIN ops
      PROVE  /\ \A k \in DOMAIN ops[i].parameters :
                  Rewritten(MergedRaw(i)[k].schema, ops[i].parameters[k].schema)
             /\ ops[i].body # NoBody =>
                  \A j \in DOMAIN ops[i].body.variants :
                    LET raw == OperationsOf(spec.items)[i].op.body.variants[j]
                        new == ops[i].body.variants[j]
                    IN  /\ Rewritten(raw.schema, new.schema)
                        /\ \A k \in DOMAIN new.fields :
                             Rewritten(raw.fields[k].schema, new.fields[k].schema)
    BY DEF SchemasKeepMeaning
  <2> DEFINE o == OperationsOf(spec.items)[i]
  <2>1. WrittenIn30(o.item, o.op) BY KeywordsOf30
  <2>2. ASSUME NEW k \in DOMAIN ops[i].parameters
        PROVE  Rewritten(MergedRaw(i)[k].schema, ops[i].parameters[k].schema)
    <3> DEFINE m == MergedRaw(i)
               p == m[k]
    <3>1. m \in Seq(RawParameters) /\ k \in DOMAIN m
          /\ ops[i].parameters[k] = NormalizeParameter(p, "3.0")
      BY <2>2, ParametersOf
    <3>2. p \in RawParameters
      <4> HIDE DEF m
      <4> QED BY <3>1
    <3>3. Is30(p.schema) BY <2>1, <3>1, ParametersAreThere DEF WrittenIn30
    <3> HIDE DEF p
    <3>4. NormalizeParameter(p, "3.0").schema = NormalizeSchema(p.schema)
          /\ p.schema \in ParameterSchemas
      BY <3>2 DEF NormalizeParameter, RawParameters
    <3> QED BY <3>1, <3>3, <3>4, SchemaIsRewritten DEF p, m
  <2>3. ASSUME ops[i].body # NoBody, NEW j \in DOMAIN ops[i].body.variants
        PROVE  LET raw == o.op.body.variants[j]
                   new == ops[i].body.variants[j]
               IN  /\ Rewritten(raw.schema, new.schema)
                   /\ \A k \in DOMAIN new.fields :
                        Rewritten(raw.fields[k].schema, new.fields[k].schema)
    <3> DEFINE V == Variants
               F == BodyFields
               old == o.op.body.variants
               all == ops[i].body.variants
               raw == old[j]
               new == all[j]
               fields == raw.fields
    <3>1. old \in Seq(V) /\ all \in Seq(V) /\ Len(all) = Len(old) /\ o.op.body # NoBody
          /\ \A n \in DOMAIN old : all[n] = NormalizeVariant(old[n])
      BY <2>3, BodyOf
    <3>2. j \in DOMAIN old /\ raw \in V /\ raw \in Range(old)
      <4>1. j \in DOMAIN all BY <2>3
      <4> HIDE DEF V, old, all
      <4> QED BY <3>1, <4>1 DEF Range
    <3>3. new = NormalizeVariant(raw) BY <3>1, <3>2
    <3>4. Is30(raw.schema) /\ \A f \in Range(fields) : Is30(f.schema)
      BY <2>1, <3>1, <3>2 DEF WrittenIn30
    <3> HIDE DEF new, raw, old, all
    <3>5. raw.schema \in ParameterSchemas /\ fields \in Seq(F) BY <3>2 DEF Variants
    <3>6. new.schema = NormalizeSchema(raw.schema)
          /\ new.fields = [k \in DOMAIN fields |-> NormalizeField(fields[k])]
      BY <3>2, <3>3, VariantTyped
    <3>7. Rewritten(raw.schema, new.schema) BY <3>4, <3>5, <3>6, SchemaIsRewritten
    <3>8. ASSUME NEW k \in DOMAIN new.fields
          PROVE  Rewritten(fields[k].schema, new.fields[k].schema)
      <4> DEFINE f == fields[k]
      <4>1. k \in DOMAIN fields /\ new.fields[k] = NormalizeField(f) BY <3>6, <3>8
      <4>2. f \in F /\ f \in Range(fields)
        <5> HIDE DEF F, fields
        <5> QED BY <3>5, <4>1 DEF Range
      <4>3. Is30(f.schema) BY <3>4, <4>2
      <4> HIDE DEF f
      <4>4. f.schema \in ParameterSchemas BY <4>2 DEF BodyFields
      <4>5. NormalizeField(f).schema = NormalizeSchema(f.schema) BY <4>2, FieldTyped
      <4> QED BY <4>1, <4>3, <4>4, <4>5, SchemaIsRewritten DEF f
    <3> QED BY <3>7, <3>8 DEF raw, new, old, all
  <2> QED BY <2>2, <2>3
<1> QED BY <1>1, PipelineInvariance, PTL

\* What normalize hands on is what simplify counts on.
LEMMA OperationIsSound ==
  ASSUME PipelineInv, NEW i \in DOMAIN ops
  PROVE  /\ SoundOperation(ops[i])
         /\ \A v \in ops[i].variables : Slot("path", <<v>>) \in RequiredInputs(ops[i])
<1> DEFINE o == OperationsOf(spec.items)[i]
           op == ops[i]
           a == o.item.parameters
           b == o.op.parameters
           all == a \o b
           m == MergeParameters(a, b)
<1>1. o \in Sites(spec.items) /\ ValidItems(spec.items) /\ i \in DOMAIN OperationsOf(spec.items)
  BY PlacesTyped, KeptOperation
<1>2. ValidItem(o.item) /\ o.op \in RawOperations /\ Resolved(o.item, o.op)
  BY <1>1, SitesTyped
<1>3. a \in Seq(RawParameters) /\ b \in Seq(RawParameters)
  BY <1>2 DEF ValidItem, RawOperations
<1>4. op = NormalizeOperation(o, Ids(spec.items)[i], spec.version) BY KeptOperation
<1>5. op.variables = PathVariables(o.item.path)
      /\ op.body = NormalizeBody(o.op.body, spec.version)
      /\ op.parameters = [k \in DOMAIN m |-> NormalizeParameter(m[k], spec.version)]
  BY <1>4 DEF NormalizeOperation

<1>6. Listed(o) + 1 < Len(Numerals)
  BY <1>1, FamiliesAssumption DEF PipelineInv
<1>7. Len(Numerals) \in Nat BY NumeralsAssumption
<1> HIDE DEF o
<1>8. m \in Seq(RawParameters) /\ Len(m) <= Len(all)
      /\ (\A j, k \in DOMAIN m : m[j].name = m[k].name /\ m[j].in = m[k].in => j = k)
      /\ (\A j \in DOMAIN m : \E k \in DOMAIN all : m[j] = all[k])
      /\ (\A k \in DOMAIN all : all[k].in = "path" =>
            \E j \in DOMAIN m : m[j].name = all[k].name /\ m[j].in = "path")
  BY <1>3, MergeFacts
<1>9. Len(all) = Len(a) + Len(b) /\ Len(a) \in Nat /\ Len(b) \in Nat BY <1>3
<1> HIDE DEF m
<1>10. DOMAIN op.parameters = DOMAIN m /\ DOMAIN m = 1..Len(m) /\ Len(m) \in Nat
       /\ Len(op.parameters) = Len(m)
  BY <1>5, <1>8
<1>11. ASSUME NEW k \in DOMAIN m
       PROVE  /\ op.parameters[k].name = m[k].name /\ op.parameters[k].in = m[k].in
              /\ op.parameters[k].required = m[k].required
              /\ m[k].name \in RawNames /\ m[k].in \in ParamLocations /\ m[k].required \in BOOLEAN
  <2>1. m[k] \in RawParameters BY <1>8
  <2>2. op.parameters[k] = NormalizeParameter(m[k], spec.version) BY <1>5
  <2> HIDE DEF op
  <2> QED BY <2>1, <2>2 DEF NormalizeParameter, RawParameters
<1>12. \E T : op.parameters \in Seq(T)
  <2>1. op.parameters = [k \in 1..Len(m) |-> op.parameters[k]] BY <1>5, <1>10
  <2> HIDE DEF op
  <2> DEFINE T == {op.parameters[k] : k \in 1..Len(m)}
  <2>2. [k \in 1..Len(m) |-> op.parameters[k]] \in Seq(T) BY <1>10
  <2> QED BY <2>1, <2>2
<1> HIDE DEF op, all, a, b
<1> DEFINE old == o.op.body.variants
           fields == op.body.variants[1].fields
<1>13. op.body # NoBody =>
         /\ op.body.required \in BOOLEAN
         /\ op.body.variants \in Seq(Variants) /\ op.body.variants # <<>>
         /\ HasBody(o.op.body) /\ 1 \in DOMAIN old
         /\ DOMAIN fields = DOMAIN old[1].fields /\ Len(fields) = Len(old[1].fields)
         /\ \A k \in DOMAIN fields : fields[k].name = old[1].fields[k].name
  BY BodyOfFirst DEF op, o
<1>14. Len(op.parameters) + 1 < Len(Numerals)
       /\ (op.body # NoBody => Len(op.parameters) + Len(fields) + 1 < Len(Numerals))
  <2>1. CASE op.body = NoBody
    <3>1. ~HasBody(o.op.body) BY <1>2, <1>5, <2>1, BodyStays
    <3>2. Listed(o) = Len(a) + Len(b) + 0 BY <3>1 DEF Listed, a, b
    <3> QED BY <1>6, <1>7, <1>8, <1>9, <1>10, <2>1, <3>2
  <2>2. CASE op.body # NoBody
    <3>1. Len(fields) \in Nat
      <4>1. op.body.variants[1] \in Variants
        <5> DEFINE V == Variants
                   vs == op.body.variants
        <5>1. vs \in Seq(V) /\ vs # <<>> BY <1>13, <2>2
        <5> HIDE DEF V, vs
        <5>2. vs[1] \in V BY <5>1
        <5> QED BY <5>2 DEF V, vs
      <4> DEFINE F == BodyFields
      <4>2. fields \in Seq(F) BY <4>1 DEF Variants
      <4> HIDE DEF F, fields
      <4> QED BY <4>2
    <3>2. Listed(o) = Len(a) + Len(b) + Len(fields) BY <1>13, <2>2 DEF Listed, a, b
    <3> HIDE DEF fields
    <3> QED BY <1>6, <1>7, <1>8, <1>9, <1>10, <2>2, <3>1, <3>2
  <2> QED BY <2>1, <2>2
<1>15. op.body # NoBody =>
         \A j, k \in DOMAIN fields : fields[j].name = fields[k].name => j = k
  <2> SUFFICES ASSUME op.body # NoBody PROVE \A j, k \in DOMAIN fields :
                 fields[j].name = fields[k].name => j = k
    OBVIOUS
  <2>1. \A n \in DOMAIN old : \A j, k \in DOMAIN old[n].fields :
          old[n].fields[j].name = old[n].fields[k].name => j = k
    BY <1>2, <1>13 DEF Resolved, HasBody
  <2> QED BY <1>13, <2>1
<1>16. SoundOperation(op)
  BY <1>8, <1>10, <1>11, <1>12, <1>13, <1>14, <1>15 DEF SoundOperation
<1>17. ASSUME NEW v \in op.variables PROVE Slot("path", <<v>>) \in RequiredInputs(op)
  <2>1. v \in PathVariables(o.item.path) BY <1>5
  <2>2. PICK k \in DOMAIN all : all[k].name = v /\ all[k].in = "path"
    BY <1>2, <2>1 DEF Resolved, all, a, b
  <2>3. PICK j \in DOMAIN m : m[j].name = v /\ m[j].in = "path" BY <1>8, <2>2
  <2>4. PICK n \in DOMAIN all : m[j] = all[n] BY <1>8
  <2>5. m[j].required BY <1>2, <2>3, <2>4 DEF Resolved, all, a, b
  <2> DEFINE p == op.parameters[j]
  <2>6. p.name = v /\ p.in = "path" /\ p.required BY <1>11, <2>3, <2>5
  <2>7. p \in Range(op.parameters) BY <1>10 DEF Range
  <2> HIDE DEF p
  <2> QED BY <2>6, <2>7 DEF RequiredInputs
<1> QED BY <1>16, <1>17 DEF op

LEMMA ToolIsComplete ==
  ASSUME PipelineInv, NEW i \in DOMAIN registry, ~ArgumentClash(registry[i].sop.op)
  PROVE  LET sop == registry[i].sop
         IN  Complete(sop, Inputs(sop.op), RequiredInputs(sop.op))
<1> DEFINE op == ops[i]
           sop == SimplifiedOperation(op, cfg.rules)
           s == SimplifyOne(op, cfg.rules)
<1>1. i \in DOMAIN ops /\ registry[i].sop = sop /\ registry[i].sop.op = op
  BY ToolOfOperation
<1>2. SoundOperation(op) BY <1>1, OperationIsSound
<1>3. ~op.intricate /\ (cfg.rules.dropSpecMetadata => ~MetadataClash(op))
      /\ (cfg.rules.flattenWrappers => ~WrapperClash(op))
  BY <1>1 DEF ArgumentClash
<1>4. Complete(s, Inputs(op), RequiredInputs(op)) BY <1>2, <1>3, SimplifiedIsComplete
<1>5. sop.bindings = s.bindings /\ sop.props = s.props /\ sop.required = s.required
  BY <1>3 DEF SimplifiedOperation, Simplified
<1> HIDE DEF op, s, sop
<1>6. Complete(sop, Inputs(op), RequiredInputs(op)) BY <1>4, <1>5 DEF Complete
<1> QED BY <1>1, <1>6

\* What a complete tool makes of the arguments that its schema accepts.
LEMMA CompleteRequest ==
  ASSUME NEW sop, NEW A, NEW R, Complete(sop, A, R), NEW args,
         \A i \in DOMAIN sop.required : sop.required[i] \in args
  PROVE  LET request == BuildRequest(sop.bindings, args)
         IN  /\ \A a \in R : \E t \in DOMAIN request : Within(t, a)
             /\ \A e \in Range(sop.props) : e.key \in args =>
                  e.slot \in DOMAIN request /\ request[e.slot] = e.key
<1> DEFINE bindings == sop.bindings
           request == BuildRequest(bindings, args)
<1>1. Separate(bindings) /\ \E T : bindings \in Seq(T) BY DEF Complete
<1>2. \A k \in DOMAIN bindings : bindings[k].key \in args =>
        bindings[k].slot \in DOMAIN request /\ request[bindings[k].slot] = bindings[k].key
  BY <1>1, RequestIsExact
<1> HIDE DEF request
<1>3. ASSUME NEW a \in R PROVE \E t \in DOMAIN request : Within(t, a)
  <2>1. PICK i \in DOMAIN sop.required, k \in DOMAIN bindings :
          sop.required[i] = bindings[k].key /\ Within(bindings[k].slot, a)
    BY <1>3 DEF Complete
  <2>2. bindings[k].key \in args BY <2>1
  <2> QED BY <1>2, <2>1, <2>2
<1>4. ASSUME NEW e \in Range(sop.props), e.key \in args
      PROVE  e.slot \in DOMAIN request /\ request[e.slot] = e.key
  <2>1. PICK k \in DOMAIN bindings : bindings[k].key = e.key /\ bindings[k].slot = e.slot
    BY DEF Complete
  <2> QED BY <1>2, <1>4, <2>1
<1> QED BY <1>3, <1>4 DEF request

(***************************************************************************)
(* For every specification that the validator lets through and every       *)
(* configuration: a tool without the argument clashes of the findings      *)
(* offers every input of its operation, nothing but a bad bound makes the  *)
(* validation raise, and the arguments that the schema accepts make a      *)
(* request with all the API needs and each value where it was given for.   *)
(***************************************************************************)
THEOREM CallsRoundTrip == Spec => []RoundTrip
<1>1. PipelineInv => RoundTrip
  <2> SUFFICES ASSUME PipelineInv, NEW i \in DOMAIN registry,
                      ~ArgumentClash(registry[i].sop.op)
      PROVE  LET sop == registry[i].sop
                 called == "args" \in DOMAIN result /\ registry[i] = LookupTool(registry, result.name)
             IN  /\ \A input \in Inputs(sop.op) : Covers({e.slot : e \in Range(sop.props)}, input)
                 /\ called => AcceptedCallsDispatch
                 /\ called /\ result.status = "schema error" => BadBound(sop.op)
                 /\ called /\ result.status = "sent" =>
                      \A e \in Range(sop.props) : e.key \in result.args =>
                        /\ e.slot \in DOMAIN result.request
                        /\ result.request[e.slot] = e.key
    BY DEF RoundTrip
  <2> DEFINE tool == registry[i]
             sop == tool.sop
             A == Inputs(sop.op)
             R == RequiredInputs(sop.op)
             called == "args" \in DOMAIN result /\ tool = LookupTool(registry, result.name)
  <2>1. Complete(sop, A, R) BY ToolIsComplete
  <2>2. ASSUME NEW input \in A PROVE Covers({e.slot : e \in Range(sop.props)}, input)
    <3>1. PICK e \in Range(sop.props) : Within(e.slot, input) BY <2>1, <2>2 DEF Complete
    <3> QED BY <3>1 DEF Covers, Within
  <2>3. \A v \in sop.op.variables : Slot("path", <<v>>) \in R
    BY ToolOfOperation, OperationIsSound
  <2>4. SchemaIsSound(tool) \/ BadBound(sop.op)
    BY <2>1 DEF Complete, SchemaIsSound, BadBound
  <2> HIDE DEF tool, A, R
  <2>5. called /\ result.status = "schema error" => BadBound(sop.op)
    BY <2>4 DEF PipelineInv, ResultInv
  <2>6. ASSUME called, result.status \in {"sent", "DispatchError"}
        PROVE  /\ \A a \in R : \E t \in DOMAIN result.request : Within(t, a)
               /\ \A e \in Range(sop.props) : e.key \in result.args =>
                    e.slot \in DOMAIN result.request /\ result.request[e.slot] = e.key
               /\ result.status = "sent" <=> PathFilled(sop.op, result.request)
    <3>1. /\ Valid(tool, result.args)
          /\ result.request = BuildRequest(sop.bindings, result.args)
          /\ result.status = "sent" <=> PathFilled(sop.op, result.request)
      BY <2>6 DEF PipelineInv, ResultInv
    <3>2. \A n \in DOMAIN sop.required : sop.required[n] \in result.args
      BY <3>1 DEF Valid
    <3> DEFINE request == BuildRequest(sop.bindings, result.args)
    <3>3. /\ \A a \in R : \E t \in DOMAIN request : Within(t, a)
          /\ \A e \in Range(sop.props) : e.key \in result.args =>
               e.slot \in DOMAIN request /\ request[e.slot] = e.key
      <4> HIDE DEF sop
      <4> QED BY ONLY <2>1, <3>2, CompleteRequest
    <3> HIDE DEF request, sop
    <3>4. result.request = request BY <3>1 DEF request
    <3> QED BY ONLY <3>1, <3>3, <3>4
  <2>7. ASSUME called PROVE result.status # "DispatchError"
    <3> SUFFICES ASSUME result.status = "DispatchError" PROVE FALSE OBVIOUS
    <3>1. PICK v \in sop.op.variables : Slot("path", <<v>>) \notin DOMAIN result.request
      BY <2>6, <2>7 DEF PathFilled
    <3>2. PICK t \in DOMAIN result.request : Within(t, Slot("path", <<v>>)) BY <2>3, <2>6, <2>7
    <3> QED BY <3>1, <3>2 DEF Within, Slot
  <2>8. ASSUME called, result.status = "sent", NEW a \in R PROVE Covers(DOMAIN result.request, a)
    <3>1. PICK t \in DOMAIN result.request : Within(t, a) BY <2>6, <2>8
    <3> QED BY <3>1 DEF Covers, Within
  <2>9. called => AcceptedCallsDispatch
    BY <2>7, <2>8 DEF AcceptedCallsDispatch, R
  <2> QED BY <2>2, <2>5, <2>6, <2>9 DEF tool, A
<1> QED BY <1>1, PipelineInvariance, PTL
=============================================================================
