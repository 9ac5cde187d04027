---------------------------- MODULE ToolRegistry ----------------------------
(***************************************************************************)
(* The Expose stage (core/expose.py) and the use a call makes of it        *)
(* (handle_call_tool in cli/serve.py).  The operations that come from the  *)
(* Simplify stage are a function from their places in the specification to *)
(* records with an id; overrides is the "operations" section of the        *)
(* configuration, a function from names to [rename, hide, strict], where   *)
(* rename is <<>> for none.  A registry is a function from places to tools.*)
(***************************************************************************)
EXTENDS Naturals, Sequences, FiniteSetsExt

CONSTANT NoTool, NoOverride

OverrideOf(overrides, name) ==
  IF name \in DOMAIN overrides THEN overrides[name] ELSE NoOverride

Hidden(overrides, id) == id \in DOMAIN overrides /\ overrides[id].hide

\* Mutant: an override without a rename blanks the name.
RenamedAlways(overrides, id) ==
  IF id \in DOMAIN overrides THEN overrides[id].rename ELSE id

ToolName(overrides, id) ==
  IF id \in DOMAIN overrides /\ overrides[id].rename # <<>>
  THEN overrides[id].rename
  ELSE id

Strict(overrides, id) == id \in DOMAIN overrides /\ overrides[id].strict

\* ToolRegistry.build
Exposed(sops, overrides) == {i \in DOMAIN sops : ~Hidden(overrides, sops[i].id)}

BuildRegistry(sops, overrides) ==
  [i \in Exposed(sops, overrides) |->
     [name   |-> ToolName(overrides, sops[i].id),
      strict |-> sops[i].strict \/ Strict(overrides, sops[i].id),
      sop    |-> sops[i]]]

\* ToolRegistry.lookup: of several tools of one name the index has the last.
LookupTool(registry, name) ==
  LET named == {i \in DOMAIN registry : registry[i].name = name}
  IN  IF named = {} THEN NoTool ELSE registry[Max(named)]

\* Mutant: overrides are looked up by the name of the tool alone.
CallOverrideByName(overrides, name, tool) == OverrideOf(overrides, name)

\* The override a call runs under: that of the tool's name, else of its operation.
CallOverride(overrides, name, tool) ==
  IF name \in DOMAIN overrides
  THEN OverrideOf(overrides, name)
  ELSE OverrideOf(overrides, tool.sop.id)
=============================================================================
