----------------------------- MODULE HotReload -----------------------------
(***************************************************************************)
(* The specification file, the pipeline that loads it and the watcher that *)
(* loads it again (_run_pipeline and _watch_and_reload of cli/serve.py,    *)
(* core/load.py, runtime/registry_ref.py), beside an editor that changes   *)
(* the file at any time.  A load is synchronous: it blocks the event loop, *)
(* but not the editor, and it reads the file three times.                  *)
(*                                                                         *)
(* The watch library reports a change of a watched file at some later      *)
(* time, several changes at once, and keeps what happens during a reload.  *)
(***************************************************************************)
EXTENDS Naturals

CONSTANTS
  Contents,  \* what the file can hold
  Version,   \* the OpenAPI version a content declares, or "none"
  Sound,     \* contents that resolve and validate
  First,     \* what it holds at the start
  NoFile,    \* there is no file at the path
  NoRegistry,
  MaxEdits   \* a bound on the changes of the file

Registries == [version : {"3.0", "3.1"}, data : Sound]

ASSUME HotReloadAssumption ==
  /\ Version \in [Contents -> {"3.0", "3.1", "none"}]
  /\ Sound \subseteq {c \in Contents : Version[c] # "none"}
  /\ First \in Sound
  /\ NoFile \notin Contents
  /\ NoRegistry \notin Registries
  /\ MaxEdits \in Nat

VARIABLES
  file,      \* what is at the path
  edits,     \* how often it changed
  server,    \* "starting", "serving", or "down"
  watching,  \* the watched files: "none", "config", or "both"
  pending,   \* a change that the watcher has not taken up
  load,      \* the load that runs: "idle", "check", "read", or "resolve"
  raw,       \* the version found by its first read
  registry,  \* RegistryRef._registry: [version, data]
  missed     \* history: the file changed before the watch began

reloadVars == <<file, edits, server, watching, pending, load, raw, registry, missed>>

HotReloadTypeOK ==
  /\ file \in Contents \cup {NoFile}
  /\ edits \in 0..MaxEdits
  /\ server \in {"starting", "serving", "down"}
  /\ watching \in {"none", "config", "both"}
  /\ pending \in BOOLEAN
  /\ load \in {"idle", "check", "read", "resolve"}
  /\ raw \in {"3.0", "3.1", "none"}
  /\ registry \in Registries \cup {NoRegistry}
  /\ missed \in BOOLEAN

\* serve_cmd begins with the first load.
HotReloadInit ==
  /\ file = First
  /\ edits = 0
  /\ server = "starting"
  /\ watching = "none"
  /\ pending = FALSE
  /\ load = "check"
  /\ raw = "none"
  /\ registry = NoRegistry
  /\ missed = FALSE

\* The registry that one content yields.
Built(c) == [version |-> Version[c], data |-> c]

\* The event loop is free to run the coroutines of calls.
LoopFree == server = "serving" /\ load = "idle"

-----------------------------------------------------------------------------

\* Another process saves, truncates, removes or replaces the file.
Edit ==
  /\ edits < MaxEdits
  /\ file' \in (Contents \cup {NoFile}) \ {file}
  /\ edits' = edits + 1
  /\ pending' = (pending \/ watching = "both")
  /\ UNCHANGED <<server, watching, load, raw, registry, missed>>

\* The watcher also reloads when the configuration changes.
EditConfig ==
  /\ edits < MaxEdits
  /\ watching # "none"
  /\ edits' = edits + 1
  /\ pending' = TRUE
  /\ UNCHANGED <<file, server, watching, load, raw, registry, missed>>

\* Mutant: a failed reload ends the watch.
LoadRaisesForGood ==
  /\ load' = "idle"
  /\ server' = IF server = "starting" THEN "down" ELSE server
  /\ watching' = "ended"
  /\ UNCHANGED <<file, edits, pending, raw, registry, missed>>

\* Mutant: a failed reload leaves no tools.
LoadRaisesWithoutTools ==
  /\ load' = "idle"
  /\ server' = IF server = "starting" THEN "down" ELSE server
  /\ registry' = NoRegistry
  /\ UNCHANGED <<file, edits, watching, pending, raw, missed>>

\* A SpecmcpError: a start ends the process, a reload keeps the registry.
LoadRaises ==
  /\ load' = "idle"
  /\ server' = IF server = "starting" THEN "down" ELSE server
  /\ UNCHANGED <<file, edits, watching, pending, raw, registry, missed>>

\* path.exists()
CheckExists ==
  /\ load = "check"
  /\ file # NoFile
  /\ load' = "read"
  /\ UNCHANGED <<file, edits, server, watching, pending, raw, registry, missed>>

CheckFails ==
  /\ load = "check"
  /\ file = NoFile
  /\ LoadRaises

\* path.read_bytes(), parsed for the version alone.
ReadRaw ==
  /\ load = "read"
  /\ file # NoFile
  /\ Version[file] # "none"
  /\ raw' = Version[file]
  /\ load' = "resolve"
  /\ UNCHANGED <<file, edits, server, watching, pending, registry, missed>>

ReadFails ==
  /\ load = "read"
  /\ file # NoFile
  /\ Version[file] = "none"
  /\ LoadRaises

\* The file went away after the check (FileNotFoundError), or holds JSON that is
\* no object (AttributeError).  Neither is a SpecmcpError, so it ends the start,
\* or else the watcher and the whole task group.
ReadCrashes ==
  /\ load = "read"
  /\ file \notin {c \in Contents : Version[c] # "none"}
  /\ load' = "idle"
  /\ server' = "down"
  /\ UNCHANGED <<file, edits, watching, pending, raw, registry, missed>>

\* Mutant: the change is ticked off after the reload, not before.
SwapThenTickOff ==
  /\ load = "resolve"
  /\ file \in Sound
  /\ registry' = [version |-> raw, data |-> file]
  /\ load' = "idle"
  /\ pending' = FALSE
  /\ UNCHANGED <<file, edits, server, watching, raw, missed>>

\* The resolver reads the file again; the rest of the pipeline is pure, and
\* RegistryRef.swap, which nobody contends for, does not suspend.
Swap ==
  /\ load = "resolve"
  /\ file \in Sound
  /\ registry' = [version |-> raw, data |-> file]
  /\ load' = "idle"
  /\ UNCHANGED <<file, edits, server, watching, pending, raw, missed>>

ResolveFails ==
  /\ load = "resolve"
  /\ file \notin Sound
  /\ LoadRaises

LoadStep == CheckExists \/ CheckFails \/ ReadRaw \/ ReadFails \/ ReadCrashes \/ Swap \/ ResolveFails

\* anyio.run: the transport and the watcher are started.
Serve ==
  /\ server = "starting"
  /\ load = "idle"
  /\ server' = "serving"
  /\ UNCHANGED <<file, edits, watching, pending, load, raw, registry, missed>>

\* awatch: what changed before is not reported, nor is a file that is not there.
StartWatching ==
  /\ LoopFree
  /\ watching = "none"
  /\ watching' = IF file = NoFile THEN "config" ELSE "both"
  /\ missed' = (file = NoFile \/ registry # Built(file))
  /\ UNCHANGED <<file, edits, server, pending, load, raw, registry>>

\* awatch yields the changes so far and _run_pipeline starts.
Reload ==
  /\ LoopFree
  /\ pending
  /\ watching \in {"config", "both"}
  /\ pending' = FALSE
  /\ load' = "check"
  /\ missed' = (missed /\ watching = "config")
  /\ UNCHANGED <<file, edits, server, watching, raw, registry>>

WatcherStep == Serve \/ StartWatching \/ Reload
=============================================================================
