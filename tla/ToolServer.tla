----------------------------- MODULE ToolServer -----------------------------
(***************************************************************************)
(* The server in --watch mode: tool calls (handle_call_tool of             *)
(* cli/serve.py, dispatch of runtime/dispatcher.py) beside reloads of the  *)
(* registry.  A call keeps the tool it found, whatever is loaded later.    *)
(* Building and retrying requests, the HTTP client and streaming are the   *)
(* matter of Pipeline and Dispatcher.                                      *)
(***************************************************************************)
EXTENDS HotReload, AuthInjector, Lists

CONSTANT AuthOf  \* per sound content, a function from its tools to op.auth

ASSUME ToolServerAssumption ==
  /\ DOMAIN AuthOf = Sound
  /\ \A d \in Sound : \A t \in DOMAIN AuthOf[d] : AuthOf[d][t] \in Seq(Seq(Schemes))

Tools == UNION {DOMAIN AuthOf[c] : c \in Sound}

vars == <<reloadVars, injectorVars>>

TypeOK ==
  /\ HotReloadTypeOK
  /\ AuthInjectorTypeOK

Init ==
  /\ HotReloadInit
  /\ AuthInjectorInit

\* The requirements of a tool that is in the registry.
Exposes(t) == registry # NoRegistry /\ t \in DOMAIN AuthOf[registry.data]

-----------------------------------------------------------------------------

\* tools/call of a tool of the registry.  A call of another tool, or of one none
\* of whose groups is configured, is answered at once and changes nothing.
Call(c, t) ==
  /\ LoopFree
  /\ c \notin active
  /\ Exposes(t)
  /\ Inject(c, AuthOf[registry.data][t], 1)
  /\ UNCHANGED <<reloadVars, tokens>>

CallInject(c) ==
  /\ LoopFree
  /\ InjectStep(c)
  /\ UNCHANGED reloadVars

\* The upstream answers, or the HTTP client gives up.
SendEnds(c) ==
  /\ LoopFree
  /\ Sending(c)
  /\ Leave({c})
  /\ UNCHANGED reloadVars

\* Mutant: the second request is taken for a first one.
RetryAgain(c) ==
  /\ LoopFree
  /\ Sending(c)
  /\ round[c] = 1
  /\ Invalidates(auth[c])
  /\ InvalidateCachedTokens(auth[c])
  /\ Inject(c, auth[c], 1)
  /\ UNCHANGED reloadVars

\* 401, and op.auth names a scheme with a token cache: inject and send again.
SendRejected(c) ==
  /\ LoopFree
  /\ Sending(c)
  /\ round[c] = 1
  /\ Invalidates(auth[c])
  /\ InvalidateCachedTokens(auth[c])
  /\ Inject(c, auth[c], 2)
  /\ UNCHANGED reloadVars

\* Any other 401 ends the call.
SendUnauthorized(c) ==
  /\ LoopFree
  /\ Sending(c)
  /\ round[c] = 1 => ~Invalidates(auth[c])
  /\ Leave({c})
  /\ UNCHANGED reloadVars

SendStep(c) == SendEnds(c) \/ SendRejected(c) \/ SendUnauthorized(c)

\* The client cancels.
Cancel(c) ==
  /\ LoopFree
  /\ c \in active
  /\ Leave({c})
  /\ UNCHANGED reloadVars

\* When the watcher dies the task group cancels the transport and its calls.
Reloading ==
  /\ LoadStep
  /\ Leave(IF server' = "down" THEN active ELSE {})

Watching == WatcherStep /\ UNCHANGED injectorVars

Next ==
  \/ (Edit \/ EditConfig) /\ UNCHANGED injectorVars
  \/ Reloading
  \/ Watching
  \/ \E c \in Calls :
       \/ \E t \in Tools : Call(c, t)
       \/ CallInject(c) \/ SendStep(c) \/ Cancel(c)
  \/ LoopFree /\ Expire /\ UNCHANGED reloadVars

\* A load always comes to its end, the watch library reports every change of a
\* watched file, and every request is answered or times out.
Fairness ==
  /\ WF_vars(Reloading)
  /\ WF_vars(Watching)
  /\ \A c \in Calls : WF_vars(CallInject(c)) /\ WF_vars(SendStep(c))

Spec == Init /\ [][Next]_vars

FairSpec == Spec /\ Fairness

-----------------------------------------------------------------------------

(***************************************************************************)
(* A registry that is out of date, or built from two states of the file,   *)
(* is replaced: with no change left to take up the server serves what a    *)
(* sound file says, provided the watch began before the file changed.      *)
(***************************************************************************)
RegistryFollowsFile ==
  LoopFree /\ watching = "both" /\ ~pending /\ ~missed /\ file \in Sound
    => registry = Built(file)

(***************************************************************************)
(* A broken file or a failed reload never takes a tool away: whenever the  *)
(* server may look up a tool that all sound contents have, it finds it,    *)
(* and the answer is not "Unknown tool".                                   *)
(***************************************************************************)
NeverUnknown ==
  LoopFree => \A t \in Tools :
    (\A d \in Sound : t \in DOMAIN AuthOf[d]) => Exposes(t)

\* The schemes of a group that put their credential at p.
Placed(schemes, p) == Keep(schemes, {s \in Schemes : Place[s] = p})

\* What such schemes leave behind: the last one that replaces what is there, and
\* the cookies after it.
Carried(schemes) ==
  LET replacing == {i \in DOMAIN schemes : Kind[schemes[i]] # "cookie"}
  IN  SubSeq(schemes, Max({1} \cup replacing), Len(schemes))

(***************************************************************************)
(* Every request, the one after a 401 too, carries the credentials of one  *)
(* group once each, in order, and none besides; of several credentials for *)
(* one header only the last is sent.                                       *)
(***************************************************************************)
CarriesOneGroup ==
  \A c \in Calls : Sending(c) =>
    \A p \in Places : request[c][p] = Carried(Placed(group[c], p))

(***************************************************************************)
(* The request after a 401 carries a newer token for every cached scheme,  *)
(* whichever group was taken and whatever other calls do to the caches.    *)
(***************************************************************************)
RetryIsFresh ==
  \A c \in Calls : Sending(c) /\ round[c] = 2 =>
    \A s \in Cached : used[c][s] # 0 => used[c][s] > rejected[c][s]

(***************************************************************************)
(* Every sound state of the file is served in the end, unless the file     *)
(* changes again, the server goes down, or the change came before the      *)
(* watch: no failed reload, and no change during one, stops the watcher.   *)
(***************************************************************************)
CatchesUp ==
  \A d \in Sound :
    server = "serving" /\ file = d
      ~> registry = Built(d) \/ missed \/ file # d \/ server = "down"

(***************************************************************************)
(* Every call ends, with or without reloads, rejections and failures.      *)
(***************************************************************************)
CallsEnd == \A c \in Calls : c \in active ~> c \notin active
=============================================================================
