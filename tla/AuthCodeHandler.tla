--------------------------- MODULE AuthCodeHandler ---------------------------
(***************************************************************************)
(* AuthCodeHandler.apply (auth/oauth2_authcode.py): how a tool call obtains*)
(* the access token of its session, one handler per scheme, any number of  *)
(* calls at once.  A step ends where the coroutine suspends: at the session*)
(* lock, at the store's get, at the provider's answer, at the store's save.*)
(*                                                                         *)
(* A session lock is the pair of its slot and of an epoch, the number of   *)
(* lock objects the handler's TTL cache has dropped for that slot before.  *)
(* A call keeps the lock object it looked up, whatever the cache does.     *)
(***************************************************************************)
EXTENDS LoginFlow

CONSTANTS
  Calls,    \* concurrent tool calls
  MaxEpoch  \* lock objects the cache may drop per slot: a bound

ASSUME HandlerAssumption == MaxEpoch \in Nat

VARIABLES
  epoch,  \* epoch of the lock object each slot's next call will get
  held,   \* the locked lock objects
  pc,     \* where each call is in apply
  slot,   \* the scheme and session it works for
  lock,   \* the epoch of its lock object
  tok     \* the tokens it read, obtained or injected

callVars == <<epoch, held, pc, slot, lock, tok>>

Locks == Slots \X (0..MaxEpoch)

\* Inside `async with lock`.
Critical == {"reading", "refreshing", "saving"}
\* Suspended somewhere in apply.
Active == {"waiting"} \cup Critical
\* Not in apply: never, or it returned, raised or was cancelled.
Resting == {"idle", "injected", "login_required", "failed", "cancelled"}

HandlerTypeOK ==
  /\ epoch \in [Slots -> 0..MaxEpoch]
  /\ held \subseteq Locks
  /\ pc \in [Calls -> Active \cup Resting]
  /\ slot \in [Calls -> Slots \cup {None}]
  /\ lock \in [Calls -> 0..MaxEpoch]
  /\ tok \in [Calls -> Tokens \cup {None}]

HandlerInit ==
  /\ epoch = [k \in Slots |-> 0]
  /\ held = {}
  /\ pc = [c \in Calls |-> "idle"]
  /\ slot = [c \in Calls |-> None]
  /\ lock = [c \in Calls |-> 0]
  /\ tok = [c \in Calls |-> None]

LockOf(c) == <<slot[c], lock[c]>>

(***************************************************************************)
(* Mutations of the definitions below, for the mutant runs.                *)
(***************************************************************************)

\* the lock is not taken
AcquireWithoutLock(c) ==
  /\ pc[c] = "waiting"
  /\ held' = held \cup {LockOf(c)}
  /\ pc' = [pc EXCEPT ![c] = "reading"]
  /\ UNCHANGED <<epoch, slot, lock, tok, tokenVars, loginVars>>

\* an error of the store leaves the lock held
StoreErrorHoldingLock(c) ==
  /\ pc[c] \in {"reading", "saving"}
  /\ pc' = [pc EXCEPT ![c] = "failed"]
  /\ lost' = IF pc[c] = "saving" THEN lost \cup {tok[c].grant} ELSE lost
  /\ tok' = [tok EXCEPT ![c] = None]
  /\ UNCHANGED <<epoch, held, slot, lock, store, gen, loginVars>>

-----------------------------------------------------------------------------

\* Leaving `async with lock`, however apply goes on.
Leave(c, to) ==
  /\ held' = held \ {LockOf(c)}
  /\ pc' = [pc EXCEPT ![c] = to]
  /\ UNCHANGED <<epoch, slot, lock>>

\* apply is entered for slot k: the lock in the cache, or a new one.
EnterApply(c, k) ==
  /\ pc[c] \in Resting
  /\ pc' = [pc EXCEPT ![c] = "waiting"]
  /\ slot' = [slot EXCEPT ![c] = k]
  /\ lock' = [lock EXCEPT ![c] = epoch[k]]
  /\ tok' = [tok EXCEPT ![c] = None]
  /\ UNCHANGED <<epoch, held, tokenVars, loginVars>>

\* The TTL cache drops slot k's lock, an hour after it was created (or when
\* 10,000 newer sessions evict it), held or not.
ExpireLock(k) ==
  /\ epoch[k] < MaxEpoch
  /\ epoch' = [epoch EXCEPT ![k] = @ + 1]
  /\ UNCHANGED <<held, pc, slot, lock, tok, tokenVars, loginVars>>

Acquire(c) ==
  /\ pc[c] = "waiting"
  /\ LockOf(c) \notin held
  /\ held' = held \cup {LockOf(c)}
  /\ pc' = [pc EXCEPT ![c] = "reading"]
  /\ UNCHANGED <<epoch, slot, lock, tok, tokenVars, loginVars>>

\* The store returned a usable token: inject it.
ReadUsable(c) ==
  LET t == store[slot[c]]
  IN /\ pc[c] = "reading"
     /\ Usable(t)
     /\ Leave(c, "injected")
     /\ tok' = [tok EXCEPT ![c] = t]
     /\ UNCHANGED <<tokenVars, loginVars>>

\* It returned an expired token with a refresh token: ask the provider.
ReadRefreshable(c) ==
  LET t == store[slot[c]]
  IN /\ pc[c] = "reading"
     /\ ~Usable(t)
     /\ Refreshable(t)
     /\ pc' = [pc EXCEPT ![c] = "refreshing"]
     /\ tok' = [tok EXCEPT ![c] = t]
     /\ UNCHANGED <<epoch, held, slot, lock, tokenVars, loginVars>>

\* It returned nothing to use: release the lock, issue a login link, raise
\* AuthRequiredError.
ReadUnusable(c) ==
  LET t == store[slot[c]]
  IN /\ pc[c] = "reading"
     /\ ~Usable(t)
     /\ ~Refreshable(t)
     /\ Leave(c, "login_required")
     /\ IssueNonce(slot[c])
     /\ UNCHANGED <<tok, tokenVars, flowVars, deleteVars>>

\* _do_refresh returns new tokens.
RefreshOk(c) ==
  /\ pc[c] = "refreshing"
  /\ \E issued \in 0..MaxGen :
       /\ GrantRefresh(tok[c], issued)
       /\ tok' = [tok EXCEPT ![c] = FromTokenResponse(@.grant, issued, @.gen)]
  /\ pc' = [pc EXCEPT ![c] = "saving"]
  /\ UNCHANGED <<epoch, held, slot, lock, store, lost, loginVars>>

\* _do_refresh raises TokenRefreshError: refused, unreachable, or the answer
\* to a rotation was lost.  Fall through to the login link.
RefreshFails(c) ==
  /\ pc[c] = "refreshing"
  /\ \/ UNCHANGED <<gen, lost>>
     \/ gen[tok[c].grant] = tok[c].gen /\ OrphanRefreshToken(tok[c].grant)
  /\ Leave(c, "login_required")
  /\ IssueNonce(slot[c])
  /\ tok' = [tok EXCEPT ![c] = None]
  /\ UNCHANGED <<store, flowVars, deleteVars>>

\* The refreshed tokens are saved and injected.
SaveRefreshed(c) ==
  /\ pc[c] = "saving"
  /\ Save(slot[c], tok[c])
  /\ Leave(c, "injected")
  /\ UNCHANGED <<tok, gen, lost, loginVars>>

\* get or save raises: not a TokenRefreshError, so apply raises too.
StoreError(c) ==
  /\ pc[c] \in {"reading", "saving"}
  /\ Leave(c, "failed")
  /\ lost' = IF pc[c] = "saving" THEN lost \cup {tok[c].grant} ELSE lost
  /\ tok' = [tok EXCEPT ![c] = None]
  /\ UNCHANGED <<store, gen, loginVars>>

\* The client cancels the call, or its connection ends, while it is suspended.
\* A refresh the provider already answered, or tokens not saved yet, are lost;
\* a save already handed to the database is still done.
Cancel(c) ==
  /\ pc[c] \in Active
  /\ IF pc[c] = "waiting"
       THEN /\ pc' = [pc EXCEPT ![c] = "cancelled"]
            /\ UNCHANGED <<epoch, held, slot, lock>>
       ELSE Leave(c, "cancelled")
  /\ tok' = [tok EXCEPT ![c] = None]
  /\ \/ pc[c] = "saving" /\ Save(slot[c], tok[c]) /\ UNCHANGED <<gen, lost>>
     \/ pc[c] = "saving" /\ lost' = lost \cup {tok[c].grant} /\ UNCHANGED <<store, gen>>
     \/ /\ pc[c] = "refreshing"
        /\ gen[tok[c].grant] = tok[c].gen
        /\ OrphanRefreshToken(tok[c].grant)
        /\ UNCHANGED store
     \/ pc[c] # "saving" /\ UNCHANGED tokenVars
  /\ UNCHANGED loginVars
=============================================================================
