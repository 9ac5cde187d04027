----------------------------- MODULE TokenCache -----------------------------
(***************************************************************************)
(* The token cache of one oauth2_client_credentials scheme                 *)
(* (auth/token_cache.py, with the fetch of auth/injector.py), shared by all*)
(* tool calls of the process.  Tokens are numbered as the endpoint issues  *)
(* them; 0 is no token.  A valid token is returned without suspending; the *)
(* coroutine suspends at a contended lock and at the endpoint's answer.    *)
(***************************************************************************)
EXTENDS Naturals

CONSTANTS
  Calls,      \* concurrent tool calls
  MaxTokens,  \* tokens the endpoint issues before it only refuses: a bound
  Nobody      \* holder of a free lock

ASSUME TokenCacheAssumption == MaxTokens \in Nat /\ Nobody \notin Calls

VARIABLES
  cache,    \* _token
  expired,  \* tokens for which is_expired holds
  issued,   \* tokens issued by the endpoint
  holder,   \* who holds _lock
  pc,       \* where each call is in dispatch
  bearer    \* the token in its request headers

cacheVars == <<cache, expired, issued, holder, pc, bearer>>

\* Inside AuthInjector.inject.
Injecting == {"waiting", "fetching"}
Active == Injecting \cup {"sending"}
Resting == {"idle", "done", "failed", "unauthorized"}

TokenCacheTypeOK ==
  /\ cache \in 0..MaxTokens
  /\ expired \subseteq 1..MaxTokens
  /\ issued \in 0..MaxTokens
  /\ holder \in Calls \cup {Nobody}
  /\ pc \in [Calls -> Active \cup Resting]
  /\ bearer \in [Calls -> 0..MaxTokens]

TokenCacheInit ==
  /\ cache = 0
  /\ expired = {}
  /\ issued = 0
  /\ holder = Nobody
  /\ pc = [c \in Calls |-> "idle"]
  /\ bearer = [c \in Calls |-> 0]

Valid == cache # 0 /\ cache \notin expired

(***************************************************************************)
(* Mutations of the definitions below, for the mutant runs.                *)
(***************************************************************************)

\* the fetch runs outside the lock
BeginFetchUnlocked(c) ==
  /\ pc[c] = "waiting"
  /\ ~Valid
  /\ holder' = c
  /\ pc' = [pc EXCEPT ![c] = "fetching"]
  /\ UNCHANGED <<cache, expired, issued, bearer>>

\* a failed fetch leaves the lock held
FetchFailsHoldingLock(c) ==
  /\ pc[c] = "fetching"
  /\ pc' = [pc EXCEPT ![c] = "failed"]
  /\ UNCHANGED <<cache, expired, issued, holder, bearer>>

\* invalidate does nothing
KeepToken == UNCHANGED cache

\* a token is numbered from 0 to MaxTokens + 1
FetchUnbounded(c) ==
  /\ pc[c] = "fetching"
  /\ issued' = issued + 1
  /\ cache' = issued'
  /\ bearer' = [bearer EXCEPT ![c] = issued']
  /\ holder' = Nobody
  /\ pc' = [pc EXCEPT ![c] = "sending"]
  /\ UNCHANGED expired

-----------------------------------------------------------------------------

\* get_or_refresh with a usable token.
GetCached(c) ==
  /\ pc[c] = "waiting"
  /\ holder = Nobody
  /\ Valid
  /\ bearer' = [bearer EXCEPT ![c] = cache]
  /\ pc' = [pc EXCEPT ![c] = "sending"]
  /\ UNCHANGED <<cache, expired, issued, holder>>

\* get_or_refresh without one: fetch, holding the lock.
BeginFetch(c) ==
  /\ pc[c] = "waiting"
  /\ holder = Nobody
  /\ ~Valid
  /\ holder' = c
  /\ pc' = [pc EXCEPT ![c] = "fetching"]
  /\ UNCHANGED <<cache, expired, issued, bearer>>

\* The endpoint answers; the token may already be in its last 60 seconds.
FetchOk(c) ==
  /\ pc[c] = "fetching"
  /\ issued < MaxTokens
  /\ issued' = issued + 1
  /\ cache' = issued'
  /\ expired' \in {expired, expired \cup {issued'}}
  /\ bearer' = [bearer EXCEPT ![c] = issued']
  /\ holder' = Nobody
  /\ pc' = [pc EXCEPT ![c] = "sending"]

\* TokenRefreshError, or the call is cancelled: the lock is released and the
\* cache stays as it was.
FetchFails(c) ==
  /\ pc[c] = "fetching"
  /\ holder' = Nobody
  /\ pc' = [pc EXCEPT ![c] = "failed"]
  /\ UNCHANGED <<cache, expired, issued, bearer>>

\* invalidate() takes no lock.
Invalidate == cache' = 0

\* is_expired turns true, 60 s before expires_at.
ExpireToken ==
  /\ Valid
  /\ expired' = expired \cup {cache}
  /\ UNCHANGED <<cache, issued, holder, pc, bearer>>
=============================================================================
