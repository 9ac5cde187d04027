----------------------------- MODULE Dispatcher -----------------------------
(***************************************************************************)
(* dispatch (runtime/dispatcher.py) of tool calls whose operation needs an *)
(* oauth2_client_credentials scheme: inject, send with retries             *)
(* (runtime/http_client.py), and on a 401 invalidate, inject and send once *)
(* more; a streamed request is sent once.                                  *)
(***************************************************************************)
EXTENDS TokenCache

CONSTANT MaxAttempts  \* RetryConfig.attempts

ASSUME DispatcherAssumption == MaxAttempts \in Nat \ {0}

VARIABLES
  round,    \* 1, or 2 after a 401
  attempt,  \* of this round's request
  streams,  \* whether the request takes the streaming path
  revoked,  \* upstream: tokens it rejects although they have not expired
  sends,    \* history: requests sent for this call
  rejected  \* history: per call, the token a 401 made it invalidate, or 0

callVars == <<round, attempt, streams, sends, rejected>>
vars == <<cacheVars, callVars, revoked>>

TypeOK ==
  /\ TokenCacheTypeOK
  /\ round \in [Calls -> {1, 2}]
  /\ attempt \in [Calls -> 1..MaxAttempts]
  /\ streams \in [Calls -> BOOLEAN]
  /\ revoked \subseteq 1..MaxTokens
  /\ sends \in [Calls -> Nat]
  /\ rejected \in [Calls -> 0..MaxTokens]

Init ==
  /\ TokenCacheInit
  /\ round = [c \in Calls |-> 1]
  /\ attempt = [c \in Calls |-> 1]
  /\ streams = [c \in Calls |-> FALSE]
  /\ revoked = {}
  /\ sends = [c \in Calls |-> 0]
  /\ rejected = [c \in Calls |-> 0]

End(c, how) == pc' = [pc EXCEPT ![c] = how]

Sent(c) == sends' = [sends EXCEPT ![c] = @ + 1]

(***************************************************************************)
(* Mutations of the definitions below, for the mutant runs.                *)
(***************************************************************************)

\* the second round is not told from the first
RejectedRetriesAgain(c) ==
  /\ pc[c] = "sending"
  /\ bearer[c] \in revoked
  /\ Sent(c)
  /\ Invalidate
  /\ End(c, "waiting")
  /\ round' = [round EXCEPT ![c] = 2]
  /\ attempt' = [attempt EXCEPT ![c] = 1]
  /\ rejected' = [rejected EXCEPT ![c] = bearer[c]]
  /\ UNCHANGED <<expired, issued, holder, bearer, streams, revoked>>

-----------------------------------------------------------------------------

\* dispatch is entered; inject asks the cache for a token.
Dispatch(c) ==
  /\ pc[c] \in Resting
  /\ End(c, "waiting")
  /\ round' = [round EXCEPT ![c] = 1]
  /\ attempt' = [attempt EXCEPT ![c] = 1]
  /\ \E b \in BOOLEAN : streams' = [streams EXCEPT ![c] = b]
  /\ sends' = [sends EXCEPT ![c] = 0]
  /\ rejected' = [rejected EXCEPT ![c] = 0]
  /\ UNCHANGED <<cache, expired, issued, holder, bearer, revoked>>

\* inject goes on.
InjectStep(c) ==
  /\ GetCached(c) \/ BeginFetch(c) \/ FetchOk(c) \/ FetchFails(c)
  /\ UNCHANGED <<callVars, revoked>>

\* The upstream accepts the request.
SendOk(c) ==
  /\ pc[c] = "sending"
  /\ bearer[c] \notin revoked
  /\ Sent(c)
  /\ End(c, "done")
  /\ UNCHANGED <<cache, expired, issued, holder, bearer, round, attempt, streams,
                 revoked, rejected>>

\* A network error or a status of RetryConfig.on_status, with attempts left.
SendAgain(c) ==
  /\ pc[c] = "sending"
  /\ ~streams[c]
  /\ attempt[c] < MaxAttempts
  /\ Sent(c)
  /\ attempt' = [attempt EXCEPT ![c] = @ + 1]
  /\ UNCHANGED <<cacheVars, round, streams, revoked, rejected>>

\* An error that is not retried: the last attempt, or a 4xx or 5xx.
SendFails(c) ==
  /\ pc[c] = "sending"
  /\ Sent(c)
  /\ End(c, "failed")
  /\ UNCHANGED <<cache, expired, issued, holder, bearer, round, attempt, streams,
                 revoked, rejected>>

\* 401 on the first round of a buffered request: invalidate, inject again.
SendRejected(c) ==
  /\ pc[c] = "sending"
  /\ bearer[c] \in revoked
  /\ ~streams[c]
  /\ round[c] = 1
  /\ Sent(c)
  /\ Invalidate
  /\ End(c, "waiting")
  /\ round' = [round EXCEPT ![c] = 2]
  /\ attempt' = [attempt EXCEPT ![c] = 1]
  /\ rejected' = [rejected EXCEPT ![c] = bearer[c]]
  /\ UNCHANGED <<expired, issued, holder, bearer, streams, revoked>>

\* 401 again, or on a streamed request: the call fails, the cache stays.
SendUnauthorized(c) ==
  /\ pc[c] = "sending"
  /\ bearer[c] \in revoked
  /\ streams[c] \/ round[c] = 2
  /\ Sent(c)
  /\ End(c, "unauthorized")
  /\ UNCHANGED <<cache, expired, issued, holder, bearer, round, attempt, streams,
                 revoked, rejected>>

SendStep(c) ==
  SendOk(c) \/ SendAgain(c) \/ SendFails(c) \/ SendRejected(c) \/ SendUnauthorized(c)

\* The client cancels the call.
Cancel(c) ==
  /\ pc[c] \in Active
  /\ holder' = IF holder = c THEN Nobody ELSE holder
  /\ End(c, "failed")
  /\ UNCHANGED <<cache, expired, issued, bearer, callVars, revoked>>

\* The upstream stops accepting a token before its expiry.
Revoke ==
  /\ \E t \in 1..issued : revoked' = revoked \cup {t}
  /\ UNCHANGED <<cacheVars, callVars>>

Next ==
  \/ \E c \in Calls : Dispatch(c) \/ InjectStep(c) \/ SendStep(c) \/ Cancel(c)
  \/ ExpireToken /\ UNCHANGED <<callVars, revoked>>
  \/ Revoke

\* Every request is answered or times out; asyncio.Lock is fair.
Fairness ==
  \A c \in Calls : SF_vars(InjectStep(c)) /\ WF_vars(SendStep(c))

Spec == Init /\ [][Next]_vars

FairSpec == Spec /\ Fairness

-----------------------------------------------------------------------------

(* Two calls never fetch at once, and the lock is held exactly by the call  *)
(* that fetches: no failure, rejection or cancellation leaks it.            *)
OneFetch == \A c \in Calls : pc[c] = "fetching" <=> holder = c

(* The request after a 401 carries a newer token than the rejected one,     *)
(* though invalidate takes no lock and another call may be fetching.        *)
RetryUsesNewerToken ==
  \A c \in Calls : round[c] = 2 /\ pc[c] = "sending" => bearer[c] > rejected[c]

(* Retries do not multiply: a call sends at most two rounds of attempts,    *)
(* and a streamed one a single request.                                     *)
SendsAreBounded ==
  \A c \in Calls : sends[c] <= IF streams[c] THEN 1 ELSE 2 * MaxAttempts

(* Every dispatched call ends.                                              *)
DispatchEnds == \A c \in Calls : pc[c] \in Active ~> pc[c] \in Resting

(* The cache, as its callers see it, is a SingleFlight.                     *)
Abstract == INSTANCE SingleFlight WITH
  waiting  <- {c \in Calls : pc[c] \in Injecting},
  inflight <- holder # Nobody,
  current  <- IF Valid THEN cache ELSE 0,
  last     <- issued,
  got      <- bearer

(* Callers share fetches as SingleFlight says.                              *)
ImplementsSingleFlight == Abstract!Spec

(* Stated by token_cache.py:54-55, "refresh_fn is called at most once per   *)
(* expiry window even when multiple tool calls race simultaneously": no     *)
(* fetch while the newest token is neither expired nor rejected upstream.   *)
FetchOncePerWindow ==
  holder # Nobody /\ issued > 0 => issued \in expired \cup revoked
=============================================================================
