----------------------------- MODULE OAuthServer -----------------------------
(***************************************************************************)
(* The HTTP server (_run_http of cli/serve.py): the SSE sessions, the tool *)
(* calls they make through AuthCodeHandler, the OAuth endpoints, the clocks*)
(* and the provider, over the same token stores.                           *)
(***************************************************************************)
EXTENDS AuthCodeHandler

VARIABLES
  open,  \* the sessions whose SSE connection is up
  purge  \* of a session that ended: schemes whose tokens are still to purge

sessionVars == <<open, purge>>
vars == <<tokenVars, loginVars, callVars, sessionVars>>

TypeOK ==
  /\ TokenStoreTypeOK
  /\ LoginFlowTypeOK
  /\ HandlerTypeOK
  /\ open \subseteq Sessions
  /\ purge \in [Sessions -> SUBSET Schemes]

Init ==
  /\ TokenStoreInit
  /\ LoginFlowInit
  /\ HandlerInit
  /\ open = Sessions
  /\ purge = [s \in Sessions |-> {}]

CallsOf(s) == {c \in Calls : pc[c] \in Active /\ slot[c][2] = s}

Closed(s) == s \notin open /\ purge[s] = {}

(***************************************************************************)
(* Mutations of the definitions below, for the mutant runs.                *)
(***************************************************************************)

\* the purge does not wait for the calls of the session
PurgeEarly(s, sch) ==
  /\ sch \in purge[s]
  /\ \/ Delete(<<sch, s>>)
     \/ UNCHANGED store
  /\ purge' = [purge EXCEPT ![s] = @ \ {sch}]
  /\ UNCHANGED <<open, gen, lost, loginVars, callVars>>

-----------------------------------------------------------------------------

\* A tool call of an open session reaches the handler of scheme sch.
StartCall(c, k) == k[2] \in open /\ EnterApply(c, k) /\ UNCHANGED sessionVars

\* The SSE connection of s ends: no more calls, then the purge.
Disconnect(s) ==
  /\ s \in open
  /\ open' = open \ {s}
  /\ purge' = [purge EXCEPT ![s] = Schemes]
  /\ UNCHANGED <<tokenVars, loginVars, callVars>>

\* _handle_sse's finally clause, once the session's server has joined its
\* calls: one scheme's store, errors swallowed.
Purge(s, sch) ==
  /\ CallsOf(s) = {}
  /\ sch \in purge[s]
  /\ \/ Delete(<<sch, s>>)
     \/ UNCHANGED store
  /\ purge' = [purge EXCEPT ![s] = @ \ {sch}]
  /\ UNCHANGED <<open, gen, lost, loginVars, callVars>>

\* A suspended call goes on.
CallStep(c) ==
  /\ \/ ReadUsable(c)
     \/ ReadRefreshable(c)
     \/ ReadUnusable(c)
     \/ RefreshOk(c)
     \/ RefreshFails(c)
     \/ SaveRefreshed(c)
     \/ StoreError(c)
  /\ UNCHANGED sessionVars

TakeLock(c) == Acquire(c) /\ UNCHANGED sessionVars

CancelCall(c) == Cancel(c) /\ UNCHANGED sessionVars

\* The browser visits the login link or comes back from the provider.
Browse(l) ==
  /\ Login(l) \/ Callback(l)
  /\ UNCHANGED <<tokenVars, callVars, sessionVars>>

\* A suspended callback goes on.
CallbackStep(m) ==
  /\ ExchangeOk(m) \/ ExchangeFails(m) \/ SaveLogin(m) \/ SaveLoginFails(m)
  /\ UNCHANGED <<callVars, sessionVars>>

ManagementRequest(s) ==
  /\ DeleteRequest(s)
  /\ UNCHANGED <<tokenVars, callVars, sessionVars>>

ManagementStep(s) ==
  /\ \/ \E sch \in Schemes : DeleteLook(s, sch) /\ UNCHANGED tokenVars
     \/ DeleteFound(s)
  /\ UNCHANGED <<callVars, sessionVars>>

\* Time passes: something expires, or the clock moves on.
Clock ==
  \/ \E k \in Slots : ExpireTokens(k) /\ UNCHANGED <<loginVars, callVars, sessionVars>>
  \/ \E k \in Slots : ExpireLock(k) /\ UNCHANGED sessionVars
  \/ /\ \/ \E l \in Logins : ExpireNonce(l)
        \/ \E st \in States : ExpireVerifier(st)
        \/ NextSecond
     /\ UNCHANGED <<tokenVars, callVars, sessionVars>>

\* The provider revokes a login's refresh token.
Revoke(l) ==
  /\ OrphanRefreshToken(l)
  /\ UNCHANGED <<store, loginVars, callVars, sessionVars>>

Next ==
  \/ \E c \in Calls, k \in Slots : StartCall(c, k)
  \/ \E c \in Calls : TakeLock(c) \/ CallStep(c) \/ CancelCall(c)
  \/ \E l \in Logins : Browse(l) \/ CallbackStep(l) \/ Revoke(l)
  \/ \E s \in Sessions : Disconnect(s) \/ ManagementRequest(s) \/ ManagementStep(s)
  \/ \E s \in Sessions, sch \in Schemes : Purge(s, sch)
  \/ Clock

\* Every await the server makes is answered or times out (15 s at the token
\* endpoint), and asyncio.Lock serves its waiters in order.  Nothing obliges
\* clients, users, the provider or the clock to do anything.
Fairness ==
  /\ \A c \in Calls : SF_vars(TakeLock(c)) /\ WF_vars(CallStep(c))
  /\ \A m \in Logins : WF_vars(CallbackStep(m))
  /\ \A s \in Sessions : WF_vars(ManagementStep(s))
  /\ \A s \in Sessions, sch \in Schemes : WF_vars(Purge(s, sch))

Spec == Init /\ [][Next]_vars

FairSpec == Spec /\ Fairness

-----------------------------------------------------------------------------

(* A session lock does not leak: whatever ends a call - tokens injected, a  *)
(* login link, an error of the store, a cancellation at any await of apply -*)
(* a lock that is held is held by a call inside `async with lock`.          *)
NoLeakedLock ==
  \A x \in held : \E c \in Calls : pc[c] \in Critical /\ LockOf(c) = x

(* The per-session lock of apply: two calls between the read of a slot's    *)
(* tokens and their save hold different lock objects, which takes the cache *)
(* to have dropped one that was in use.                                     *)
RefreshExclusion ==
  \A c, d \in Calls :
    /\ c # d
    /\ pc[c] \in Critical
    /\ pc[d] \in Critical
    /\ slot[c] = slot[d]
    => lock[c] # lock[d] /\ epoch[slot[c]] > 0

(* Tokens stay with the session and scheme whose login link led to them:    *)
(* those stored, those a call read, obtained or injected, and those a       *)
(* callback is about to save, though login and callback share their state   *)
(* only through the nonce, the signed state and the verifier.               *)
SessionIsolation ==
  /\ \A k \in Slots : store[k] # None => owner[store[k].grant] = k
  /\ \A c \in Calls : tok[c] # None => owner[tok[c].grant] = slot[c]
  /\ \A m \in Logins : loginTok[m] # None => owner[loginTok[m].grant] = Target(m)

(* apply never drops a rotated refresh token: a stored one the provider no  *)
(* longer accepts was revoked, its successor was lost on the way, or a call *)
(* is about to save the successor.  A dropped session lock voids this.      *)
RotationKept ==
  \A k \in Slots :
    Refreshable(store[k]) =>
      LET l == store[k].grant
      IN \/ store[k].gen = gen[l]
         \/ l \in lost
         \/ epoch[k] > 0
         \/ \E c \in Calls : pc[c] = "saving" /\ slot[c] = k /\ tok[c].grant = l
                            /\ tok[c].gen = gen[l]

(* A redirected login that has not expired finds its own verifier in the    *)
(* callback, unless another login of the same session was redirected within *)
(* the same second: the two then share one state.                           *)
VerifierKept ==
  \A l \in Logins : stage[l] = "redirected" =>
    \/ pkce[stateOf[l]] = l
    \/ \E m \in Logins \ {l} : stateOf[m] = stateOf[l]

LoginAdvance ==
  \A l \in Logins : stage'[l] # stage[l] =>
    /\ stage[l] # "over"
    /\ stage'[l] = "exchanging" => stage[l] = "redirected"

(* However often a login link and the callback it leads to are requested,   *)
(* its verifier is taken at most once and its tokens are saved at most once.*)
LoginsOnlyAdvance == [][LoginAdvance]_vars

Resurrected(k) == store[k] = None /\ store'[k] # None

ResurrectionExplained ==
  \A k \in Slots : Resurrected(k) =>
    \/ \E m \in Logins : stage[m] = "saving" /\ Target(m) = k
    \/ /\ ~Closed(k[2])
       /\ \E c \in Calls : pc[c] = "saving" /\ slot[c] = k /\ tok[c] = store'[k]

(* Deleted tokens come back only from a login, or from a refresh that was   *)
(* under way when they were deleted; after a session's purge only from a    *)
(* login.                                                                   *)
NoResurrection == [][ResurrectionExplained]_vars

(* Every tool call gets its token, a login link or an error: no call waits  *)
(* for ever for a session lock, whatever the others run into.               *)
CallsComplete == \A c \in Calls : pc[c] \in Active ~> pc[c] \in Resting

(* Every callback and every DELETE is answered.                             *)
RequestsComplete ==
  /\ \A m \in Logins : stage[m] = "exchanging" ~> stage[m] = "over"
  /\ \A s \in Sessions : delTodo[s] # {} ~> DeleteIdle(s)

(* Every session that disconnects is purged in the end.                     *)
SessionsArePurged == \A s \in Sessions : s \notin open ~> Closed(s)

(***************************************************************************)
(* Stated by the code's comments, and not what it does.                    *)
(***************************************************************************)

(* oauth2_authcode.py:15-16: the per-session lock "prevents concurrent      *)
(* in-flight requests from racing to refresh the same token".               *)
SingleRefresh ==
  \A c, d \in Calls :
    pc[c] = "refreshing" /\ pc[d] = "refreshing" /\ slot[c] = slot[d] => c = d

(* serve.py:762-763: the purge makes that "abandoned sessions don't         *)
(* accumulate tokens indefinitely" - with no save under way, a session that *)
(* has been purged without an error holds none.                             *)
NoTokensAfterPurge ==
  [][ \A k \in Slots : Closed(k[2]) => ~Resurrected(k) ]_vars
=============================================================================
