------------------------------ MODULE LoginFlow ------------------------------
(***************************************************************************)
(* The OAuth HTTP endpoints (runtime/oauth_handler.py) and what they share:*)
(* login nonces (auth/login_nonce.py), signed states (auth/state.py), PKCE *)
(* verifiers, and DELETE /auth/session.                                    *)
(*                                                                         *)
(* A login stands for its nonce, the PKCE verifier generated when the nonce*)
(* is consumed, and the code the provider returns for that verifier's      *)
(* challenge.  GET /auth/login awaits nothing that suspends, so it is one  *)
(* step; the callback suspends at the code exchange and at the save.       *)
(***************************************************************************)
EXTENDS TokenStore

CONSTANT MaxSecond  \* seconds the clock can show: a bound

ASSUME LoginFlowAssumption == MaxSecond \in Nat

\* What make_state embeds: the session and the second it was made in.
States == [session : Sessions, second : 0..MaxSecond]

ASSUME StateAssumption == None \notin States

Stages == {"fresh", "issued", "redirected", "exchanging", "saving", "over"}

VARIABLES
  stage,     \* how far each login got
  owner,     \* the slot its nonce was issued for
  stateOf,   \* the signed state its redirect carried
  pkce,      \* state -> the login whose verifier is stored under it
  code,      \* the login whose code a callback is redeeming with this verifier
  loginTok,  \* the tokens a callback is about to save
  second,    \* int(time.time())
  delTodo,   \* DELETE in progress: schemes still to look at
  delHit     \* DELETE in progress: scheme whose tokens it found

nonceVars == <<stage, owner>>
flowVars == <<stateOf, pkce, code, loginTok, second>>
deleteVars == <<delTodo, delHit>>
loginVars == <<nonceVars, flowVars, deleteVars>>

LoginFlowTypeOK ==
  /\ stage \in [Logins -> Stages]
  /\ owner \in [Logins -> Slots \cup {None}]
  /\ stateOf \in [Logins -> States \cup {None}]
  /\ pkce \in [States -> Logins \cup {None}]
  /\ code \in [Logins -> Logins \cup {None}]
  /\ loginTok \in [Logins -> Tokens \cup {None}]
  /\ second \in 0..MaxSecond
  /\ delTodo \in [Sessions -> SUBSET Schemes]
  /\ delHit \in [Sessions -> Schemes \cup {None}]

LoginFlowInit ==
  /\ stage = [l \in Logins |-> "fresh"]
  /\ owner = [l \in Logins |-> None]
  /\ stateOf = [l \in Logins |-> None]
  /\ pkce = [st \in States |-> None]
  /\ code = [l \in Logins |-> None]
  /\ loginTok = [l \in Logins |-> None]
  /\ second = 0
  /\ delTodo = [s \in Sessions |-> {}]
  /\ delHit = [s \in Sessions |-> None]

Fresh == {l \in Logins : stage[l] = "fresh"}

\* The slot a login's callback writes: the scheme stored with the verifier,
\* the session embedded in the verified state.
Target(m) == <<owner[m][1], stateOf[m].session>>

(***************************************************************************)
(* Mutations of the definitions below, for the mutant runs.                *)
(***************************************************************************)

\* the session id is not what is signed into the state
MakeStateAnySession(s, t) == [session |-> CHOOSE x \in Sessions : TRUE, second |-> t]

\* the state is dated a second ahead
MakeStateAhead(s, t) == [session |-> s, second |-> t + 1]

\* the verifier is only looked up, so a replayed callback finds it again
PeekVerifier(st) == UNCHANGED pkce

\* a callback drops every verifier of its session
ConsumeSessionVerifiers(st) ==
  pkce' = [x \in States |-> IF x.session = st.session THEN None ELSE pkce[x]]

\* a failed exchange leaves the request unanswered
ExchangeUnanswered(m) ==
  /\ stage[m] = "exchanging"
  /\ \/ UNCHANGED gen
     \/ RedeemCode(code[m], m)
  /\ UNCHANGED <<store, lost, loginVars>>

-----------------------------------------------------------------------------

\* issue_nonce: a fresh nonce for slot k.  With no login left (the bound) the
\* link is not issued, as when issue_nonce raises.
IssueNonce(k) ==
  \/ \E l \in Fresh :
       /\ stage' = [stage EXCEPT ![l] = "issued"]
       /\ owner' = [owner EXCEPT ![l] = k]
  \/ /\ Fresh = {}
     /\ UNCHANGED nonceVars

\* The nonce's TTL runs out, or 10,000 newer ones evict it.
ExpireNonce(l) ==
  /\ stage[l] = "issued"
  /\ stage' = [stage EXCEPT ![l] = "over"]
  /\ UNCHANGED <<owner, flowVars, deleteVars>>

MakeState(s, t) == [session |-> s, second |-> t]

StoreVerifier(st, l) == pkce' = [pkce EXCEPT ![st] = l]

ConsumeVerifier(st) == pkce' = [pkce EXCEPT ![st] = None]

\* GET /auth/login?nonce=l.  A nonce that is unknown, expired or already
\* consumed changes nothing.
Login(l) ==
  LET st == MakeState(owner[l][2], second)
  IN /\ stage[l] = "issued"
     /\ stage' = [stage EXCEPT ![l] = "redirected"]
     /\ stateOf' = [stateOf EXCEPT ![l] = st]
     /\ StoreVerifier(st, l)
     /\ UNCHANGED <<owner, code, loginTok, second, deleteVars>>

\* The 10 minutes of a stored verifier and of the signed state run out.
ExpireVerifier(st) ==
  LET m == pkce[st]
  IN /\ m # None
     /\ pkce' = [pkce EXCEPT ![st] = None]
     /\ stage' = [stage EXCEPT ![m] = "over"]
     /\ UNCHANGED <<owner, stateOf, code, loginTok, second, deleteVars>>

\* GET /auth/callback with the code of login l and the state of its redirect,
\* as often as the browser sends it, up to the await of the exchange.  An
\* upstream error, a bad state or a missing verifier changes nothing.
Callback(l) ==
  /\ stateOf[l] # None
  /\ LET st == stateOf[l]
         m == pkce[st]
     IN /\ m # None
        /\ ConsumeVerifier(st)
        /\ stage' = [stage EXCEPT ![m] = "exchanging"]
        /\ code' = [code EXCEPT ![m] = l]
  /\ UNCHANGED <<owner, stateOf, loginTok, second, deleteVars>>

\* The token endpoint answers the exchange of verifier m with tokens, with or
\* without a refresh token.
ExchangeOk(m) ==
  /\ stage[m] = "exchanging"
  /\ RedeemCode(code[m], m)
  /\ \E issued \in {0, 1} :
       loginTok' = [loginTok EXCEPT ![m] = FromTokenResponse(code[m], issued, 0)]
  /\ code' = [code EXCEPT ![m] = None]
  /\ stage' = [stage EXCEPT ![m] = "saving"]
  /\ UNCHANGED <<store, lost, owner, stateOf, pkce, second, deleteVars>>

\* The exchange fails: refused, unreachable, malformed, or timed out after the
\* provider redeemed the code.
ExchangeFails(m) ==
  /\ stage[m] = "exchanging"
  /\ \/ UNCHANGED gen
     \/ RedeemCode(code[m], m)
  /\ code' = [code EXCEPT ![m] = None]
  /\ stage' = [stage EXCEPT ![m] = "over"]
  /\ UNCHANGED <<store, lost, owner, stateOf, pkce, loginTok, second, deleteVars>>

\* Step 6 of the callback.  It takes no session lock.
SaveLogin(m) ==
  /\ stage[m] = "saving"
  /\ Save(Target(m), loginTok[m])
  /\ stage' = [stage EXCEPT ![m] = "over"]
  /\ loginTok' = [loginTok EXCEPT ![m] = None]
  /\ UNCHANGED <<gen, lost, owner, stateOf, pkce, code, second, deleteVars>>

\* The save raises: the user sees an error page and the tokens are dropped.
SaveLoginFails(m) ==
  /\ stage[m] = "saving"
  /\ stage' = [stage EXCEPT ![m] = "over"]
  /\ loginTok' = [loginTok EXCEPT ![m] = None]
  /\ UNCHANGED <<tokenVars, owner, stateOf, pkce, code, second, deleteVars>>

\* The wall clock shows the next second.
NextSecond ==
  /\ second < MaxSecond
  /\ second' = second + 1
  /\ UNCHANGED <<nonceVars, stateOf, pkce, code, loginTok, deleteVars>>

-----------------------------------------------------------------------------

DeleteIdle(s) == delTodo[s] = {} /\ delHit[s] = None

\* DELETE /auth/session/s, past the access check.
DeleteRequest(s) ==
  /\ DeleteIdle(s)
  /\ delTodo' = [delTodo EXCEPT ![s] = Schemes]
  /\ UNCHANGED <<delHit, nonceVars, flowVars>>

\* Look at one scheme's store: tokens to delete, none, or an error (skipped).
DeleteLook(s, sch) ==
  /\ delHit[s] = None
  /\ sch \in delTodo[s]
  /\ delTodo' = [delTodo EXCEPT ![s] = @ \ {sch}]
  /\ \/ store[<<sch, s>>] # None /\ delHit' = [delHit EXCEPT ![s] = sch]
     \/ UNCHANGED delHit
  /\ UNCHANGED <<nonceVars, flowVars>>

\* Delete what was found, or skip it on an error.
DeleteFound(s) ==
  /\ delHit[s] # None
  /\ \/ Delete(<<delHit[s], s>>)
     \/ UNCHANGED store
  /\ delHit' = [delHit EXCEPT ![s] = None]
  /\ UNCHANGED <<gen, lost, delTodo, nonceVars, flowVars>>
=============================================================================
