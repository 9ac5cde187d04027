----------------------------- MODULE TokenStore -----------------------------
(***************************************************************************)
(* The OAuth token stores (auth/token_store.py), one per authorization-code*)
(* scheme, and the token endpoint of the identity provider they hold tokens*)
(* of.  A slot is one row: the tokens of one session in one scheme's store.*)
(*                                                                         *)
(* A token record names the login it was granted to and, as a generation   *)
(* number, the refresh token it carries (0: none).  Each get, save and     *)
(* delete is one step: the SQLite store awaits inside them, but under its  *)
(* own lock.  Wall-clock expiry is a step of its own (ExpireTokens).       *)
(***************************************************************************)
EXTENDS Naturals

CONSTANTS
  Schemes,   \* the configured oauth2_authorization_code schemes
  Sessions,  \* session ids: one per SSE connection, never reused
  Logins,    \* the login links that can be issued: a bound
  MaxGen,    \* refresh tokens the provider issues per login: a bound
  None       \* absence of a token, a verifier or a login

Slots == Schemes \X Sessions

Tokens == [grant : Logins, gen : 0..MaxGen, expired : BOOLEAN]

ASSUME TokenStoreAssumption ==
  /\ MaxGen \in Nat \ {0}
  /\ None \notin Tokens
  /\ None \notin Logins
  /\ None \notin Slots
  /\ None \notin Schemes

VARIABLES
  store,  \* what each scheme's store holds for each session
  gen,    \* provider: 0 until the login's code is redeemed, then the
          \* generation of the one refresh token it still accepts
  lost    \* history: logins whose newest refresh token never reached a store
          \* (revoked, reply lost, save failed or cancelled)

tokenVars == <<store, gen, lost>>

TokenStoreTypeOK ==
  /\ store \in [Slots -> Tokens \cup {None}]
  /\ gen \in [Logins -> 0..MaxGen]
  /\ lost \subseteq Logins

TokenStoreInit ==
  /\ store = [k \in Slots |-> None]
  /\ gen = [l \in Logins |-> 0]
  /\ lost = {}

(***************************************************************************)
(* Mutations of the definitions below, for the mutant runs.                *)
(***************************************************************************)

\* the refresh token of the response is ignored when one is already held
KeepOldRefresh(l, issued, existing) ==
  [grant |-> l, gen |-> IF existing # 0 THEN existing ELSE issued, expired |-> FALSE]

-----------------------------------------------------------------------------

\* OAuthTokens.from_token_response: a response without a refresh token keeps
\* the existing one.
FromTokenResponse(l, issued, existing) ==
  [grant |-> l, gen |-> IF issued # 0 THEN issued ELSE existing, expired |-> FALSE]

\* A record whose access token may still be used.
Usable(t) == t # None /\ ~t.expired

\* A record that carries a refresh token.
Refreshable(t) == t # None /\ t.gen # 0

Save(k, t) == store' = [store EXCEPT ![k] = t]

Delete(k) == store' = [store EXCEPT ![k] = None]

\* OAuthTokens.is_expired turns true, 60 s before expires_at.
ExpireTokens(k) ==
  /\ Usable(store[k])
  /\ store' = [store EXCEPT ![k].expired = TRUE]
  /\ UNCHANGED <<gen, lost>>

-----------------------------------------------------------------------------

\* Provider: the refresh token of login l moves on and nobody holds the new
\* one (revocation, or a rotation whose reply never arrived).
OrphanRefreshToken(l) ==
  /\ gen[l] \in 1..(MaxGen - 1)
  /\ gen' = [gen EXCEPT ![l] = @ + 1]
  /\ lost' = lost \cup {l}

\* Provider: it answers a refresh with token t, rotating (issued > 0) or not.
GrantRefresh(t, issued) ==
  /\ gen[t.grant] = t.gen
  /\ issued \in {0, t.gen + 1} \cap 0..MaxGen
  /\ gen' = [gen EXCEPT ![t.grant] = IF issued = 0 THEN @ ELSE issued]

\* Provider: it redeems the code of login l for the verifier of login m.
RedeemCode(l, m) ==
  /\ l = m
  /\ gen[l] = 0
  /\ gen' = [gen EXCEPT ![l] = 1]
=============================================================================
