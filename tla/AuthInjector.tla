---------------------------- MODULE AuthInjector ----------------------------
(***************************************************************************)
(* AuthInjector (auth/injector.py): which group of an operation's security *)
(* requirements a call takes, the credentials it puts into the request     *)
(* scheme by scheme, and the tokens a 401 invalidates.                     *)
(*                                                                         *)
(* Requirements are a sequence (OR) of sequences (AND) of schemes.  The    *)
(* TokenCache of a client-credentials scheme appears as its SingleFlight   *)
(* specification lets its callers see it: a call either gets the current   *)
(* token or, in one step, the answer to a fetch.                           *)
(***************************************************************************)
EXTENDS Naturals, Sequences

CONSTANTS
  Calls,      \* concurrent tool calls
  Schemes,    \* schemes a specification may name
  Kind,       \* "bearer", "apiKey", "cookie", "cached", or "login"
  Place,      \* where the credential goes: a header or query parameter
  Configured, \* schemes the configuration has credentials for
  MaxTokens   \* tokens the endpoint of a scheme issues: a bound

Places == {Place[s] : s \in Schemes}

ASSUME AuthInjectorAssumption ==
  /\ Kind \in [Schemes -> {"bearer", "apiKey", "cookie", "cached", "login"}]
  /\ DOMAIN Place = Schemes
  /\ Configured \subseteq Schemes
  /\ MaxTokens \in Nat

Cached == {s \in Configured : Kind[s] = "cached"}

VARIABLES
  tokens,   \* per cached scheme the usable token, numbered as issued, or 0
  issued,   \* per cached scheme how many tokens were issued
  active,   \* the calls that are being dispatched
  auth,     \* the requirements of its operation, op.auth
  group,    \* the AND list that inject took
  at,       \* how many of its schemes are applied: all, once inject has returned
  request,  \* per place the credentials in the request, in order
  used,     \* per cached scheme the token in the request, or 0
  round,    \* 1, or 2 after a 401
  rejected  \* history: the tokens of the request that a 401 rejected

injectorVars == <<tokens, issued, active, auth, group, at, request, used, round, rejected>>

NoCredentials == [p \in Places |-> <<>>]
NoTokens == [s \in Cached |-> 0]

AuthInjectorTypeOK ==
  /\ tokens \in [Cached -> 0..MaxTokens]
  /\ issued \in [Cached -> 0..MaxTokens]
  /\ active \subseteq Calls
  /\ auth \in [Calls -> Seq(Seq(Schemes))]
  /\ group \in [Calls -> Seq(Configured)]
  /\ at \in [Calls -> Nat]
  /\ \A c \in Calls : at[c] <= Len(group[c])
  /\ request \in [Calls -> [Places -> Seq(Configured)]]
  /\ used \in [Calls -> [Cached -> 0..MaxTokens]]
  /\ round \in [Calls -> {1, 2}]
  /\ rejected \in [Calls -> [Cached -> 0..MaxTokens]]

AuthInjectorInit ==
  /\ tokens = NoTokens
  /\ issued = NoTokens
  /\ active = {}
  /\ auth = [c \in Calls |-> <<>>]
  /\ group = [c \in Calls |-> <<>>]
  /\ at = [c \in Calls |-> 0]
  /\ request = [c \in Calls |-> NoCredentials]
  /\ used = [c \in Calls |-> NoTokens]
  /\ round = [c \in Calls |-> 1]
  /\ rejected = [c \in Calls |-> NoTokens]

Satisfied(g) == \A i \in DOMAIN g : g[i] \in Configured

Named(requirements) ==
  UNION {{requirements[i][k] : k \in DOMAIN requirements[i]} : i \in DOMAIN requirements}

\* The first group whose schemes are all configured, if there is one.
Selected(requirements) ==
  IF requirements = <<>>
  THEN {<<>>}
  ELSE {requirements[i] : i \in {i \in DOMAIN requirements :
          /\ Satisfied(requirements[i])
          /\ \A j \in 1..(i - 1) : ~Satisfied(requirements[j])}}

\* The calls cs are answered, with a result or an error, and their variables gone.
Leave(cs) ==
  /\ active' = active \ cs
  /\ auth' = [c \in Calls |-> IF c \in cs THEN <<>> ELSE auth[c]]
  /\ group' = [c \in Calls |-> IF c \in cs THEN <<>> ELSE group[c]]
  /\ at' = [c \in Calls |-> IF c \in cs THEN 0 ELSE at[c]]
  /\ request' = [c \in Calls |-> IF c \in cs THEN NoCredentials ELSE request[c]]
  /\ used' = [c \in Calls |-> IF c \in cs THEN NoTokens ELSE used[c]]
  /\ round' = [c \in Calls |-> IF c \in cs THEN 1 ELSE round[c]]
  /\ rejected' = [c \in Calls |-> IF c \in cs THEN NoTokens ELSE rejected[c]]
  /\ UNCHANGED <<tokens, issued>>

\* Mutant: inject goes on from the request that was rejected.
InjectOnTop(c, requirements, r) ==
  /\ active' = active \cup {c}
  /\ auth' = [auth EXCEPT ![c] = requirements]
  /\ \E g \in Selected(requirements) : group' = [group EXCEPT ![c] = g]
  /\ at' = [at EXCEPT ![c] = 0]
  /\ request' = request
  /\ used' = used
  /\ round' = [round EXCEPT ![c] = r]
  /\ rejected' = [rejected EXCEPT ![c] = IF r = 2 THEN used[c] ELSE NoTokens]
  /\ UNCHANGED issued

\* inject is entered, in round r, with the headers and params of the arguments.
Inject(c, requirements, r) ==
  /\ active' = active \cup {c}
  /\ auth' = [auth EXCEPT ![c] = requirements]
  /\ \E g \in Selected(requirements) : group' = [group EXCEPT ![c] = g]
  /\ at' = [at EXCEPT ![c] = 0]
  /\ request' = [request EXCEPT ![c] = NoCredentials]
  /\ used' = [used EXCEPT ![c] = NoTokens]
  /\ round' = [round EXCEPT ![c] = r]
  /\ rejected' = [rejected EXCEPT ![c] = IF r = 2 THEN used[c] ELSE NoTokens]
  /\ UNCHANGED issued

\* A cookie is appended, any other credential replaces what is at its place.
Put(placed, s) ==
  IF Kind[s] = "cookie" THEN Append(placed, s) ELSE <<s>>

Applying(c) == c \in active /\ at[c] < Len(group[c])

\* inject has returned and the request is on its way.
Sending(c) == c \in active /\ at[c] = Len(group[c])

Scheme(c) == group[c][at[c] + 1]

\* The scheme that is next in the group puts its credential into the request.
PutCredential(c) ==
  /\ request' = [request EXCEPT ![c][Place[Scheme(c)]] = Put(@, Scheme(c))]
  /\ at' = [at EXCEPT ![c] = @ + 1]

\* apiKey and bearer, and an authorization code whose token is at hand.
ApplyCredential(c) ==
  /\ Applying(c)
  /\ Kind[Scheme(c)] # "cached"
  /\ PutCredential(c)
  /\ UNCHANGED <<tokens, issued, active, auth, group, used, round, rejected>>

\* AuthCodeHandler raises: the user has to log in.
ApplyLoginFails(c) ==
  /\ Applying(c)
  /\ Kind[Scheme(c)] = "login"
  /\ Leave({c})

\* get_or_refresh with a usable token.
ApplyCached(c) ==
  /\ Applying(c)
  /\ Scheme(c) \in Cached
  /\ tokens[Scheme(c)] # 0
  /\ PutCredential(c)
  /\ used' = [used EXCEPT ![c][Scheme(c)] = tokens[Scheme(c)]]
  /\ UNCHANGED <<tokens, issued, active, auth, group, round, rejected>>

\* Mutant: the endpoint issues one token too many.
ApplyFetchedUnbounded(c) ==
  /\ Applying(c)
  /\ Scheme(c) \in Cached
  /\ tokens[Scheme(c)] = 0
  /\ issued' = [issued EXCEPT ![Scheme(c)] = @ + 1]
  /\ tokens' = [tokens EXCEPT ![Scheme(c)] = issued'[Scheme(c)]]
  /\ used' = [used EXCEPT ![c][Scheme(c)] = issued'[Scheme(c)]]
  /\ PutCredential(c)
  /\ UNCHANGED <<active, auth, group, round, rejected>>

\* get_or_refresh without one: the endpoint issues another.
ApplyFetched(c) ==
  /\ Applying(c)
  /\ Scheme(c) \in Cached
  /\ tokens[Scheme(c)] = 0
  /\ issued[Scheme(c)] < MaxTokens
  /\ issued' = [issued EXCEPT ![Scheme(c)] = @ + 1]
  /\ tokens' = [tokens EXCEPT ![Scheme(c)] = issued'[Scheme(c)]]
  /\ used' = [used EXCEPT ![c][Scheme(c)] = issued'[Scheme(c)]]
  /\ PutCredential(c)
  /\ UNCHANGED <<active, auth, group, round, rejected>>

\* TokenRefreshError
ApplyFetchFails(c) ==
  /\ Applying(c)
  /\ Scheme(c) \in Cached
  /\ tokens[Scheme(c)] = 0
  /\ Leave({c})

InjectStep(c) ==
  \/ ApplyCredential(c) \/ ApplyLoginFails(c)
  \/ ApplyCached(c) \/ ApplyFetched(c) \/ ApplyFetchFails(c)

\* Mutant: only the first group is gone through.
InvalidateFirstGroup(requirements) ==
  LET named == IF requirements = <<>> THEN {} ELSE Named(<<requirements[1]>>)
  IN  tokens' = [s \in Cached |-> IF s \in named THEN 0 ELSE tokens[s]]

\* invalidate_cached_tokens goes through every group, taken or not.
InvalidateCachedTokens(requirements) ==
  tokens' = [s \in Cached |-> IF s \in Named(requirements) THEN 0 ELSE tokens[s]]

\* Its result: whether there was a cache to invalidate.
Invalidates(requirements) == Named(requirements) \cap Cached # {}

\* is_expired turns true.
Expire ==
  /\ \E s \in Cached : tokens[s] # 0 /\ tokens' = [tokens EXCEPT ![s] = 0]
  /\ UNCHANGED <<issued, active, auth, group, at, request, used, round, rejected>>
=============================================================================
