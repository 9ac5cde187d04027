-------------------------- MODULE ToolServer_proofs --------------------------
(***************************************************************************)
(* Proofs about ToolServer: first the reloads, then the credentials of the *)
(* calls, whose variables no reload step reads; the two invariants are     *)
(* inductive separately.  A third one follows inject through its group.    *)
(***************************************************************************)
EXTENDS ToolServer, Lists_proofs

\* Whatever was read, a change of the file since is still to be taken up.
UpToDate == watching = "both" /\ ~pending /\ ~missed

ReloadInv ==
  /\ HotReloadTypeOK
  /\ server = "starting" => watching = "none"
  /\ load = "resolve" => raw # "none"
  /\ load = "resolve" /\ UpToDate /\ file # NoFile => raw = Version[file]
  /\ server = "serving" \/ (server = "starting" /\ load = "idle") => registry # NoRegistry
  /\ load = "idle" /\ server = "serving" /\ UpToDate /\ file \in Sound
       => registry = Built(file)

LEMMA ReloadInit == HotReloadInit => ReloadInv
<1> SUFFICES ASSUME HotReloadInit PROVE ReloadInv OBVIOUS
<1> USE HotReloadAssumption DEF HotReloadInit
<1>1. HotReloadTypeOK
  <2>1. edits \in 0..MaxEdits /\ file \in Contents
    OBVIOUS
  <2>2. pending \in BOOLEAN /\ missed \in BOOLEAN
    BY Zenon
  <2> QED BY <2>1, <2>2 DEF HotReloadTypeOK
<1> QED BY <1>1 DEF ReloadInv, UpToDate

LEMMA EditKeeps ==
  ASSUME ReloadInv, Edit \/ EditConfig
  PROVE  ReloadInv'
<1> USE HotReloadAssumption DEF ReloadInv, HotReloadTypeOK, UpToDate, Built
<1>1. CASE Edit
  <2>1. pending' \in BOOLEAN /\ (watching = "both" => pending')
    BY <1>1 DEF Edit
  <2> QED BY <1>1, <2>1 DEF Edit
<1>2. CASE EditConfig BY <1>2 DEF EditConfig
<1> QED BY <1>1, <1>2

LEMMA RaisesKeeps ==
  ASSUME ReloadInv, LoadRaises, load # "idle", file \notin Sound
  PROVE  ReloadInv'
  BY HotReloadAssumption DEF ReloadInv, HotReloadTypeOK, UpToDate, Built, LoadRaises

LEMMA SwapKeeps ==
  ASSUME ReloadInv, Swap
  PROVE  ReloadInv'
<1> USE HotReloadAssumption DEF ReloadInv, HotReloadTypeOK, Swap
<1>1. registry' \in Registries
  BY DEF Registries
<1>2. registry' # NoRegistry
  BY <1>1
<1>3. UpToDate => registry' = Built(file)
  BY DEF UpToDate, Built
<1> QED BY <1>1, <1>2, <1>3 DEF UpToDate, Built

LEMMA LoadKeeps ==
  ASSUME ReloadInv, LoadStep
  PROVE  ReloadInv'
<1> USE HotReloadAssumption
<1>1. CASE CheckExists
  BY <1>1 DEF ReloadInv, HotReloadTypeOK, UpToDate, Built, CheckExists
<1>2. CASE CheckFails
  BY <1>2, RaisesKeeps DEF CheckFails
<1>3. CASE ReadRaw
  BY <1>3 DEF ReloadInv, HotReloadTypeOK, UpToDate, Built, ReadRaw
<1>4. CASE ReadFails
  BY <1>4, RaisesKeeps DEF ReadFails
<1>5. CASE ReadCrashes
  BY <1>5 DEF ReloadInv, HotReloadTypeOK, UpToDate, Built, ReadCrashes
<1>6. CASE Swap
  BY <1>6, SwapKeeps
<1>7. CASE ResolveFails
  BY <1>7, RaisesKeeps DEF ResolveFails
<1> QED BY <1>1, <1>2, <1>3, <1>4, <1>5, <1>6, <1>7 DEF LoadStep

LEMMA WatcherKeeps ==
  ASSUME ReloadInv, WatcherStep
  PROVE  ReloadInv'
<1> USE HotReloadAssumption DEF ReloadInv, HotReloadTypeOK, UpToDate, LoopFree
<1>1. CASE Serve BY <1>1 DEF Serve, Built
<1>2. CASE StartWatching BY <1>2 DEF StartWatching, Built
<1>3. CASE Reload BY <1>3 DEF Reload, Built
<1> QED BY <1>1, <1>2, <1>3 DEF WatcherStep

LEMMA ReloadNext == ReloadInv /\ [Next]_vars => ReloadInv'
<1> SUFFICES ASSUME ReloadInv, [Next]_vars PROVE ReloadInv' OBVIOUS
<1>1. CASE UNCHANGED reloadVars
  BY <1>1 DEF ReloadInv, HotReloadTypeOK, UpToDate, Built, reloadVars
<1>2. CASE Edit \/ EditConfig BY <1>2, EditKeeps
<1>3. CASE Reloading BY <1>3, LoadKeeps DEF Reloading
<1>4. CASE Watching BY <1>4, WatcherKeeps DEF Watching
<1> QED
  BY <1>1, <1>2, <1>3, <1>4
  DEF Next, Call, CallInject, SendStep, SendEnds, SendRejected, SendUnauthorized, Cancel, vars

LEMMA ReloadInvariance == Spec => []ReloadInv
<1>1. Init => ReloadInv BY ReloadInit DEF Init
<1> QED BY <1>1, ReloadNext, PTL DEF Spec

-----------------------------------------------------------------------------

\* Tokens are numbered as they are issued; a request has tokens of its operation's
\* schemes alone; and no cache holds a token that a second round replaces.
TokenInv ==
  /\ \A s \in Cached : tokens[s] <= issued[s]
  /\ \A c \in Calls, s \in Cached :
       /\ used[c][s] <= issued[s]
       /\ rejected[c][s] <= issued[s]
       /\ used[c][s] # 0 => s \in Named(auth[c])
       /\ round[c] = 2 =>
            /\ tokens[s] # 0 => tokens[s] > rejected[c][s]
            /\ used[c][s] # 0 => used[c][s] > rejected[c][s]
  /\ \A c \in Calls : \A i \in DOMAIN group[c] : group[c][i] \in Named(auth[c])

CallInv == AuthInjectorTypeOK /\ TokenInv

LEMMA CallInit == AuthInjectorInit => CallInv
<1> SUFFICES ASSUME AuthInjectorInit PROVE CallInv OBVIOUS
<1> USE AuthInjectorAssumption DEF AuthInjectorInit, NoTokens, NoCredentials
<1>1. AuthInjectorTypeOK
  BY DEF AuthInjectorTypeOK
<1>2. TokenInv
  BY DEF TokenInv
<1> QED BY <1>1, <1>2 DEF CallInv

LEMMA LeaveKeeps ==
  ASSUME CallInv, NEW cs, Leave(cs)
  PROVE  CallInv'
<1> USE AuthInjectorAssumption DEF Leave, NoTokens, NoCredentials
<1>1. AuthInjectorTypeOK'
  BY DEF CallInv, AuthInjectorTypeOK
<1>2. TokenInv'
  BY DEF CallInv, AuthInjectorTypeOK, TokenInv
<1> QED BY <1>1, <1>2 DEF CallInv

\* The group that inject takes belongs to the operation and is configured.
LEMMA SelectedGroup ==
  ASSUME NEW requirements \in Seq(Seq(Schemes)), NEW g \in Selected(requirements)
  PROVE  g \in Seq(Configured) /\ \A i \in DOMAIN g : g[i] \in Named(requirements)
<1>1. CASE requirements = <<>>
  BY <1>1 DEF Selected
<1>2. CASE requirements # <<>>
  <2>1. PICK i \in DOMAIN requirements : g = requirements[i] /\ Satisfied(g)
    BY <1>2 DEF Selected
  <2>2. g \in Seq(Schemes) BY <2>1
  <2>3. g \in Seq(Configured) BY <2>1, <2>2 DEF Satisfied
  <2> QED BY <2>1, <2>3 DEF Named
<1> QED BY <1>1, <1>2

LEMMA InjectKeeps ==
  ASSUME CallInv, NEW c \in Calls, NEW requirements \in Seq(Seq(Schemes)),
         NEW r \in {1, 2}, Inject(c, requirements, r),
         \/ r = 1 /\ tokens' = tokens
         \/ requirements = auth[c] /\ InvalidateCachedTokens(requirements)
  PROVE  CallInv'
<1> USE AuthInjectorAssumption DEF Inject, NoTokens, NoCredentials
<1>1. PICK g \in Selected(requirements) : group' = [group EXCEPT ![c] = g]
  OBVIOUS
<1>2. g \in Seq(Configured) /\ \A i \in DOMAIN g : g[i] \in Named(requirements)
  BY SelectedGroup
<1>3. tokens' \in [Cached -> 0..MaxTokens]
      /\ \A s \in Cached : tokens'[s] = tokens[s] \/ tokens'[s] = 0
  <2>1. CASE tokens' = tokens
    BY <2>1 DEF CallInv, AuthInjectorTypeOK
  <2>2. CASE InvalidateCachedTokens(requirements)
    BY <2>2 DEF CallInv, AuthInjectorTypeOK, InvalidateCachedTokens
  <2> QED BY <2>1, <2>2
<1>4. AuthInjectorTypeOK'
  <2>1. /\ auth' \in [Calls -> Seq(Seq(Schemes))]
        /\ group' \in [Calls -> Seq(Configured)]
        /\ at' \in [Calls -> Nat]
    BY <1>1, <1>2 DEF CallInv, AuthInjectorTypeOK
  <2>2. \A d \in Calls : at'[d] <= Len(group'[d])
    BY <1>1, <1>2 DEF CallInv, AuthInjectorTypeOK
  <2>3. NoCredentials \in [Places -> Seq(Configured)] /\ NoTokens \in [Cached -> 0..MaxTokens]
    <3>1. <<>> \in Seq(Configured) /\ 0 \in 0..MaxTokens
      BY AuthInjectorAssumption DEF AuthInjectorAssumption
    <3>2. [p \in Places |-> <<>>] \in [Places -> Seq(Configured)]
      BY <3>1, Zenon
    <3>3. [s \in Cached |-> 0] \in [Cached -> 0..MaxTokens]
      BY <3>1, Zenon
    <3> QED BY <3>2, <3>3
  <2>4. /\ request' \in [Calls -> [Places -> Seq(Configured)]]
        /\ used' \in [Calls -> [Cached -> 0..MaxTokens]]
    BY <2>3 DEF CallInv, AuthInjectorTypeOK
  <2>5. rejected' \in [Calls -> [Cached -> 0..MaxTokens]]
    BY <2>3 DEF CallInv, AuthInjectorTypeOK
  <2>6. round' \in [Calls -> {1, 2}] /\ active' \subseteq Calls
        /\ issued' \in [Cached -> 0..MaxTokens]
    BY DEF CallInv, AuthInjectorTypeOK
  <2> QED BY <1>3, <2>1, <2>2, <2>4, <2>5, <2>6 DEF AuthInjectorTypeOK
<1>5. TokenInv'
  <2>1. \A s \in Cached : tokens'[s] <= issued'[s]
    <3>1. /\ issued \in [Cached -> 0..MaxTokens] /\ issued' = issued
          /\ \A s \in Cached : tokens[s] <= issued[s]
      BY DEF CallInv, AuthInjectorTypeOK, TokenInv
    <3> HIDE DEF Inject
    <3> QED BY <1>3, <3>1
  <2>2. \A d \in Calls : \A i \in DOMAIN group'[d] : group'[d][i] \in Named(auth'[d])
    BY <1>1, <1>2 DEF CallInv, AuthInjectorTypeOK, TokenInv
  <2>3. ASSUME NEW d \in Calls \ {c}, NEW s \in Cached
        PROVE  /\ used'[d][s] = used[d][s] /\ rejected'[d][s] = rejected[d][s]
               /\ auth'[d] = auth[d] /\ round'[d] = round[d]
    BY DEF CallInv, AuthInjectorTypeOK
  <2>4. ASSUME NEW s \in Cached
        PROVE  /\ used'[c][s] = 0 /\ rejected'[c][s] \in {0, used[c][s]}
               /\ round'[c] = 2 => (tokens'[s] # 0 => tokens'[s] > rejected'[c][s])
    <3>1. used'[c] = NoTokens /\ round'[c] = r
          /\ rejected'[c] = IF r = 2 THEN used[c] ELSE NoTokens
      BY DEF CallInv, AuthInjectorTypeOK
    <3>2. CASE r = 2 /\ used[c][s] # 0
      <4>1. s \in Named(requirements)
        BY <3>2 DEF CallInv, TokenInv
      <4>2. tokens'[s] = 0
        BY <3>2, <4>1 DEF InvalidateCachedTokens
      <4> QED BY <3>1, <4>2
    <3>3. CASE r = 1 \/ used[c][s] = 0
      BY <3>1, <3>3, <1>3
    <3> QED BY <3>1, <3>2, <3>3
  <2>5. \A d \in Calls, s \in Cached :
          /\ used'[d][s] <= issued'[s]
          /\ rejected'[d][s] <= issued'[s]
          /\ used'[d][s] # 0 => s \in Named(auth'[d])
          /\ round'[d] = 2 =>
               /\ tokens'[s] # 0 => tokens'[s] > rejected'[d][s]
               /\ used'[d][s] # 0 => used'[d][s] > rejected'[d][s]
    <3> TAKE d \in Calls, s \in Cached
    <3>1. CASE d = c
      BY <3>1, <2>4 DEF CallInv, AuthInjectorTypeOK, TokenInv
    <3>2. CASE d # c
      BY <3>2, <2>3, <1>3 DEF CallInv, TokenInv
    <3> QED BY <3>1, <3>2
  <2> QED BY <2>1, <2>2, <2>5 DEF TokenInv
<1> QED BY <1>4, <1>5 DEF CallInv

\* The scheme that is next is configured, and one of the operation's.
LEMMA NextScheme ==
  ASSUME CallInv, NEW c \in Calls, Applying(c)
  PROVE  /\ Scheme(c) \in Configured /\ Place[Scheme(c)] \in Places
         /\ Scheme(c) \in Named(auth[c])
<1>1. group[c] \in Seq(Configured) /\ at[c] + 1 \in DOMAIN group[c]
  BY DEF CallInv, AuthInjectorTypeOK, Applying
<1>2. Scheme(c) \in Configured
  BY <1>1 DEF Scheme
<1>3. Scheme(c) \in Named(auth[c])
  BY <1>1 DEF Scheme, CallInv, TokenInv
<1> QED BY <1>2, <1>3, AuthInjectorAssumption DEF Places

LEMMA PutKeepsTypes ==
  ASSUME CallInv, NEW c \in Calls, Applying(c), PutCredential(c)
  PROVE  /\ request' \in [Calls -> [Places -> Seq(Configured)]]
         /\ at' \in [Calls -> Nat]
         /\ \A d \in Calls : at'[d] <= Len(group[d])
<1> DEFINE s == Scheme(c)
<1>1. s \in Configured /\ Place[s] \in Places
  BY NextScheme
<1>2. request[c] \in [Places -> Seq(Configured)]
  BY DEF CallInv, AuthInjectorTypeOK
<1>3. Put(request[c][Place[s]], s) \in Seq(Configured)
  BY <1>1, <1>2 DEF Put
<1>4. request' = [request EXCEPT ![c] = [request[c] EXCEPT ![Place[s]] = Put(request[c][Place[s]], s)]]
  BY DEF PutCredential
<1>5. [request[c] EXCEPT ![Place[s]] = Put(request[c][Place[s]], s)] \in [Places -> Seq(Configured)]
  BY <1>1, <1>2, <1>3
<1>6. request' \in [Calls -> [Places -> Seq(Configured)]]
  BY <1>4, <1>5 DEF CallInv, AuthInjectorTypeOK
<1>7. at' \in [Calls -> Nat] /\ \A d \in Calls : at'[d] <= Len(group[d])
  BY DEF PutCredential, Applying, CallInv, AuthInjectorTypeOK
<1> QED BY <1>6, <1>7

LEMMA ApplyCredentialKeeps ==
  ASSUME CallInv, NEW c \in Calls, ApplyCredential(c)
  PROVE  CallInv'
<1> USE DEF ApplyCredential
<1>1. AuthInjectorTypeOK'
  BY PutKeepsTypes DEF CallInv, AuthInjectorTypeOK
<1>2. TokenInv'
  BY DEF CallInv, TokenInv
<1> QED BY <1>1, <1>2 DEF CallInv

LEMMA ApplyCachedKeeps ==
  ASSUME CallInv, NEW c \in Calls, ApplyCached(c)
  PROVE  CallInv'
<1> USE DEF ApplyCached
<1>1. Scheme(c) \in Cached /\ Scheme(c) \in Named(auth[c])
  BY NextScheme
<1>2. AuthInjectorTypeOK'
  BY <1>1, PutKeepsTypes DEF CallInv, AuthInjectorTypeOK
<1>3. TokenInv'
  BY <1>1 DEF CallInv, AuthInjectorTypeOK, TokenInv
<1> QED BY <1>2, <1>3 DEF CallInv

LEMMA ApplyFetchedKeeps ==
  ASSUME CallInv, NEW c \in Calls, ApplyFetched(c)
  PROVE  CallInv'
<1> USE AuthInjectorAssumption DEF ApplyFetched
<1> DEFINE s == Scheme(c)
<1>1. s \in Cached /\ s \in Named(auth[c])
  BY NextScheme
<1>2. issued[s] + 1 \in 0..MaxTokens
  BY <1>1 DEF CallInv, AuthInjectorTypeOK
<1>3. /\ issued' = [issued EXCEPT ![s] = issued[s] + 1]
      /\ tokens' = [tokens EXCEPT ![s] = issued[s] + 1]
  BY <1>1 DEF CallInv, AuthInjectorTypeOK
<1>4. /\ used' \in [Calls -> [Cached -> 0..MaxTokens]]
      /\ used'[c][s] = issued[s] + 1
      /\ \A d \in Calls, r \in Cached : (d = c /\ r = s) \/ used'[d][r] = used[d][r]
  BY <1>1, <1>2, <1>3 DEF CallInv, AuthInjectorTypeOK
<1> HIDE DEF s
<1>5. issued' \in [Cached -> 0..MaxTokens] /\ tokens' \in [Cached -> 0..MaxTokens]
  BY <1>2, <1>3 DEF CallInv, AuthInjectorTypeOK
<1>6. AuthInjectorTypeOK'
  BY <1>4, <1>5, PutKeepsTypes DEF CallInv, AuthInjectorTypeOK
<1>7. TokenInv'
  <2>1. \A r \in Cached : tokens'[r] <= issued'[r]
    BY <1>1, <1>3 DEF CallInv, AuthInjectorTypeOK, TokenInv
  <2>2. \A d \in Calls, r \in Cached :
          /\ used'[d][r] <= issued'[r]
          /\ rejected[d][r] <= issued'[r]
          /\ used'[d][r] # 0 => r \in Named(auth[d])
          /\ round[d] = 2 =>
               /\ tokens'[r] # 0 => tokens'[r] > rejected[d][r]
               /\ used'[d][r] # 0 => used'[d][r] > rejected[d][r]
    <3> TAKE d \in Calls, r \in Cached
    <3>1. CASE r = s
      <4>1. rejected[d][r] <= issued[s] /\ used[d][r] <= issued[s]
            /\ rejected[d][r] \in Nat /\ used[d][r] \in Nat /\ issued[s] \in Nat
        BY <3>1, <1>1 DEF CallInv, AuthInjectorTypeOK, TokenInv
      <4>2. issued'[r] = issued[s] + 1 /\ tokens'[r] = issued[s] + 1
        BY <3>1, <1>1, <1>3 DEF CallInv, AuthInjectorTypeOK
      <4>3. CASE d = c
        BY <3>1, <4>1, <4>2, <4>3, <1>1, <1>4
      <4>4. CASE d # c
        BY <3>1, <4>1, <4>2, <4>4, <1>1, <1>4 DEF CallInv, TokenInv
      <4> QED BY <4>3, <4>4
    <3>2. CASE r # s
      BY <3>2, <1>3, <1>4 DEF CallInv, AuthInjectorTypeOK, TokenInv
    <3> QED BY <3>1, <3>2
  <2> QED BY <2>1, <2>2 DEF CallInv, TokenInv
<1> QED BY <1>6, <1>7 DEF CallInv

LEMMA InjectStepKeeps ==
  ASSUME CallInv, NEW c \in Calls, InjectStep(c)
  PROVE  CallInv'
<1>1. CASE ApplyCredential(c) BY <1>1, ApplyCredentialKeeps
<1>2. CASE ApplyCached(c) BY <1>2, ApplyCachedKeeps
<1>3. CASE ApplyFetched(c) BY <1>3, ApplyFetchedKeeps
<1>4. CASE ApplyLoginFails(c) \/ ApplyFetchFails(c)
  BY <1>4, LeaveKeeps DEF ApplyLoginFails, ApplyFetchFails
<1> QED BY <1>1, <1>2, <1>3, <1>4 DEF InjectStep

LEMMA ExpireKeeps ==
  ASSUME CallInv, Expire
  PROVE  CallInv'
<1> USE AuthInjectorAssumption DEF Expire
<1>1. PICK s \in Cached : tokens' = [tokens EXCEPT ![s] = 0] OBVIOUS
<1>2. AuthInjectorTypeOK'
  BY <1>1 DEF CallInv, AuthInjectorTypeOK
<1>3. TokenInv'
  BY <1>1 DEF CallInv, AuthInjectorTypeOK, TokenInv
<1> QED BY <1>2, <1>3 DEF CallInv

LEMMA CallNext == ReloadInv /\ CallInv /\ [Next]_vars => CallInv'
<1> SUFFICES ASSUME ReloadInv, CallInv, [Next]_vars PROVE CallInv' OBVIOUS
<1>1. CASE UNCHANGED injectorVars
  BY <1>1 DEF CallInv, AuthInjectorTypeOK, TokenInv, injectorVars
<1>2. CASE Reloading
  BY <1>2, LeaveKeeps DEF Reloading
<1>3. ASSUME NEW c \in Calls, NEW t \in Tools, Call(c, t) PROVE CallInv'
  <2>1. registry.data \in Sound /\ t \in DOMAIN AuthOf[registry.data]
    BY <1>3, HotReloadAssumption
    DEF Call, Exposes, ReloadInv, HotReloadTypeOK, Registries
  <2>2. AuthOf[registry.data][t] \in Seq(Seq(Schemes))
    BY <2>1, ToolServerAssumption
  <2> QED BY <1>3, <2>2, InjectKeeps DEF Call
<1>4. ASSUME NEW c \in Calls, CallInject(c) PROVE CallInv'
  BY <1>4, InjectStepKeeps DEF CallInject
<1>5. ASSUME NEW c \in Calls, SendStep(c) PROVE CallInv'
  <2>1. CASE SendRejected(c)
    <3>1. auth[c] \in Seq(Seq(Schemes)) BY DEF CallInv, AuthInjectorTypeOK
    <3> QED BY <2>1, <3>1, InjectKeeps DEF SendRejected
  <2>2. CASE SendEnds(c) \/ SendUnauthorized(c)
    BY <2>2, LeaveKeeps DEF SendEnds, SendUnauthorized
  <2> QED BY <1>5, <2>1, <2>2 DEF SendStep
<1>6. ASSUME NEW c \in Calls, Cancel(c) PROVE CallInv'
  BY <1>6, LeaveKeeps DEF Cancel
<1>7. CASE Expire
  BY <1>7, ExpireKeeps
<1> QED
  BY <1>1, <1>2, <1>3, <1>4, <1>5, <1>6, <1>7
  DEF Next, Watching, vars

LEMMA CallInvariance == Spec => []CallInv
<1>1. Init => CallInv BY CallInit DEF Init
<1> QED BY <1>1, CallNext, ReloadInvariance, PTL DEF Spec

-----------------------------------------------------------------------------

\* What the next scheme does to the credentials of those before it.
LEMMA CarriedGrows ==
  ASSUME NEW schemes \in Seq(Configured), NEW s \in Configured
  PROVE  Carried(Append(schemes, s)) = Put(Carried(schemes), s)
<1> DEFINE n == Len(schemes)
           more == Append(schemes, s)
           From(list) == {1} \cup {i \in DOMAIN list : Kind[list[i]] # "cookie"}
<1>1. n \in Nat /\ DOMAIN schemes = 1..n
      /\ more \in Seq(Configured) /\ DOMAIN more = 1..(n + 1) /\ Len(more) = n + 1
      /\ more[n + 1] = s /\ \A i \in 1..n : more[i] = schemes[i]
  OBVIOUS
<1>2. Carried(schemes) = SubSeq(schemes, Max(From(schemes)), n)
      /\ Carried(more) = SubSeq(more, Max(From(more)), n + 1)
  BY <1>1 DEF Carried
<1> HIDE DEF more
<1>3. CASE Kind[s] # "cookie"
  <2>1. Max(From(more)) = n + 1
    <3>1. n + 1 \in From(more) /\ From(more) \in SUBSET (1..(n + 1)) BY <1>1, <1>3
    <3>2. n + 1 \in Nat /\ From(more) # {} BY <1>1, <3>1
    <3> HIDE DEF From
    <3>3. Max(From(more)) \in From(more) /\ Max(From(more)) >= n + 1
      BY <3>1, <3>2, GreatestIsThere
    <3>4. Max(From(more)) \in 1..(n + 1) BY <3>1, <3>3
    <3> QED BY <1>1, <3>3, <3>4
  <2>2. SubSeq(more, n + 1, n + 1) = <<s>>
    <3> DEFINE part == SubSeq(more, n + 1, n + 1)
    <3>1. part \in Seq(Configured) /\ Len(part) = 1 /\ part[1] = more[n + 1] BY <1>1
    <3>2. \A q \in Seq(Configured) : Len(q) = 1 => q = <<q[1]>> OBVIOUS
    <3>3. part[1] = s BY <1>1, <3>1
    <3> HIDE DEF part
    <3>4. part = <<part[1]>> BY <3>1, <3>2
    <3> QED BY <3>3, <3>4 DEF part
  <2> QED BY <1>2, <1>3, <2>1, <2>2 DEF Put, more
<1>4. CASE Kind[s] = "cookie"
  <2>1. From(more) = From(schemes) BY <1>1, <1>4
  <2> DEFINE m == Max(From(schemes))
  <2>2. m \in 1..(n + 1)
    <3>1. From(schemes) \in SUBSET (1..(n + 1)) /\ From(schemes) # {} BY <1>1
    <3>2. n + 1 \in Nat BY <1>1
    <3> HIDE DEF From
    <3>3. Max(From(schemes)) \in From(schemes) BY <3>1, <3>2, GreatestIsThere
    <3> QED BY <3>1, <3>3
  <2> HIDE DEF m
  <2>3. SubSeq(more, m, n + 1) = Append(SubSeq(schemes, m, n), s)
    <3> DEFINE part == SubSeq(schemes, m, n)
               longer == SubSeq(more, m, n + 1)
    <3>1. part \in Seq(Configured) /\ Len(part) = n + 1 - m
          /\ \A i \in 1..(n + 1 - m) : part[i] = schemes[m + i - 1]
      BY <1>1, <2>2
    <3>2. longer \in Seq(Configured) /\ Len(longer) = n + 2 - m
          /\ \A i \in 1..(n + 2 - m) : longer[i] = more[m + i - 1]
      BY <1>1, <2>2
    <3> HIDE DEF part, longer
    <3>3. Append(part, s) \in Seq(Configured) /\ Len(Append(part, s)) = n + 2 - m
          /\ Append(part, s)[n + 2 - m] = s
          /\ \A i \in 1..(n + 1 - m) : Append(part, s)[i] = part[i]
      BY <1>1, <2>2, <3>1
    <3>4. ASSUME NEW i \in 1..(n + 2 - m) PROVE longer[i] = Append(part, s)[i]
      <4>1. CASE i = n + 2 - m
        <5>1. m + i - 1 = n + 1 BY <1>1, <2>2, <4>1
        <5> QED BY <1>1, <3>2, <3>3, <4>1, <5>1
      <4>2. CASE i # n + 2 - m
        <5>1. i \in 1..(n + 1 - m) /\ m + i - 1 \in 1..n BY <1>1, <2>2, <4>2
        <5> QED BY <1>1, <3>1, <3>2, <3>3, <5>1
      <4> QED BY <4>1, <4>2
    <3> HIDE DEF m
    <3>5. longer = Append(part, s)
      <4> DEFINE q == Append(part, s)
      <4> HIDE DEF q
      <4>1. q \in Seq(Configured) /\ Len(q) = n + 2 - m
            /\ \A i \in 1..(n + 2 - m) : longer[i] = q[i]
        BY <3>3, <3>4 DEF q
      <4> QED BY <3>2, <4>1 DEF q
    <3> QED BY <3>5 DEF part, longer
  <2> QED BY <1>2, <1>4, <2>1, <2>3 DEF Put, more, m
<1> QED BY <1>3, <1>4

\* What the schemes that are applied leave behind at p.
Applied(c, p) == Carried(Placed(SubSeq(group[c], 1, at[c]), p))

\* A request has what the schemes that are applied leave behind, and nothing else.
PlaceInv == \A c \in Calls, p \in Places : request[c][p] = Applied(c, p)

LEMMA NothingPlaced ==
  ASSUME NEW p
  PROVE  Carried(Placed(<<>>, p)) = <<>>
<1>1. Placed(<<>>, p) = <<>> BY KeepEmpty DEF Placed
<1>2. Carried(<<>>) = SubSeq(<<>>, Max({1} \cup {}), 0)
  <2>1. DOMAIN <<>> = {} /\ Len(<<>>) = 0 OBVIOUS
  <2>2. {i \in DOMAIN <<>> : Kind[<<>>[i]] # "cookie"} = {} BY <2>1
  <2> QED BY <2>1, <2>2 DEF Carried
<1>3. Max({1} \cup {}) = 1
  <2>1. {1} \in SUBSET (1..1) /\ {1} # {} /\ 1 \in Nat /\ {1} \cup {} = {1} OBVIOUS
  <2>2. Max({1}) \in {1} BY <2>1, GreatestIsThere
  <2> QED BY <2>1, <2>2
<1>4. SubSeq(<<>>, 1, 0) = <<>> OBVIOUS
<1> QED BY <1>1, <1>2, <1>3, <1>4

LEMMA PlaceInit == AuthInjectorInit => PlaceInv
<1> SUFFICES ASSUME AuthInjectorInit, NEW c \in Calls, NEW p \in Places
             PROVE  request[c][p] = Applied(c, p)
  BY DEF PlaceInv
<1>1. request[c][p] = <<>> /\ group[c] = <<>> /\ at[c] = 0
  BY DEF AuthInjectorInit, NoCredentials
<1>2. SubSeq(<<>>, 1, 0) = <<>> OBVIOUS
<1> QED BY <1>1, <1>2, NothingPlaced DEF Applied

LEMMA LeaveKeepsPlaces ==
  ASSUME PlaceInv, NEW cs, Leave(cs)
  PROVE  PlaceInv'
<1> SUFFICES ASSUME NEW c \in Calls, NEW p \in Places
             PROVE  request'[c][p] = Applied(c, p)'
  BY DEF PlaceInv
<1>1. CASE c \in cs
  <2>1. request'[c][p] = <<>> /\ group'[c] = <<>> /\ at'[c] = 0
    BY <1>1 DEF Leave, NoCredentials
  <2>2. SubSeq(<<>>, 1, 0) = <<>> OBVIOUS
  <2> QED BY <2>1, <2>2, NothingPlaced DEF Applied
<1>2. CASE c \notin cs
  <2>1. request'[c] = request[c] /\ group'[c] = group[c] /\ at'[c] = at[c]
    BY <1>2 DEF Leave
  <2> QED BY <2>1 DEF Applied, PlaceInv
<1> QED BY <1>1, <1>2

LEMMA InjectKeepsPlaces ==
  ASSUME CallInv, PlaceInv, NEW c \in Calls, NEW requirements \in Seq(Seq(Schemes)),
         NEW r, Inject(c, requirements, r)
  PROVE  PlaceInv'
<1> SUFFICES ASSUME NEW d \in Calls, NEW p \in Places
             PROVE  request'[d][p] = Applied(d, p)'
  BY DEF PlaceInv
<1>1. PICK g \in Selected(requirements) : group' = [group EXCEPT ![c] = g] BY DEF Inject
<1>2. CASE d = c
  <2>1. request'[d][p] = <<>> /\ group'[d] = g /\ at'[d] = 0
    BY <1>1, <1>2 DEF Inject, NoCredentials, CallInv, AuthInjectorTypeOK
  <2>2. SubSeq(g, 1, 0) = <<>>
    <3>1. g \in Seq(Configured) BY SelectedGroup
    <3> QED BY <3>1, WholeIsPrefix
  <2> QED BY <2>1, <2>2, NothingPlaced DEF Applied
<1>3. CASE d # c
  <2>1. request'[d] = request[d] /\ group'[d] = group[d] /\ at'[d] = at[d]
    BY <1>1, <1>3 DEF Inject, CallInv, AuthInjectorTypeOK
  <2> QED BY <2>1 DEF Applied, PlaceInv
<1> QED BY <1>2, <1>3

LEMMA PutKeepsPlaces ==
  ASSUME CallInv, PlaceInv, NEW c \in Calls, Applying(c), PutCredential(c), group' = group
  PROVE  PlaceInv'
<1> SUFFICES ASSUME NEW d \in Calls, NEW p \in Places
             PROVE  request'[d][p] = Applied(d, p)'
  BY DEF PlaceInv
<1> DEFINE s == Scheme(c)
           g == group[c]
           before == SubSeq(g, 1, at[c])
           there == {q \in Schemes : Place[q] = p}
<1>1. s \in Configured /\ Place[s] \in Places BY NextScheme
<1>2. request[d] \in [Places -> Seq(Configured)] /\ request \in [Calls -> [Places -> Seq(Configured)]]
      /\ at[c] \in Nat /\ at \in [Calls -> Nat] /\ g \in Seq(Configured) /\ Configured \subseteq Schemes
  BY AuthInjectorAssumption DEF CallInv, AuthInjectorTypeOK
<1>3. CASE d # c
  <2>1. request'[d] = request[d] /\ group'[d] = group[d] /\ at'[d] = at[d]
    BY <1>2, <1>3 DEF PutCredential
  <2> QED BY <2>1 DEF Applied, PlaceInv
<1>4. CASE d = c
  <2>1. at'[c] = at[c] + 1 /\ group'[c] = g
        /\ request'[c][p] = IF Place[s] = p THEN Put(request[c][p], s) ELSE request[c][p]
    BY <1>1, <1>2, <1>4 DEF PutCredential
  <2>2. SubSeq(g, 1, at[c] + 1) = Append(before, s) /\ before \in Seq(Configured)
    <3>1. at[c] + 1 \in 1..Len(g) /\ (at[c] + 1) - 1 = at[c]
      BY <1>2 DEF Applying
    <3>2. s = g[at[c] + 1] BY DEF Scheme
    <3> HIDE DEF g, s
    <3> QED BY <1>2, <3>1, <3>2, PrefixGrows
  <2>3. request[c][p] = Carried(Placed(before, p)) BY DEF PlaceInv, Applied
  <2>4. Placed(before, p) \in Seq(Configured) BY <2>2, KeepTyped DEF Placed
  <2>5. Placed(Append(before, s), p)
          = IF Place[s] = p THEN Append(Placed(before, p), s) ELSE Placed(before, p)
    <3>1. s \in there <=> Place[s] = p BY <1>1, <1>2
    <3> HIDE DEF s, before, there
    <3>2. Keep(Append(before, s), there)
            = IF s \in there THEN Append(Keep(before, there), s) ELSE Keep(before, there)
      BY <1>1, <2>2, KeepAppend
    <3> QED BY <3>1, <3>2 DEF Placed, there
  <2>6. Applied(c, p)' = Carried(Placed(Append(before, s), p)) BY <2>1, <2>2 DEF Applied
  <2> HIDE DEF s, before
  <2>7. Carried(Append(Placed(before, p), s)) = Put(Carried(Placed(before, p)), s)
    BY <1>1, <2>4, CarriedGrows
  <2> QED BY <1>4, <2>1, <2>3, <2>5, <2>6, <2>7
<1> QED BY <1>3, <1>4

LEMMA PlaceNext == ReloadInv /\ CallInv /\ PlaceInv /\ [Next]_vars => PlaceInv'
<1> SUFFICES ASSUME ReloadInv, CallInv, PlaceInv, [Next]_vars PROVE PlaceInv' OBVIOUS
<1>1. CASE UNCHANGED <<group, at, request>> BY <1>1 DEF PlaceInv, Applied
<1>2. ASSUME NEW cs, Leave(cs) PROVE PlaceInv' BY <1>2, LeaveKeepsPlaces
<1>3. ASSUME NEW c \in Calls, NEW t \in Tools, Call(c, t) PROVE PlaceInv'
  <2>1. registry.data \in Sound /\ t \in DOMAIN AuthOf[registry.data]
    BY <1>3, HotReloadAssumption
    DEF Call, Exposes, ReloadInv, HotReloadTypeOK, Registries
  <2>2. AuthOf[registry.data][t] \in Seq(Seq(Schemes))
    BY <2>1, ToolServerAssumption
  <2> QED BY <1>3, <2>2, InjectKeepsPlaces DEF Call
<1>4. ASSUME NEW c \in Calls, InjectStep(c) PROVE PlaceInv'
  <2>1. CASE ApplyCredential(c) \/ ApplyCached(c) \/ ApplyFetched(c)
    <3>1. Applying(c) /\ PutCredential(c) /\ group' = group
      BY <2>1 DEF ApplyCredential, ApplyCached, ApplyFetched
    <3> QED BY <3>1, PutKeepsPlaces
  <2>2. CASE ApplyLoginFails(c) \/ ApplyFetchFails(c)
    BY <1>2, <2>2 DEF ApplyLoginFails, ApplyFetchFails
  <2> QED BY <1>4, <2>1, <2>2 DEF InjectStep
<1>5. ASSUME NEW c \in Calls, SendStep(c) PROVE PlaceInv'
  <2>1. CASE SendRejected(c)
    <3>1. auth[c] \in Seq(Seq(Schemes)) BY DEF CallInv, AuthInjectorTypeOK
    <3> QED BY <2>1, <3>1, InjectKeepsPlaces DEF SendRejected
  <2>2. CASE SendEnds(c) \/ SendUnauthorized(c)
    BY <1>2, <2>2 DEF SendEnds, SendUnauthorized
  <2> QED BY <1>5, <2>1, <2>2 DEF SendStep
<1>6. CASE Reloading BY <1>2, <1>6 DEF Reloading
<1>7. ASSUME NEW c \in Calls, Cancel(c) PROVE PlaceInv' BY <1>2, <1>7 DEF Cancel
<1>8. CASE Expire BY <1>1, <1>8 DEF Expire
<1>9. CASE UNCHANGED injectorVars BY <1>1, <1>9 DEF injectorVars
<1> QED
  BY <1>3, <1>4, <1>5, <1>6, <1>7, <1>8, <1>9 DEF Next, CallInject, Watching, vars

LEMMA PlaceInvariance == Spec => []PlaceInv
<1>1. Init => PlaceInv BY PlaceInit DEF Init
<1> QED BY <1>1, PlaceNext, ReloadInvariance, CallInvariance, PTL DEF Spec

-----------------------------------------------------------------------------

(***************************************************************************)
(* File, registry, tokens and requests have their types.                   *)
(***************************************************************************)
THEOREM TypeCorrect == Spec => []TypeOK
<1>1. ReloadInv /\ CallInv => TypeOK BY DEF ReloadInv, CallInv, TypeOK
<1> QED BY <1>1, ReloadInvariance, CallInvariance, PTL

(***************************************************************************)
(* For any contents and any number of edits: a registry that the watcher   *)
(* of cli/serve.py does not mean to replace is what the file says.         *)
(***************************************************************************)
THEOREM RegistryIsTheFiles == Spec => []RegistryFollowsFile
<1>1. ReloadInv => RegistryFollowsFile
  BY DEF ReloadInv, RegistryFollowsFile, UpToDate, LoopFree
<1> QED BY <1>1, ReloadInvariance, PTL

(***************************************************************************)
(* No edit and no failed reload takes away a tool that every sound content *)
(* has.                                                                    *)
(***************************************************************************)
THEOREM ToolsStayKnown == Spec => []NeverUnknown
<1>1. ReloadInv => NeverUnknown
  BY HotReloadAssumption
  DEF ReloadInv, HotReloadTypeOK, NeverUnknown, LoopFree, Exposes, Registries
<1> QED BY <1>1, ReloadInvariance, PTL

(***************************************************************************)
(* For any schemes, requirements and calls: what dispatch sends again after*)
(* a 401 has a newer token for each token that was rejected.               *)
(***************************************************************************)
THEOREM RetryCarriesNewTokens == Spec => []RetryIsFresh
<1>1. CallInv => RetryIsFresh
  BY DEF CallInv, AuthInjectorTypeOK, TokenInv, RetryIsFresh
<1> QED BY <1>1, CallInvariance, PTL

(***************************************************************************)
(* For any group of schemes of any kind, any places and any other calls:   *)
(* a request that dispatch sends, the first or the one after a 401, has    *)
(* at each place what the schemes of its group put there, and no more.     *)
(***************************************************************************)
THEOREM RequestsCarryOneGroup == Spec => []CarriesOneGroup
<1>1. CallInv /\ PlaceInv => CarriesOneGroup
  <2> SUFFICES ASSUME CallInv, PlaceInv, NEW c \in Calls, Sending(c), NEW p \in Places
               PROVE  request[c][p] = Carried(Placed(group[c], p))
    BY DEF CarriesOneGroup
  <2>1. group[c] \in Seq(Configured) BY DEF CallInv, AuthInjectorTypeOK
  <2>2. SubSeq(group[c], 1, at[c]) = group[c] BY <2>1, WholeIsPrefix DEF Sending
  <2> QED BY <2>2 DEF PlaceInv, Applied
<1> QED BY <1>1, CallInvariance, PlaceInvariance, PTL
=============================================================================
