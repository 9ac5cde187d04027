-------------------------- MODULE OAuthServer_proofs --------------------------
(***************************************************************************)
(* Proofs about OAuthServer, for any sets of schemes, sessions, logins and *)
(* calls.  IInv is inductive; the properties of OAuthServer follow from it.*)
(***************************************************************************)
EXTENDS OAuthServer, TLAPS

\* A suspended call knows its slot and, past the read, its tokens.
CallShape ==
  \A c \in Calls :
    /\ pc[c] \in Active => slot[c] \in Slots
    /\ pc[c] \in {"refreshing", "saving"} => tok[c] \in Tokens

\* A call inside the lock holds its lock object, alone, and got it from the
\* cache: its epoch is not ahead of the slot's.
LockInv ==
  /\ \A c \in Calls :
       /\ pc[c] \in Active => lock[c] <= epoch[slot[c]]
       /\ pc[c] \in Critical => LockOf(c) \in held
  /\ \A c, d \in Calls :
       c # d /\ pc[c] \in Critical /\ pc[d] \in Critical => LockOf(c) # LockOf(d)
  /\ NoLeakedLock

\* What a login has at each stage.
FlowInv ==
  \A l \in Logins :
    /\ stage[l] = "fresh" <=> owner[l] = None
    /\ stage[l] \in {"fresh", "issued"} => stateOf[l] = None
    /\ stage[l] \in {"redirected", "exchanging", "saving"} => stateOf[l] # None
    /\ stateOf[l] # None => stateOf[l].session = owner[l][2]
    /\ stage[l] = "saving" <=> loginTok[l] # None
    /\ loginTok[l] # None => loginTok[l].grant = l /\ gen[l] > 0

\* A stored verifier belongs to a redirected login that carries its state.
PkceInv ==
  \A st \in States :
    pkce[st] # None => stage[pkce[st]] = "redirected" /\ stateOf[pkce[st]] = st

\* Tokens in use were granted to a login that is over, of the same slot.
GrantedTo(t, k) ==
  t # None => owner[t.grant] = k /\ stage[t.grant] = "over" /\ gen[t.grant] > 0

GrantInv ==
  /\ \A k \in Slots : GrantedTo(store[k], k)
  /\ \A c \in Calls : GrantedTo(tok[c], slot[c])

\* Tokens about to be saved carry the refresh token the provider accepts.
PendingInv ==
  /\ \A c \in Calls :
       pc[c] = "saving" /\ tok[c].gen # 0 =>
         \/ tok[c].gen = gen[tok[c].grant]
         \/ tok[c].grant \in lost
         \/ epoch[slot[c]] > 0
  /\ \A l \in Logins :
       stage[l] = "saving" /\ loginTok[l].gen # 0 =>
         loginTok[l].gen = gen[l] \/ l \in lost

\* A session with suspended calls is connected or not purged yet.
SessionInv ==
  \A c \in Calls : pc[c] \in Active => ~Closed(slot[c][2])

IInv ==
  /\ TypeOK
  /\ CallShape
  /\ LockInv
  /\ FlowInv
  /\ PkceInv
  /\ GrantInv
  /\ PendingInv
  /\ SessionInv
  /\ RotationKept
  /\ VerifierKept

-----------------------------------------------------------------------------

\* A slot is a scheme and a session.
LEMMA SlotParts ==
  ASSUME NEW k \in Slots
  PROVE  k[1] \in Schemes /\ k[2] \in Sessions /\ k = <<k[1], k[2]>>
BY DEF Slots

\* What a token response yields is a token record of its login.
LEMMA ResponseIsToken ==
  ASSUME NEW l \in Logins, NEW i \in 0..MaxGen, NEW e \in 0..MaxGen
  PROVE  /\ FromTokenResponse(l, i, e) \in Tokens
         /\ FromTokenResponse(l, i, e).grant = l
         /\ FromTokenResponse(l, i, e).gen = IF i # 0 THEN i ELSE e
BY DEF FromTokenResponse, Tokens

\* The type invariant and the shape of calls and logins hold initially.
LEMMA InitIInv == Init => IInv
<1> SUFFICES ASSUME Init PROVE IInv
  OBVIOUS
<1> USE TokenStoreAssumption, LoginFlowAssumption, StateAssumption, HandlerAssumption
    DEF Init, TokenStoreInit, LoginFlowInit, HandlerInit, Active, Critical, Resting
<1>1. TypeOK
  BY DEF TypeOK, TokenStoreTypeOK, LoginFlowTypeOK, HandlerTypeOK, Stages
<1>2. CallShape /\ LockInv /\ SessionInv
  BY DEF CallShape, LockInv, NoLeakedLock, SessionInv
<1>3. FlowInv /\ PkceInv
  BY DEF FlowInv, PkceInv
<1>4. GrantInv /\ PendingInv /\ RotationKept /\ VerifierKept
  BY DEF GrantInv, GrantedTo, PendingInv, RotationKept, VerifierKept, Refreshable
<1> QED
  BY <1>1, <1>2, <1>3, <1>4 DEF IInv

-----------------------------------------------------------------------------
(* Frames: what a step that leaves a part of the state alone preserves.     *)

LEMMA LockFrame ==
  ASSUME CallShape, LockInv, UNCHANGED <<epoch, held, pc, slot, lock, tok>>
  PROVE  CallShape' /\ LockInv'
BY DEF CallShape, LockInv, NoLeakedLock, LockOf

LEMMA SessionFrame ==
  ASSUME SessionInv, UNCHANGED <<pc, slot, open, purge>>
  PROVE  SessionInv'
BY DEF SessionInv, Closed

LEMMA FlowFrame ==
  ASSUME FlowInv, PkceInv, VerifierKept,
         UNCHANGED <<stage, owner, stateOf, pkce, loginTok>>,
         \A l \in Logins : gen[l] > 0 => gen'[l] > 0
  PROVE  FlowInv' /\ PkceInv' /\ VerifierKept'
BY DEF FlowInv, PkceInv, VerifierKept

LEMMA GrantFrame ==
  ASSUME GrantInv, PendingInv, RotationKept,
         UNCHANGED <<store, gen, lost, stage, owner, loginTok, epoch, pc, slot, tok>>
  PROVE  GrantInv' /\ PendingInv' /\ RotationKept'
BY DEF GrantInv, GrantedTo, PendingInv, RotationKept, Refreshable

\* A login whose refresh token moves on unseen is lost; no other is touched.
LEMMA OrphanEffect ==
  ASSUME TokenStoreTypeOK, NEW l \in Logins, OrphanRefreshToken(l)
  PROVE  /\ gen' \in [Logins -> 0..MaxGen]
         /\ lost' \subseteq Logins
         /\ lost \subseteq lost'
         /\ \A x \in Logins : gen'[x] = gen[x] \/ x \in lost'
         /\ \A x \in Logins : gen[x] > 0 => gen'[x] > 0
BY TokenStoreAssumption DEF OrphanRefreshToken, TokenStoreTypeOK

-----------------------------------------------------------------------------
(* The calls.                                                               *)

LEMMA EnterApplyStep ==
  ASSUME IInv, NEW c \in Calls, NEW k \in Slots, StartCall(c, k)
  PROVE  IInv'
<1> USE DEF IInv, StartCall, EnterApply, Active, Critical, Resting
<1>1. TypeOK'
  BY DEF TypeOK, TokenStoreTypeOK, LoginFlowTypeOK, HandlerTypeOK, tokenVars,
         loginVars, nonceVars, flowVars, deleteVars, sessionVars
<1>2. CallShape' /\ LockInv'
  BY SlotParts DEF CallShape, LockInv, NoLeakedLock, LockOf, TypeOK, HandlerTypeOK
<1>3. SessionInv'
  BY DEF SessionInv, Closed, sessionVars, TypeOK, HandlerTypeOK
<1>4. FlowInv' /\ PkceInv' /\ VerifierKept'
  BY FlowFrame DEF tokenVars, loginVars, nonceVars, flowVars
<1>5. GrantInv' /\ PendingInv' /\ RotationKept'
  BY DEF GrantInv, GrantedTo, PendingInv, RotationKept, Refreshable, TypeOK,
         HandlerTypeOK, tokenVars, loginVars, nonceVars, flowVars
<1> QED
  BY <1>1, <1>2, <1>3, <1>4, <1>5

LEMMA AcquireStep ==
  ASSUME IInv, NEW c \in Calls, TakeLock(c)
  PROVE  IInv'
<1> USE DEF IInv, TakeLock, Acquire, Active, Critical, Resting
<1>1. TypeOK'
  BY DEF TypeOK, TokenStoreTypeOK, LoginFlowTypeOK, HandlerTypeOK, tokenVars,
         loginVars, nonceVars, flowVars, deleteVars, sessionVars, CallShape,
         LockOf, Locks
<1>2. CallShape' /\ LockInv'
  BY DEF CallShape, LockInv, NoLeakedLock, LockOf, TypeOK, HandlerTypeOK
<1>3. SessionInv'
  BY DEF SessionInv, Closed, sessionVars, TypeOK, HandlerTypeOK
<1>4. FlowInv' /\ PkceInv' /\ VerifierKept'
  BY FlowFrame DEF tokenVars, loginVars, nonceVars, flowVars
<1>5. GrantInv' /\ PendingInv' /\ RotationKept'
  BY DEF GrantInv, GrantedTo, PendingInv, RotationKept, Refreshable, TypeOK,
         HandlerTypeOK, tokenVars, loginVars, nonceVars, flowVars
<1> QED
  BY <1>1, <1>2, <1>3, <1>4, <1>5

LEMMA ReadUsableStep ==
  ASSUME IInv, NEW c \in Calls, ReadUsable(c), UNCHANGED sessionVars
  PROVE  IInv'
<1> USE DEF IInv, ReadUsable, Leave, Active, Critical, Resting
<1>0. slot[c] \in Slots /\ store[slot[c]] \in Tokens
  BY DEF CallShape, Usable, TypeOK, TokenStoreTypeOK
<1>1. TypeOK'
  BY <1>0 DEF TypeOK, TokenStoreTypeOK, LoginFlowTypeOK, HandlerTypeOK, tokenVars,
         loginVars, nonceVars, flowVars, deleteVars, sessionVars
<1>2. CallShape' /\ LockInv'
  BY <1>0 DEF CallShape, LockInv, NoLeakedLock, LockOf, TypeOK, HandlerTypeOK
<1>3. SessionInv'
  BY DEF SessionInv, Closed, sessionVars, TypeOK, HandlerTypeOK
<1>4. FlowInv' /\ PkceInv' /\ VerifierKept'
  BY FlowFrame DEF tokenVars, loginVars, nonceVars, flowVars
<1>5. GrantInv' /\ PendingInv' /\ RotationKept'
  BY <1>0 DEF GrantInv, GrantedTo, PendingInv, RotationKept, Refreshable, TypeOK,
         HandlerTypeOK, tokenVars, loginVars, nonceVars, flowVars
<1> QED
  BY <1>1, <1>2, <1>3, <1>4, <1>5

LEMMA ReadRefreshableStep ==
  ASSUME IInv, NEW c \in Calls, ReadRefreshable(c), UNCHANGED sessionVars
  PROVE  IInv'
<1> USE DEF IInv, ReadRefreshable, Active, Critical, Resting
<1>0. slot[c] \in Slots /\ store[slot[c]] \in Tokens
  BY DEF CallShape, Refreshable, TypeOK, TokenStoreTypeOK
<1>1. TypeOK'
  BY <1>0 DEF TypeOK, TokenStoreTypeOK, LoginFlowTypeOK, HandlerTypeOK, tokenVars,
         loginVars, nonceVars, flowVars, deleteVars, sessionVars
<1>2. CallShape' /\ LockInv'
  BY <1>0 DEF CallShape, LockInv, NoLeakedLock, LockOf, TypeOK, HandlerTypeOK
<1>3. SessionInv'
  BY <1>0 DEF SessionInv, Closed, sessionVars, TypeOK, HandlerTypeOK
<1>4. FlowInv' /\ PkceInv' /\ VerifierKept'
  BY FlowFrame DEF tokenVars, loginVars, nonceVars, flowVars
<1>5. GrantInv' /\ PendingInv' /\ RotationKept'
  BY <1>0 DEF GrantInv, GrantedTo, PendingInv, RotationKept, Refreshable, TypeOK,
         HandlerTypeOK, tokenVars, loginVars, nonceVars, flowVars
<1> QED
  BY <1>1, <1>2, <1>3, <1>4, <1>5

LEMMA ReadUnusableStep ==
  ASSUME IInv, NEW c \in Calls, ReadUnusable(c), UNCHANGED sessionVars
  PROVE  IInv'
<1> USE DEF IInv, ReadUnusable, Leave, IssueNonce, Fresh, Active, Critical, Resting
<1>0. slot[c] \in Slots /\ slot[c] # None
  BY TokenStoreAssumption DEF CallShape
<1>1. TypeOK'
  BY <1>0 DEF TypeOK, TokenStoreTypeOK, LoginFlowTypeOK, HandlerTypeOK, tokenVars,
         loginVars, nonceVars, flowVars, deleteVars, sessionVars, Stages
<1>2. CallShape' /\ LockInv'
  BY <1>0 DEF CallShape, LockInv, NoLeakedLock, LockOf, TypeOK, HandlerTypeOK
<1>3. SessionInv'
  BY <1>0 DEF SessionInv, Closed, sessionVars, TypeOK, HandlerTypeOK
<1>4. FlowInv' /\ PkceInv' /\ VerifierKept'
  BY <1>0 DEF FlowInv, PkceInv, VerifierKept, IssueNonce, Fresh, nonceVars, flowVars,
         tokenVars, TypeOK, LoginFlowTypeOK
<1>5. GrantInv' /\ PendingInv' /\ RotationKept'
  BY <1>0 DEF GrantInv, GrantedTo, PendingInv, RotationKept, Refreshable, TypeOK,
         HandlerTypeOK, tokenVars, loginVars, nonceVars, flowVars, FlowInv,
         TokenStoreTypeOK, LoginFlowTypeOK, Tokens
<1> QED
  BY <1>1, <1>2, <1>3, <1>4, <1>5

LEMMA RefreshOkStep ==
  ASSUME IInv, NEW c \in Calls, RefreshOk(c), UNCHANGED sessionVars
  PROVE  IInv'
<1> USE DEF IInv, RefreshOk, GrantRefresh, Active, Critical, Resting
<1>0. tok[c] \in Tokens /\ tok[c].grant \in Logins /\ tok[c] # None /\ slot[c] \in Slots
  BY TokenStoreAssumption DEF CallShape, Tokens
<1>a. PICK issued \in 0..MaxGen :
        /\ GrantRefresh(tok[c], issued)
        /\ tok' = [tok EXCEPT ![c] = FromTokenResponse(@.grant, issued, @.gen)]
  OBVIOUS
<1>b. /\ tok'[c] \in Tokens
      /\ tok'[c].grant = tok[c].grant
      /\ tok'[c].gen = gen'[tok[c].grant]
      /\ \A d \in Calls \ {c} : tok'[d] = tok[d]
  <2>1. tok[c].gen \in 0..MaxGen /\ gen[tok[c].grant] = tok[c].gen
    BY <1>0, <1>a DEF Tokens
  <2>2. tok'[c] = FromTokenResponse(tok[c].grant, issued, tok[c].gen)
    BY <1>a DEF TypeOK, HandlerTypeOK
  <2>3. gen'[tok[c].grant] = IF issued # 0 THEN issued ELSE tok[c].gen
    BY <1>0, <1>a, <2>1 DEF TypeOK, TokenStoreTypeOK
  <2> QED
    BY <1>0, <1>a, <2>1, <2>2, <2>3, ResponseIsToken DEF TypeOK, HandlerTypeOK
<1>c. /\ \A l \in Logins \ {tok[c].grant} : gen'[l] = gen[l]
      /\ \A l \in Logins : gen[l] > 0 => gen'[l] > 0
  BY <1>0, <1>a DEF Tokens, TypeOK, TokenStoreTypeOK
<1>1. TypeOK'
  BY <1>0, <1>a, <1>b DEF TypeOK, TokenStoreTypeOK, LoginFlowTypeOK, HandlerTypeOK,
         loginVars, nonceVars, flowVars, deleteVars, sessionVars, Tokens
<1>2. CallShape' /\ LockInv'
  BY <1>0, <1>b DEF CallShape, LockInv, NoLeakedLock, LockOf, TypeOK, HandlerTypeOK
<1>3. SessionInv'
  BY <1>0 DEF SessionInv, Closed, sessionVars, TypeOK, HandlerTypeOK
<1>4. FlowInv' /\ PkceInv' /\ VerifierKept'
  BY <1>c, FlowFrame DEF loginVars, nonceVars, flowVars
<1>5. GrantInv'
  BY <1>0, <1>b, <1>c DEF GrantInv, GrantedTo, TypeOK, HandlerTypeOK, TokenStoreTypeOK,
         Tokens, loginVars, nonceVars
<1>6. ASSUME NEW d \in Calls, d # c, pc[d] = "saving", tok[d].grant = tok[c].grant
      PROVE  slot[d] = slot[c] /\ epoch[slot[c]] > 0
  <2>1. slot[d] = slot[c]
    BY <1>0, <1>6, TokenStoreAssumption DEF GrantInv, GrantedTo, CallShape
  <2>2. lock[c] # lock[d]
    BY <1>6, <2>1 DEF LockInv, LockOf
  <2>3. lock[c] <= epoch[slot[c]] /\ lock[d] <= epoch[slot[c]]
    BY <1>6, <2>1 DEF LockInv
  <2> QED
    BY <1>0, <2>1, <2>2, <2>3, HandlerAssumption DEF TypeOK, HandlerTypeOK
<1>7. PendingInv'
  <2>1. ASSUME NEW d \in Calls, pc'[d] = "saving", tok'[d].gen # 0
        PROVE  \/ tok'[d].gen = gen'[tok'[d].grant]
               \/ tok'[d].grant \in lost'
               \/ epoch'[slot'[d]] > 0
    <3>1. CASE d = c
      BY <1>b, <3>1
    <3>2. CASE d # c
      BY <1>b, <1>c, <1>6, <2>1, <3>2
      DEF PendingInv, CallShape, Tokens, TypeOK, HandlerTypeOK
    <3> QED
      BY <3>1, <3>2
  <2>2. ASSUME NEW l \in Logins, stage'[l] = "saving", loginTok'[l].gen # 0
        PROVE  loginTok'[l].gen = gen'[l] \/ l \in lost'
    <3>1. l # tok[c].grant
      BY <1>0, <2>2 DEF GrantInv, GrantedTo, loginVars, nonceVars
    <3> QED
      BY <1>c, <2>2, <3>1 DEF PendingInv, loginVars, nonceVars, flowVars
  <2> QED
    BY <2>1, <2>2 DEF PendingInv
<1>8. RotationKept'
  <2> SUFFICES ASSUME NEW k \in Slots, Refreshable(store[k]), epoch[k] = 0,
                      store[k].gen # gen'[store[k].grant], store[k].grant \notin lost
               PROVE  \E d \in Calls : /\ pc'[d] = "saving" /\ slot[d] = k
                                      /\ tok'[d].grant = store[k].grant
                                      /\ tok'[d].gen = gen'[store[k].grant]
    BY DEF RotationKept, TypeOK, HandlerTypeOK
  <2>1. store[k] \in Tokens /\ owner[store[k].grant] = k
    BY DEF GrantInv, GrantedTo, Refreshable, TypeOK, TokenStoreTypeOK
  <2>2. CASE store[k].grant = tok[c].grant
    BY <1>0, <1>b, <2>1, <2>2 DEF GrantInv, GrantedTo, TypeOK, HandlerTypeOK
  <2>3. CASE store[k].grant # tok[c].grant
    <3>1. store[k].gen # gen[store[k].grant]
      BY <1>c, <2>1, <2>3 DEF Tokens
    <3>2. PICK d \in Calls : /\ pc[d] = "saving" /\ slot[d] = k
                            /\ tok[d].grant = store[k].grant
                            /\ tok[d].gen = gen[store[k].grant]
      BY <3>1 DEF RotationKept
    <3> QED
      BY <1>b, <1>c, <2>1, <2>3, <3>2 DEF Tokens, TypeOK, HandlerTypeOK
  <2> QED
    BY <2>2, <2>3
<1> QED
  BY <1>1, <1>2, <1>3, <1>4, <1>5, <1>7, <1>8

LEMMA RefreshFailsStep ==
  ASSUME IInv, NEW c \in Calls, RefreshFails(c), UNCHANGED sessionVars
  PROVE  IInv'
<1> USE DEF IInv, RefreshFails, Leave, IssueNonce, Fresh, Active, Critical, Resting
<1>0. tok[c] \in Tokens /\ tok[c].grant \in Logins /\ slot[c] \in Slots /\ slot[c] # None
  BY TokenStoreAssumption DEF CallShape, Tokens
<1>a. /\ gen' \in [Logins -> 0..MaxGen]
      /\ lost' \subseteq Logins
      /\ lost \subseteq lost'
      /\ \A x \in Logins : gen'[x] = gen[x] \/ x \in lost'
      /\ \A x \in Logins : gen[x] > 0 => gen'[x] > 0
  BY <1>0, OrphanEffect DEF TypeOK, TokenStoreTypeOK
<1>1. TypeOK'
  BY <1>0, <1>a DEF TypeOK, TokenStoreTypeOK, LoginFlowTypeOK, HandlerTypeOK, nonceVars,
         flowVars, deleteVars, sessionVars, Stages
<1>2. CallShape' /\ LockInv'
  BY <1>0 DEF CallShape, LockInv, NoLeakedLock, LockOf, TypeOK, HandlerTypeOK
<1>3. SessionInv'
  BY <1>0 DEF SessionInv, Closed, sessionVars, TypeOK, HandlerTypeOK
<1>4. FlowInv' /\ PkceInv' /\ VerifierKept'
  BY <1>0, <1>a DEF FlowInv, PkceInv, VerifierKept, nonceVars, flowVars, TypeOK,
         LoginFlowTypeOK
<1>5. GrantInv'
  BY <1>0, <1>a
  DEF GrantInv, GrantedTo, FlowInv, TypeOK, TokenStoreTypeOK, HandlerTypeOK,
         LoginFlowTypeOK, Tokens, nonceVars
<1>6. PendingInv'
  BY <1>0, <1>a
  DEF PendingInv, CallShape, FlowInv, TypeOK, HandlerTypeOK, LoginFlowTypeOK,
         Tokens, nonceVars, flowVars
<1>7. RotationKept'
  BY <1>0, <1>a
  DEF RotationKept, Refreshable, TypeOK, HandlerTypeOK, TokenStoreTypeOK, Tokens
<1> QED
  BY <1>1, <1>2, <1>3, <1>4, <1>5, <1>6, <1>7

LEMMA SaveRefreshedStep ==
  ASSUME IInv, NEW c \in Calls, SaveRefreshed(c), UNCHANGED sessionVars
  PROVE  IInv'
<1> USE DEF IInv, SaveRefreshed, Leave, Save, Active, Critical, Resting
<1>0. tok[c] \in Tokens /\ slot[c] \in Slots
  BY DEF CallShape
<1>1. TypeOK'
  BY <1>0 DEF TypeOK, TokenStoreTypeOK, LoginFlowTypeOK, HandlerTypeOK, tokenVars,
         loginVars, nonceVars, flowVars, deleteVars, sessionVars
<1>2. CallShape' /\ LockInv'
  BY <1>0 DEF CallShape, LockInv, NoLeakedLock, LockOf, TypeOK, HandlerTypeOK
<1>3. SessionInv'
  BY <1>0 DEF SessionInv, Closed, sessionVars, TypeOK, HandlerTypeOK
<1>4. FlowInv' /\ PkceInv' /\ VerifierKept'
  BY FlowFrame DEF tokenVars, loginVars, nonceVars, flowVars
<1>5. GrantInv' /\ PendingInv' /\ RotationKept'
  BY <1>0 DEF GrantInv, GrantedTo, PendingInv, RotationKept, Refreshable, TypeOK,
         HandlerTypeOK, tokenVars, loginVars, nonceVars, flowVars, TokenStoreTypeOK,
         LockInv, LockOf
<1> QED
  BY <1>1, <1>2, <1>3, <1>4, <1>5

LEMMA StoreErrorStep ==
  ASSUME IInv, NEW c \in Calls, StoreError(c), UNCHANGED sessionVars
  PROVE  IInv'
<1> USE DEF IInv, StoreError, Leave, Active, Critical, Resting
<1>0. slot[c] \in Slots /\ (pc[c] = "saving" => tok[c] \in Tokens /\ tok[c].grant \in Logins)
  BY DEF CallShape, Tokens
<1>1. TypeOK'
  BY <1>0 DEF TypeOK, TokenStoreTypeOK, LoginFlowTypeOK, HandlerTypeOK, tokenVars,
         loginVars, nonceVars, flowVars, deleteVars, sessionVars
<1>2. CallShape' /\ LockInv'
  BY <1>0 DEF CallShape, LockInv, NoLeakedLock, LockOf, TypeOK, HandlerTypeOK
<1>3. SessionInv'
  BY <1>0 DEF SessionInv, Closed, sessionVars, TypeOK, HandlerTypeOK
<1>4. FlowInv' /\ PkceInv' /\ VerifierKept'
  BY FlowFrame DEF tokenVars, loginVars, nonceVars, flowVars
<1>5. GrantInv' /\ PendingInv' /\ RotationKept'
  BY <1>0 DEF GrantInv, GrantedTo, PendingInv, RotationKept, Refreshable, TypeOK,
         HandlerTypeOK, tokenVars, loginVars, nonceVars, flowVars, TokenStoreTypeOK
<1> QED
  BY <1>1, <1>2, <1>3, <1>4, <1>5

LEMMA CancelStep ==
  ASSUME IInv, NEW c \in Calls, CancelCall(c)
  PROVE  IInv'
<1> USE DEF IInv, CancelCall, Cancel, Leave, Save, Active, Critical, Resting
<1>0. /\ slot[c] \in Slots
      /\ pc[c] \in {"refreshing", "saving"} => tok[c] \in Tokens /\ tok[c].grant \in Logins
  BY DEF CallShape, Tokens
<1>a. /\ gen' \in [Logins -> 0..MaxGen]
      /\ lost' \subseteq Logins
      /\ lost \subseteq lost'
      /\ \A x \in Logins : gen'[x] = gen[x] \/ x \in lost'
      /\ \A x \in Logins : gen[x] > 0 => gen'[x] > 0
  BY <1>0, OrphanEffect DEF TypeOK, TokenStoreTypeOK, tokenVars
<1>1. TypeOK'
  BY <1>0, <1>a DEF TypeOK, TokenStoreTypeOK, LoginFlowTypeOK, HandlerTypeOK, tokenVars,
         loginVars, nonceVars, flowVars, deleteVars, sessionVars
<1>2. CallShape' /\ LockInv'
  BY <1>0 DEF CallShape, LockInv, NoLeakedLock, LockOf, TypeOK, HandlerTypeOK
<1>3. SessionInv'
  BY <1>0 DEF SessionInv, Closed, sessionVars, TypeOK, HandlerTypeOK
<1>4. FlowInv' /\ PkceInv' /\ VerifierKept'
  BY <1>a, FlowFrame DEF loginVars, nonceVars, flowVars
<1>5. GrantInv'
  BY <1>0, <1>a
  DEF GrantInv, GrantedTo, FlowInv, TypeOK, TokenStoreTypeOK, HandlerTypeOK,
         LoginFlowTypeOK, Tokens, loginVars, nonceVars, tokenVars
<1>6. PendingInv'
  BY <1>0, <1>a
  DEF PendingInv, CallShape, FlowInv, TypeOK, HandlerTypeOK, LoginFlowTypeOK,
         Tokens, loginVars, nonceVars, flowVars, tokenVars
<1>7. RotationKept'
  BY <1>0, <1>a
  DEF RotationKept, Refreshable, TypeOK, HandlerTypeOK, TokenStoreTypeOK, Tokens,
         LockInv, LockOf, PendingInv, tokenVars
<1> QED
  BY <1>1, <1>2, <1>3, <1>4, <1>5, <1>6, <1>7

-----------------------------------------------------------------------------
(* The login endpoints.                                                     *)

LEMMA LoginStep ==
  ASSUME IInv, NEW l \in Logins, Login(l), UNCHANGED <<tokenVars, callVars, sessionVars>>
  PROVE  IInv'
<1> USE DEF IInv, Login, MakeState, StoreVerifier, tokenVars, callVars, sessionVars
<1>0. /\ owner[l] \in Slots
      /\ MakeState(owner[l][2], second) \in States
      /\ MakeState(owner[l][2], second) # None
  BY StateAssumption, SlotParts DEF FlowInv, TypeOK, LoginFlowTypeOK, States
<1>1. TypeOK'
  BY <1>0
  DEF TypeOK, TokenStoreTypeOK, LoginFlowTypeOK, HandlerTypeOK, deleteVars, Stages
<1>2. CallShape' /\ LockInv' /\ SessionInv'
  BY LockFrame, SessionFrame
<1>3. FlowInv' /\ PkceInv'
  BY <1>0, TokenStoreAssumption DEF FlowInv, PkceInv, TypeOK, LoginFlowTypeOK
<1>4. VerifierKept'
  BY <1>0, TokenStoreAssumption DEF FlowInv, VerifierKept, TypeOK, LoginFlowTypeOK
<1>5. GrantInv' /\ PendingInv' /\ RotationKept'
  BY DEF GrantInv, GrantedTo, PendingInv, RotationKept, Refreshable, TypeOK,
         LoginFlowTypeOK, Tokens, TokenStoreTypeOK, HandlerTypeOK
<1> QED
  BY <1>1, <1>2, <1>3, <1>4, <1>5

LEMMA CallbackBegins ==
  ASSUME IInv, NEW l \in Logins, Callback(l), UNCHANGED <<tokenVars, callVars, sessionVars>>
  PROVE  IInv'
<1> USE DEF IInv, Callback, ConsumeVerifier, tokenVars, callVars, sessionVars
<1> DEFINE st == stateOf[l]
           m  == pkce[st]
<1>0. st \in States /\ m \in Logins /\ stage[m] = "redirected" /\ stateOf[m] = st
  BY DEF PkceInv, TypeOK, LoginFlowTypeOK
<1>1. TypeOK'
  BY <1>0
  DEF TypeOK, TokenStoreTypeOK, LoginFlowTypeOK, HandlerTypeOK, deleteVars, Stages
<1>2. CallShape' /\ LockInv' /\ SessionInv'
  BY LockFrame, SessionFrame
<1>3. FlowInv' /\ PkceInv'
  BY <1>0 DEF FlowInv, PkceInv, TypeOK, LoginFlowTypeOK
<1>4. VerifierKept'
  BY <1>0 DEF VerifierKept, TypeOK, LoginFlowTypeOK
<1>5. GrantInv' /\ PendingInv' /\ RotationKept'
  BY <1>0 DEF GrantInv, GrantedTo, PendingInv, RotationKept, Refreshable, TypeOK,
         LoginFlowTypeOK, Tokens, TokenStoreTypeOK, HandlerTypeOK
<1> QED
  BY <1>1, <1>2, <1>3, <1>4, <1>5

LEMMA ExchangeOkStep ==
  ASSUME IInv, NEW m \in Logins, ExchangeOk(m), UNCHANGED <<callVars, sessionVars>>
  PROVE  IInv'
<1> USE DEF IInv, ExchangeOk, RedeemCode, callVars, sessionVars
<1>0. PICK issued \in {0, 1} :
        loginTok' = [loginTok EXCEPT ![m] = FromTokenResponse(m, issued, 0)]
  OBVIOUS
<1>a. /\ loginTok'[m] \in Tokens
      /\ loginTok'[m] # None
      /\ loginTok'[m].grant = m
      /\ loginTok'[m].gen \in {0, 1}
      /\ \A x \in Logins \ {m} : loginTok'[x] = loginTok[x]
  <2>1. issued \in 0..MaxGen /\ 0 \in 0..MaxGen
    BY TokenStoreAssumption
  <2> QED
    BY <1>0, <2>1, ResponseIsToken, TokenStoreAssumption DEF TypeOK, LoginFlowTypeOK
<1>b. gen'[m] = 1 /\ gen[m] = 0 /\ \A x \in Logins \ {m} : gen'[x] = gen[x]
  BY DEF TypeOK, TokenStoreTypeOK
<1>1. TypeOK'
  BY <1>0, <1>a, TokenStoreAssumption
     DEF TypeOK, TokenStoreTypeOK, LoginFlowTypeOK, HandlerTypeOK, deleteVars, Stages
<1>2. CallShape' /\ LockInv' /\ SessionInv'
  BY LockFrame, SessionFrame
<1>3. FlowInv' /\ PkceInv' /\ VerifierKept'
  BY <1>a, <1>b DEF FlowInv, PkceInv, VerifierKept, TypeOK, LoginFlowTypeOK
<1>4. GrantInv'
  BY <1>b
  DEF GrantInv, GrantedTo, TypeOK, LoginFlowTypeOK, TokenStoreTypeOK, HandlerTypeOK,
      Tokens
<1>5. PendingInv'
  BY <1>a, <1>b DEF PendingInv, GrantInv, GrantedTo, CallShape, TypeOK, LoginFlowTypeOK,
         TokenStoreTypeOK, HandlerTypeOK, Tokens
<1>6. RotationKept'
  BY <1>b
  DEF RotationKept, Refreshable, GrantInv, GrantedTo, TypeOK, TokenStoreTypeOK, Tokens
<1> QED
  BY <1>1, <1>2, <1>3, <1>4, <1>5, <1>6

LEMMA ExchangeFailsStep ==
  ASSUME IInv, NEW m \in Logins, ExchangeFails(m), UNCHANGED <<callVars, sessionVars>>
  PROVE  IInv'
<1> USE DEF IInv, ExchangeFails, RedeemCode, callVars, sessionVars
<1>a. /\ gen' \in [Logins -> 0..MaxGen]
      /\ \A x \in Logins : gen[x] > 0 => gen'[x] = gen[x]
  BY TokenStoreAssumption DEF TypeOK, TokenStoreTypeOK
<1>1. TypeOK'
  BY <1>a
  DEF TypeOK, TokenStoreTypeOK, LoginFlowTypeOK, HandlerTypeOK, deleteVars, Stages
<1>2. CallShape' /\ LockInv' /\ SessionInv'
  BY LockFrame, SessionFrame
<1>3. FlowInv' /\ PkceInv' /\ VerifierKept'
  BY <1>a DEF FlowInv, PkceInv, VerifierKept, TypeOK, LoginFlowTypeOK
<1>4. GrantInv'
  BY <1>a
  DEF GrantInv, GrantedTo, TypeOK, LoginFlowTypeOK, TokenStoreTypeOK, HandlerTypeOK,
      Tokens
<1>5. PendingInv'
  BY <1>a
  DEF PendingInv, GrantInv, GrantedTo, CallShape, FlowInv, TypeOK, LoginFlowTypeOK,
         TokenStoreTypeOK, HandlerTypeOK, Tokens
<1>6. RotationKept'
  BY <1>a
  DEF RotationKept, Refreshable, GrantInv, GrantedTo, TypeOK, TokenStoreTypeOK, Tokens
<1> QED
  BY <1>1, <1>2, <1>3, <1>4, <1>5, <1>6

LEMMA SaveLoginStep ==
  ASSUME IInv, NEW m \in Logins, SaveLogin(m), UNCHANGED <<callVars, sessionVars>>
  PROVE  IInv'
<1> USE DEF IInv, SaveLogin, Save, callVars, sessionVars
<1>0. /\ loginTok[m] \in Tokens
      /\ loginTok[m].grant = m
      /\ gen[m] > 0
      /\ Target(m) = owner[m]
      /\ owner[m] \in Slots
  BY SlotParts, TokenStoreAssumption DEF FlowInv, Target, TypeOK, LoginFlowTypeOK
<1>1. TypeOK'
  BY <1>0
  DEF TypeOK, TokenStoreTypeOK, LoginFlowTypeOK, HandlerTypeOK, deleteVars, Stages
<1>2. CallShape' /\ LockInv' /\ SessionInv'
  BY LockFrame, SessionFrame
<1>3. FlowInv' /\ PkceInv' /\ VerifierKept'
  BY <1>0 DEF FlowInv, PkceInv, VerifierKept, TypeOK, LoginFlowTypeOK
<1>4. GrantInv'
  BY <1>0
  DEF GrantInv, GrantedTo, TypeOK, LoginFlowTypeOK, TokenStoreTypeOK, HandlerTypeOK,
      Tokens
<1>5. PendingInv'
  BY DEF PendingInv, TypeOK, LoginFlowTypeOK
<1>6. RotationKept'
  BY <1>0 DEF RotationKept, Refreshable, PendingInv, TypeOK, TokenStoreTypeOK, Tokens
<1> QED
  BY <1>1, <1>2, <1>3, <1>4, <1>5, <1>6

LEMMA SaveLoginFailsStep ==
  ASSUME IInv, NEW m \in Logins, SaveLoginFails(m), UNCHANGED <<callVars, sessionVars>>
  PROVE  IInv'
<1> USE DEF IInv, SaveLoginFails, tokenVars, callVars, sessionVars
<1>1. TypeOK'
  BY DEF TypeOK, TokenStoreTypeOK, LoginFlowTypeOK, HandlerTypeOK, deleteVars, Stages
<1>2. CallShape' /\ LockInv' /\ SessionInv'
  BY LockFrame, SessionFrame
<1>3. FlowInv' /\ PkceInv' /\ VerifierKept'
  BY DEF FlowInv, PkceInv, VerifierKept, TypeOK, LoginFlowTypeOK
<1>4. GrantInv' /\ PendingInv' /\ RotationKept'
  BY DEF GrantInv, GrantedTo, PendingInv, RotationKept, Refreshable, TypeOK,
         LoginFlowTypeOK, Tokens, TokenStoreTypeOK, HandlerTypeOK
<1> QED
  BY <1>1, <1>2, <1>3, <1>4

-----------------------------------------------------------------------------
(* Deletions, expiries, the provider and the end of a session.              *)

\* Deleting a slot's tokens, or expiring them, takes nothing from the rest.
LEMMA StoreShrinks ==
  ASSUME IInv, NEW k \in Slots, store' = [store EXCEPT ![k] = None],
         UNCHANGED <<gen, lost, stage, owner, loginTok, epoch, pc, slot, tok>>
  PROVE  GrantInv' /\ PendingInv' /\ RotationKept'
BY DEF IInv, GrantInv, GrantedTo, PendingInv, RotationKept, Refreshable, TypeOK,
    TokenStoreTypeOK

LEMMA DeleteStep ==
  ASSUME IInv, NEW s \in Sessions, ManagementRequest(s) \/ ManagementStep(s)
  PROVE  IInv'
<1> USE DEF IInv, tokenVars, nonceVars, flowVars, callVars, sessionVars
<1>1. CASE ManagementRequest(s)
  <2>1. TypeOK'
    BY <1>1 DEF ManagementRequest, DeleteRequest, TypeOK, TokenStoreTypeOK,
           LoginFlowTypeOK, HandlerTypeOK
  <2> QED
    BY <1>1, <2>1, LockFrame, SessionFrame, FlowFrame, GrantFrame
       DEF ManagementRequest, DeleteRequest
<1>2. CASE \E sch \in Schemes : DeleteLook(s, sch) /\ UNCHANGED <<tokenVars, callVars, sessionVars>>
  <2>1. TypeOK'
    BY <1>2 DEF DeleteLook, TypeOK, TokenStoreTypeOK, LoginFlowTypeOK, HandlerTypeOK
  <2> QED
    BY <1>2, <2>1, LockFrame, SessionFrame, FlowFrame, GrantFrame DEF DeleteLook
<1>3. CASE DeleteFound(s) /\ UNCHANGED <<callVars, sessionVars>>
  <2>1. <<delHit[s], s>> \in Slots
    BY <1>3 DEF DeleteFound, Slots, TypeOK, LoginFlowTypeOK
  <2>2. TypeOK'
    BY <1>3, <2>1
    DEF DeleteFound, Delete, TypeOK, TokenStoreTypeOK, LoginFlowTypeOK, HandlerTypeOK
  <2>3. GrantInv' /\ PendingInv' /\ RotationKept'
    BY <1>3, <2>1, StoreShrinks, GrantFrame DEF DeleteFound, Delete
  <2> QED
    BY <1>3, <2>2, <2>3, LockFrame, SessionFrame, FlowFrame DEF DeleteFound
<1> QED
  BY <1>1, <1>2, <1>3 DEF ManagementStep

LEMMA PurgeStep ==
  ASSUME IInv, NEW s \in Sessions, NEW sch \in Schemes, Purge(s, sch)
  PROVE  IInv'
<1> USE DEF IInv, Purge, loginVars, nonceVars, flowVars, deleteVars, callVars
<1>1. <<sch, s>> \in Slots
  BY DEF Slots
<1>2. TypeOK'
  BY <1>1 DEF Delete, TypeOK, TokenStoreTypeOK, LoginFlowTypeOK, HandlerTypeOK
<1>3. GrantInv' /\ PendingInv' /\ RotationKept'
  BY <1>1, StoreShrinks, GrantFrame DEF Delete
<1>4. SessionInv'
  BY DEF SessionInv, Closed, CallsOf, TypeOK
<1> QED
  BY <1>2, <1>3, <1>4, LockFrame, FlowFrame

LEMMA DisconnectStep ==
  ASSUME IInv, NEW s \in Sessions, Disconnect(s)
  PROVE  IInv'
<1> USE
  DEF IInv, Disconnect, tokenVars, loginVars, nonceVars, flowVars, deleteVars, callVars
<1>1. TypeOK'
  BY DEF TypeOK, TokenStoreTypeOK, LoginFlowTypeOK, HandlerTypeOK
<1>2. SessionInv'
  BY SlotParts DEF SessionInv, Closed, CallShape, TypeOK
<1> QED
  BY <1>1, <1>2, LockFrame, FlowFrame, GrantFrame

LEMMA RevokeStep ==
  ASSUME IInv, NEW l \in Logins, Revoke(l)
  PROVE  IInv'
<1> USE
  DEF IInv, Revoke, loginVars, nonceVars, flowVars, deleteVars, callVars, sessionVars
<1>a. /\ gen' \in [Logins -> 0..MaxGen]
      /\ lost' \subseteq Logins
      /\ lost \subseteq lost'
      /\ \A x \in Logins : gen'[x] = gen[x] \/ x \in lost'
      /\ \A x \in Logins : gen[x] > 0 => gen'[x] > 0
  BY OrphanEffect DEF TypeOK
<1>1. TypeOK'
  BY <1>a DEF TypeOK, TokenStoreTypeOK, LoginFlowTypeOK, HandlerTypeOK
<1>2. GrantInv' /\ PendingInv' /\ RotationKept'
  BY <1>a DEF GrantInv, GrantedTo, PendingInv, RotationKept, CallShape, Refreshable,
         Tokens, TypeOK, TokenStoreTypeOK, HandlerTypeOK
<1> QED
  BY <1>a, <1>1, <1>2, LockFrame, SessionFrame, FlowFrame

LEMMA ClockStep ==
  ASSUME IInv, Clock
  PROVE  IInv'
<1> USE
  DEF IInv, tokenVars, loginVars, nonceVars, flowVars, deleteVars, callVars, sessionVars
<1>1. ASSUME NEW k \in Slots, ExpireTokens(k), UNCHANGED <<loginVars, callVars, sessionVars>>
      PROVE  IInv'
  <2> USE <1>1 DEF ExpireTokens, Usable
  <2>1. /\ store[k] \in Tokens
        /\ store'[k] \in Tokens
        /\ store'[k].grant = store[k].grant
        /\ store'[k].gen = store[k].gen
        /\ \A x \in Slots \ {k} : store'[x] = store[x]
    BY DEF TypeOK, TokenStoreTypeOK, Tokens
  <2>2. TypeOK'
    BY <2>1 DEF TypeOK, TokenStoreTypeOK, LoginFlowTypeOK, HandlerTypeOK
  <2>3. GrantInv' /\ PendingInv' /\ RotationKept'
    BY <2>1 DEF GrantInv, GrantedTo, PendingInv, RotationKept, Refreshable, TypeOK,
        TokenStoreTypeOK
  <2> QED
    BY <2>2, <2>3, LockFrame, SessionFrame, FlowFrame
<1>2. ASSUME NEW k \in Slots, ExpireLock(k), UNCHANGED sessionVars
      PROVE  IInv'
  <2> USE <1>2 DEF ExpireLock
  <2>1. TypeOK'
    BY HandlerAssumption DEF TypeOK, TokenStoreTypeOK, LoginFlowTypeOK, HandlerTypeOK
  <2>2. CallShape' /\ LockInv'
    BY DEF CallShape, LockInv, NoLeakedLock, LockOf, TypeOK, HandlerTypeOK
  <2>3. GrantInv' /\ PendingInv' /\ RotationKept'
    BY DEF GrantInv, GrantedTo, PendingInv, RotationKept, TypeOK, HandlerTypeOK
  <2> QED
    BY <2>1, <2>2, <2>3, SessionFrame, FlowFrame
<1>3. ASSUME NEW l \in Logins, ExpireNonce(l), UNCHANGED <<tokenVars, callVars, sessionVars>>
      PROVE  IInv'
  <2> USE <1>3 DEF ExpireNonce
  <2>1. TypeOK'
    BY DEF TypeOK, TokenStoreTypeOK, LoginFlowTypeOK, HandlerTypeOK, Stages
  <2>2. FlowInv' /\ PkceInv' /\ VerifierKept'
    BY DEF FlowInv, PkceInv, VerifierKept, TypeOK, LoginFlowTypeOK
  <2>3. GrantInv' /\ PendingInv' /\ RotationKept'
    BY DEF GrantInv, GrantedTo, PendingInv, RotationKept, Refreshable, TypeOK,
           LoginFlowTypeOK, TokenStoreTypeOK, HandlerTypeOK, Tokens
  <2> QED
    BY <2>1, <2>2, <2>3, LockFrame, SessionFrame
<1>4. ASSUME NEW st \in States, ExpireVerifier(st), UNCHANGED <<tokenVars, callVars, sessionVars>>
      PROVE  IInv'
  <2> USE <1>4 DEF ExpireVerifier
  <2>0. pkce[st] \in Logins /\ stage[pkce[st]] = "redirected" /\ stateOf[pkce[st]] = st
    BY DEF PkceInv, TypeOK, LoginFlowTypeOK
  <2>1. TypeOK'
    BY DEF TypeOK, TokenStoreTypeOK, LoginFlowTypeOK, HandlerTypeOK, Stages
  <2>2. FlowInv' /\ PkceInv' /\ VerifierKept'
    BY <2>0 DEF FlowInv, PkceInv, VerifierKept, TypeOK, LoginFlowTypeOK
  <2>3. GrantInv' /\ PendingInv' /\ RotationKept'
    BY <2>0 DEF GrantInv, GrantedTo, PendingInv, RotationKept, Refreshable, TypeOK,
           LoginFlowTypeOK, TokenStoreTypeOK, HandlerTypeOK, Tokens
  <2> QED
    BY <2>1, <2>2, <2>3, LockFrame, SessionFrame
<1>5. ASSUME NextSecond, UNCHANGED <<tokenVars, callVars, sessionVars>>
      PROVE  IInv'
  <2>1. TypeOK'
    BY <1>5, LoginFlowAssumption
       DEF NextSecond, TypeOK, TokenStoreTypeOK, LoginFlowTypeOK, HandlerTypeOK
  <2> QED
    BY <1>5, <2>1, LockFrame, SessionFrame, FlowFrame, GrantFrame DEF NextSecond
<1> QED
  BY <1>1, <1>2, <1>3, <1>4, <1>5 DEF Clock

-----------------------------------------------------------------------------
(* The results.                                                             *)

LEMMA StepIInv == IInv /\ [Next]_vars => IInv'
<1> SUFFICES ASSUME IInv, [Next]_vars PROVE IInv'
  OBVIOUS
<1>1. CASE UNCHANGED vars
  <2> USE <1>1 DEF IInv, vars, tokenVars, loginVars, nonceVars, flowVars, deleteVars,
                   callVars, sessionVars
  <2>1. TypeOK'
    BY DEF TypeOK, TokenStoreTypeOK, LoginFlowTypeOK, HandlerTypeOK
  <2> QED
    BY <2>1, LockFrame, SessionFrame, FlowFrame, GrantFrame
<1>2. ASSUME NEW c \in Calls, NEW k \in Slots, StartCall(c, k)
      PROVE  IInv'
  BY <1>2, EnterApplyStep
<1>3. ASSUME NEW c \in Calls, TakeLock(c) \/ CallStep(c) \/ CancelCall(c)
      PROVE  IInv'
  BY <1>3, AcquireStep, ReadUsableStep, ReadRefreshableStep, ReadUnusableStep,
     RefreshOkStep, RefreshFailsStep, SaveRefreshedStep, StoreErrorStep, CancelStep
     DEF CallStep
<1>4. ASSUME NEW l \in Logins, Browse(l) \/ CallbackStep(l) \/ Revoke(l)
      PROVE  IInv'
  BY <1>4, LoginStep, CallbackBegins, ExchangeOkStep, ExchangeFailsStep,
     SaveLoginStep, SaveLoginFailsStep, RevokeStep
     DEF Browse, CallbackStep
<1>5. ASSUME NEW s \in Sessions,
             Disconnect(s) \/ ManagementRequest(s) \/ ManagementStep(s)
      PROVE  IInv'
  BY <1>5, DisconnectStep, DeleteStep
<1>6. ASSUME NEW s \in Sessions, NEW sch \in Schemes, Purge(s, sch)
      PROVE  IInv'
  BY <1>6, PurgeStep
<1>7. CASE Clock
  BY <1>7, ClockStep
<1> QED
  BY <1>1, <1>2, <1>3, <1>4, <1>5, <1>6, <1>7 DEF Next

(* IInv holds throughout: the basis of every result below.                  *)
THEOREM Invariance == Spec => []IInv
BY InitIInv, StepIInv, PTL DEF Spec

(* Every variable keeps its type, whatever the interleaving.                *)
THEOREM TypeCorrect == Spec => []TypeOK
<1>1. IInv => TypeOK
  BY DEF IInv
<1> QED
  BY Invariance, <1>1, PTL

(* No session lock leaks: not on an error of the store, not on a cancelled  *)
(* await, not on a failed refresh.                                          *)
THEOREM LocksAreReleased == Spec => []NoLeakedLock
<1>1. IInv => NoLeakedLock
  BY DEF IInv, LockInv
<1> QED
  BY Invariance, <1>1, PTL

(* Two calls are between the read and the save of one slot only with        *)
(* different lock objects, one of them dropped by the cache.                *)
THEOREM OneRefreshPerLock == Spec => []RefreshExclusion
<1>1. IInv => RefreshExclusion
  <2> SUFFICES ASSUME IInv, NEW c \in Calls, NEW d \in Calls, c # d, pc[c] \in Critical,
                      pc[d] \in Critical, slot[c] = slot[d]
               PROVE  lock[c] # lock[d] /\ epoch[slot[c]] > 0
    BY DEF RefreshExclusion
  <2>1. lock[c] # lock[d]
    BY DEF IInv, LockInv, LockOf
  <2>2. slot[c] \in Slots /\ lock[c] <= epoch[slot[c]] /\ lock[d] <= epoch[slot[c]]
    BY DEF IInv, LockInv, CallShape, Active
  <2> QED
    BY <2>1, <2>2, HandlerAssumption DEF IInv, TypeOK, HandlerTypeOK
<1> QED
  BY Invariance, <1>1, PTL

(* No tokens of one session or scheme ever reach another's row, tool call   *)
(* or callback.                                                             *)
THEOREM SessionsAreIsolated == Spec => []SessionIsolation
<1>1. IInv => SessionIsolation
  <2> SUFFICES ASSUME IInv PROVE SessionIsolation
    OBVIOUS
  <2>1. ASSUME NEW m \in Logins, loginTok[m] # None
        PROVE  owner[loginTok[m].grant] = Target(m)
    <3>1. owner[m] \in Slots /\ stateOf[m].session = owner[m][2] /\ loginTok[m].grant = m
      BY <2>1 DEF IInv, FlowInv, TypeOK, LoginFlowTypeOK
    <3> QED
      BY <3>1, SlotParts DEF Target
  <2> QED
    BY <2>1 DEF SessionIsolation, IInv, GrantInv, GrantedTo
<1> QED
  BY Invariance, <1>1, PTL

(* While a slot keeps its lock object, its stored refresh token falls behind*)
(* the provider only by a revocation, a lost reply or a failed save.        *)
THEOREM RotationIsKept == Spec => []RotationKept
<1>1. IInv => RotationKept
  BY DEF IInv
<1> QED
  BY Invariance, <1>1, PTL

(* A pending login keeps its verifier unless one of the same session and    *)
(* second took its state.                                                   *)
THEOREM VerifiersAreKept == Spec => []VerifierKept
<1>1. IInv => VerifierKept
  BY DEF IInv
<1> QED
  BY Invariance, <1>1, PTL

(* A login link, its verifier and its callback work once, however often they*)
(* are replayed: no step takes a login back.                                *)
THEOREM LoginsAdvance == Spec => LoginsOnlyAdvance
<1>1. IInv /\ [Next]_vars => [LoginAdvance]_vars
  <2> SUFFICES ASSUME IInv, Next PROVE LoginAdvance
    OBVIOUS
  <2> USE DEF LoginAdvance, TypeOK, LoginFlowTypeOK, loginVars, nonceVars
  <2>1. ASSUME NEW c \in Calls, ReadUnusable(c) \/ RefreshFails(c)
        PROVE  LoginAdvance
    BY <2>1 DEF IInv, ReadUnusable, RefreshFails, IssueNonce, Fresh
  <2>2. ASSUME NEW l \in Logins, Login(l) \/ ExpireNonce(l)
        PROVE  LoginAdvance
    BY <2>2 DEF IInv, Login, ExpireNonce
  <2>3. ASSUME NEW l \in Logins, Callback(l)
        PROVE  LoginAdvance
    BY <2>3 DEF IInv, PkceInv, Callback
  <2>4. ASSUME NEW m \in Logins,
               ExchangeOk(m) \/ ExchangeFails(m) \/ SaveLogin(m) \/ SaveLoginFails(m)
        PROVE  LoginAdvance
    BY <2>4 DEF IInv, ExchangeOk, ExchangeFails, SaveLogin, SaveLoginFails
  <2>5. ASSUME NEW st \in States, ExpireVerifier(st)
        PROVE  LoginAdvance
    BY <2>5 DEF IInv, PkceInv, ExpireVerifier
  <2>6. CASE UNCHANGED stage
    BY <2>6
  <2>7. \/ UNCHANGED stage
        \/ \E c \in Calls : ReadUnusable(c) \/ RefreshFails(c)
        \/ \E l \in Logins : Login(l) \/ ExpireNonce(l) \/ Callback(l)
        \/ \E m \in Logins :
             ExchangeOk(m) \/ ExchangeFails(m) \/ SaveLogin(m) \/ SaveLoginFails(m)
        \/ \E st \in States : ExpireVerifier(st)
    BY DEF Next, StartCall, EnterApply, TakeLock, Acquire, CallStep, ReadUsable,
           ReadRefreshable, RefreshOk, SaveRefreshed, StoreError, CancelCall, Cancel,
           Browse, CallbackStep, Revoke, Disconnect, ManagementRequest, DeleteRequest,
           ManagementStep, DeleteLook, DeleteFound, Purge, Clock, ExpireTokens,
           ExpireLock, NextSecond
  <2> QED
    BY <2>1, <2>2, <2>3, <2>4, <2>5, <2>6, <2>7
<1> QED
  BY Invariance, <1>1, PTL DEF Spec, LoginsOnlyAdvance

(* A deleted row comes back only by a login's save or by the save of a      *)
(* refresh that was running, and never by a refresh once the session's      *)
(* purge is complete.                                                       *)
THEOREM ResurrectionIsExplained == Spec => NoResurrection
<1>1. IInv /\ [Next]_vars => [ResurrectionExplained]_vars
  <2> SUFFICES ASSUME IInv, Next, NEW k \in Slots, Resurrected(k)
               PROVE  \/ \E m \in Logins : stage[m] = "saving" /\ Target(m) = k
                      \/ /\ ~Closed(k[2])
                         /\ \E c \in Calls : /\ pc[c] = "saving" /\ slot[c] = k
                                             /\ tok[c] = store'[k]
    BY DEF ResurrectionExplained
  <2> USE DEF Resurrected, TypeOK, TokenStoreTypeOK, loginVars, tokenVars
  <2>1. ASSUME NEW c \in Calls, SaveRefreshed(c) \/ Cancel(c)
        PROVE  /\ pc[c] = "saving" /\ slot[c] = k /\ tok[c] = store'[k]
               /\ ~Closed(k[2])
    BY <2>1 DEF IInv, SaveRefreshed, Cancel, Save, SessionInv, Active, Critical
  <2>2. ASSUME NEW m \in Logins, SaveLogin(m)
        PROVE  stage[m] = "saving" /\ Target(m) = k
    BY <2>2 DEF IInv, SaveLogin, Save
  <2>3. ASSUME NEW j \in Slots,
               store' = [store EXCEPT ![j] = None] \/ ExpireTokens(j)
        PROVE  FALSE
    BY <2>3 DEF IInv, ExpireTokens, Usable
  <2>4. CASE UNCHANGED store
    BY <2>4
  <2>5. \/ UNCHANGED store
        \/ \E c \in Calls : SaveRefreshed(c) \/ Cancel(c)
        \/ \E m \in Logins : SaveLogin(m)
        \/ \E j \in Slots : store' = [store EXCEPT ![j] = None] \/ ExpireTokens(j)
    <3>1. ASSUME NEW s \in Sessions, NEW sch \in Schemes, Purge(s, sch)
          PROVE  UNCHANGED store \/ \E j \in Slots : store' = [store EXCEPT ![j] = None]
      BY <3>1 DEF Purge, Delete, Slots
    <3>2. ASSUME NEW s \in Sessions, DeleteFound(s)
          PROVE  UNCHANGED store \/ \E j \in Slots : store' = [store EXCEPT ![j] = None]
      BY <3>2 DEF IInv, LoginFlowTypeOK, DeleteFound, Delete, Slots
    <3> QED
      BY <3>1, <3>2
         DEF Next, StartCall, EnterApply, TakeLock, Acquire, CallStep, ReadUsable,
             ReadRefreshable, ReadUnusable, RefreshOk, RefreshFails, StoreError,
             CancelCall,
             Browse, CallbackStep, ExchangeOk, ExchangeFails, SaveLoginFails, Revoke,
             Disconnect, ManagementRequest, ManagementStep, Clock, ExpireLock
  <2> QED
    BY <2>1, <2>2, <2>3, <2>4, <2>5
<1> QED
  BY Invariance, <1>1, PTL DEF Spec, NoResurrection
=============================================================================
