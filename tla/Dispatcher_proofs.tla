-------------------------- MODULE Dispatcher_proofs --------------------------
(***************************************************************************)
(* The safety properties of Dispatcher and its refinement of SingleFlight, *)
(* for any number of calls, tokens and attempts.                           *)
(***************************************************************************)
EXTENDS Dispatcher, TLAPS

\* Tokens are numbered as they are issued.
IssueInv ==
  /\ cache <= issued
  /\ \A c \in Calls : bearer[c] <= issued /\ rejected[c] <= issued

\* In its second round a call finds the cache empty or newer than what it
\* rejected, so that is what it sends with.
RetryInv ==
  \A c \in Calls : round[c] = 2 =>
    /\ pc[c] \in Injecting => cache = 0 \/ cache > rejected[c]
    /\ pc[c] = "sending" => bearer[c] > rejected[c]

\* Requests sent before the current attempt of a call under way.
SendInv ==
  \A c \in Calls : pc[c] \in Active =>
    /\ sends[c] < attempt[c] + (IF round[c] = 1 THEN 0 ELSE MaxAttempts)
    /\ streams[c] => round[c] = 1 /\ attempt[c] = 1

IInv ==
  /\ TypeOK
  /\ OneFetch
  /\ IssueInv
  /\ RetryInv
  /\ SendInv
  /\ SendsAreBounded

LEMMA InitIInv == Init => IInv
  BY TokenCacheAssumption, DispatcherAssumption
  DEF Init, TokenCacheInit, IInv, TypeOK, TokenCacheTypeOK, OneFetch, IssueInv,
      RetryInv, SendInv, SendsAreBounded, Active, Injecting, Resting

-----------------------------------------------------------------------------
(* One lemma per action. *)

LEMMA DispatchIInv ==
  ASSUME IInv, NEW c \in Calls, Dispatch(c)
  PROVE  IInv'
<1> USE DEF Dispatch, End, Active, Injecting, Resting
<1>1. TypeOK'
  <2>1. streams' \in [Calls -> BOOLEAN]
    <3>1. PICK b \in BOOLEAN : streams' = [streams EXCEPT ![c] = b] OBVIOUS
    <3> QED BY <3>1, Zenon DEF IInv, TypeOK
  <2>2. /\ round' \in [Calls -> {1, 2}]
        /\ attempt' \in [Calls -> 1..MaxAttempts]
        /\ sends' \in [Calls -> Nat]
        /\ rejected' \in [Calls -> 0..MaxTokens]
    BY TokenCacheAssumption, DispatcherAssumption DEF IInv, TypeOK
  <2>3. TokenCacheTypeOK' /\ revoked' \subseteq 1..MaxTokens
    BY DEF IInv, TypeOK, TokenCacheTypeOK
  <2> QED BY <2>1, <2>2, <2>3 DEF TypeOK
<1>2. OneFetch'
  BY DEF IInv, TypeOK, TokenCacheTypeOK, OneFetch
<1>3. IssueInv'
  BY DEF IInv, TypeOK, TokenCacheTypeOK, IssueInv
<1>4. RetryInv'
  BY DEF IInv, TypeOK, TokenCacheTypeOK, RetryInv
<1>5. SendInv'
  BY DispatcherAssumption DEF IInv, TypeOK, TokenCacheTypeOK, SendInv
<1>6. SendsAreBounded'
  BY DispatcherAssumption DEF IInv, TypeOK, TokenCacheTypeOK, SendsAreBounded
<1> QED BY <1>1, <1>2, <1>3, <1>4, <1>5, <1>6 DEF IInv

LEMMA InjectIInv ==
  ASSUME IInv, NEW c \in Calls, InjectStep(c)
  PROVE  IInv'
<1> USE DEF IInv, TypeOK, TokenCacheTypeOK, callVars, Active, Injecting, Resting
<1>1. CASE GetCached(c)
  <2> USE <1>1 DEF InjectStep, GetCached, Valid
  <2>1. TypeOK' OBVIOUS
  <2>2. OneFetch' BY TokenCacheAssumption DEF OneFetch
  <2>3. IssueInv' BY DEF IssueInv
  <2>4. RetryInv' BY DEF RetryInv
  <2>5. SendInv' /\ SendsAreBounded' BY DEF SendInv, SendsAreBounded
  <2> QED BY <2>1, <2>2, <2>3, <2>4, <2>5
<1>2. CASE BeginFetch(c)
  <2> USE <1>2 DEF InjectStep, BeginFetch
  <2>1. TypeOK' OBVIOUS
  <2>2. OneFetch' BY TokenCacheAssumption DEF OneFetch
  <2>3. IssueInv' BY DEF IssueInv
  <2>4. RetryInv' BY DEF RetryInv
  <2>5. SendInv' /\ SendsAreBounded' BY DEF SendInv, SendsAreBounded
  <2> QED BY <2>1, <2>2, <2>3, <2>4, <2>5
<1>3. CASE FetchOk(c)
  <2> USE <1>3 DEF InjectStep, FetchOk
  <2>1. TypeOK' BY TokenCacheAssumption
  <2>2. OneFetch' BY TokenCacheAssumption DEF OneFetch
  <2>3. IssueInv' BY DEF IssueInv
  <2>4. RetryInv' BY DEF RetryInv, IssueInv
  <2>5. SendInv' /\ SendsAreBounded' BY DEF SendInv, SendsAreBounded
  <2> QED BY <2>1, <2>2, <2>3, <2>4, <2>5
<1>4. CASE FetchFails(c)
  <2> USE <1>4 DEF InjectStep, FetchFails
  <2>1. TypeOK' OBVIOUS
  <2>2. OneFetch' BY TokenCacheAssumption DEF OneFetch
  <2>3. IssueInv' BY DEF IssueInv
  <2>4. RetryInv' BY DEF RetryInv
  <2>5. SendInv' /\ SendsAreBounded' BY DEF SendInv, SendsAreBounded
  <2> QED BY <2>1, <2>2, <2>3, <2>4, <2>5
<1> QED BY <1>1, <1>2, <1>3, <1>4 DEF InjectStep

\* The ends of a request that leave the cache alone.
SendEnds(c) == SendOk(c) \/ SendFails(c) \/ SendUnauthorized(c)

LEMMA SendEndsIInv ==
  ASSUME IInv, NEW c \in Calls, SendEnds(c)
  PROVE  IInv'
<1> USE DEF IInv, TypeOK, TokenCacheTypeOK, Active, Injecting, Resting
<1>1. /\ pc[c] = "sending"
      /\ pc' \in {[pc EXCEPT ![c] = r] : r \in Resting}
      /\ sends' = [sends EXCEPT ![c] = @ + 1]
      /\ UNCHANGED <<cache, expired, issued, holder, bearer, round, attempt,
                     streams, revoked, rejected>>
  BY DEF SendEnds, SendOk, SendFails, SendUnauthorized, Sent, End
<1>2. TypeOK' BY <1>1
<1>3. OneFetch' BY <1>1 DEF OneFetch
<1>4. IssueInv' BY <1>1 DEF IssueInv
<1>5. RetryInv' BY <1>1 DEF RetryInv
<1>6. SendInv' BY <1>1 DEF SendInv
<1>7. SendsAreBounded'
  BY <1>1, DispatcherAssumption DEF SendInv, SendsAreBounded
<1> QED BY <1>2, <1>3, <1>4, <1>5, <1>6, <1>7

LEMMA SendAgainIInv ==
  ASSUME IInv, NEW c \in Calls, SendAgain(c)
  PROVE  IInv'
<1> USE DEF IInv, TypeOK, TokenCacheTypeOK, SendAgain, Sent, cacheVars, Active,
            Injecting, Resting
<1>1. TypeOK' BY DispatcherAssumption
<1>2. OneFetch' BY DEF OneFetch
<1>3. IssueInv' BY DEF IssueInv
<1>4. RetryInv' BY DEF RetryInv
<1>5. SendInv' BY DispatcherAssumption DEF SendInv
<1>6. SendsAreBounded' BY DispatcherAssumption DEF SendInv, SendsAreBounded
<1> QED BY <1>1, <1>2, <1>3, <1>4, <1>5, <1>6

LEMMA SendRejectedIInv ==
  ASSUME IInv, NEW c \in Calls, SendRejected(c)
  PROVE  IInv'
<1> USE DEF IInv, TypeOK, TokenCacheTypeOK, SendRejected, Sent, End, Invalidate,
            Active, Injecting, Resting
<1>1. TypeOK' BY TokenCacheAssumption, DispatcherAssumption
<1>2. OneFetch' BY DEF OneFetch
<1>3. IssueInv' BY DEF IssueInv
<1>4. RetryInv' BY DEF RetryInv
<1>5. SendInv' BY DispatcherAssumption DEF SendInv
<1>6. SendsAreBounded' BY DispatcherAssumption DEF SendInv, SendsAreBounded
<1> QED BY <1>1, <1>2, <1>3, <1>4, <1>5, <1>6

LEMMA CancelIInv ==
  ASSUME IInv, NEW c \in Calls, Cancel(c)
  PROVE  IInv'
<1> USE DEF IInv, TypeOK, TokenCacheTypeOK, Cancel, End, callVars, Active,
            Injecting, Resting
<1>1. TypeOK' OBVIOUS
<1>2. OneFetch' BY TokenCacheAssumption DEF OneFetch
<1>3. IssueInv' BY DEF IssueInv
<1>4. RetryInv' BY DEF RetryInv
<1>5. SendInv' /\ SendsAreBounded' BY DEF SendInv, SendsAreBounded
<1> QED BY <1>1, <1>2, <1>3, <1>4, <1>5

\* Time passes, or the upstream revokes a token, or nothing happens.
Outside ==
  \/ ExpireToken /\ UNCHANGED <<callVars, revoked>>
  \/ Revoke
  \/ UNCHANGED vars

LEMMA OutsideIInv == IInv /\ Outside => IInv'
<1> SUFFICES ASSUME IInv, Outside PROVE IInv'
  OBVIOUS
<1>1. /\ expired' \subseteq 1..MaxTokens
      /\ revoked' \subseteq 1..MaxTokens
      /\ UNCHANGED <<cache, issued, holder, pc, bearer, callVars>>
  <2> USE TokenCacheAssumption DEF IInv, TypeOK, TokenCacheTypeOK, callVars, cacheVars
  <2>1. CASE ExpireToken /\ UNCHANGED <<callVars, revoked>>
    BY <2>1 DEF ExpireToken, Valid
  <2>2. CASE Revoke
    <3>1. PICK t \in 1..issued : revoked' = revoked \cup {t}
      BY <2>2 DEF Revoke
    <3>2. t \in 1..MaxTokens
      OBVIOUS
    <3> QED BY <2>2, <3>1, <3>2 DEF Revoke
  <2>3. CASE UNCHANGED vars
    BY <2>3 DEF vars
  <2> QED BY <2>1, <2>2, <2>3 DEF Outside
<1> QED
  BY <1>1 DEF IInv, callVars, TypeOK, TokenCacheTypeOK, OneFetch, IssueInv,
              RetryInv, SendInv, SendsAreBounded

LEMMA StepIInv == IInv /\ [Next]_vars => IInv'
<1> SUFFICES ASSUME IInv, [Next]_vars PROVE IInv'
  OBVIOUS
<1>1. ASSUME NEW c \in Calls, Dispatch(c) PROVE IInv'
  BY <1>1, DispatchIInv
<1>2. ASSUME NEW c \in Calls, InjectStep(c) PROVE IInv'
  BY <1>2, InjectIInv
<1>3. ASSUME NEW c \in Calls, SendStep(c) PROVE IInv'
  BY <1>3, SendEndsIInv, SendAgainIInv, SendRejectedIInv DEF SendStep, SendEnds
<1>4. ASSUME NEW c \in Calls, Cancel(c) PROVE IInv'
  BY <1>4, CancelIInv
<1>5. CASE Outside
  BY <1>5, OutsideIInv
<1> QED BY <1>1, <1>2, <1>3, <1>4, <1>5 DEF Next, Outside

THEOREM Invariance == Spec => []IInv
  BY InitIInv, StepIInv, PTL DEF Spec

-----------------------------------------------------------------------------

(* Every variable keeps its type, for any number of calls and tokens.       *)
THEOREM TypeCorrect == Spec => []TypeOK
<1>1. IInv => TypeOK BY DEF IInv
<1> QED BY <1>1, Invariance, PTL

(* The lock of get_or_refresh is held exactly while its holder fetches:     *)
(* fetches exclude each other and no exception or cancellation leaks it.    *)
THEOREM FetchesExclude == Spec => []OneFetch
<1>1. IInv => OneFetch BY DEF IInv
<1> QED BY <1>1, Invariance, PTL

(* The request after a 401 never repeats the rejected token.                *)
THEOREM RetriesUseNewerTokens == Spec => []RetryUsesNewerToken
<1>1. IInv => RetryUsesNewerToken BY DEF IInv, RetryInv, RetryUsesNewerToken
<1> QED BY <1>1, Invariance, PTL

(* A call sends at most two rounds of attempts, a streamed one one request. *)
THEOREM SendsStayBounded == Spec => []SendsAreBounded
<1>1. IInv => SendsAreBounded BY DEF IInv
<1> QED BY <1>1, Invariance, PTL

-----------------------------------------------------------------------------
(* Refinement. *)

LEMMA InitImplements == Init => Abstract!Init
  BY DEF Init, TokenCacheInit, Valid, Injecting, Abstract!Init

\* Shorthand for the leaves below.
AbstractStep == Abstract!Next \/ UNCHANGED Abstract!vars

LEMMA DispatchImplements ==
  ASSUME IInv, NEW c \in Calls, Dispatch(c)
  PROVE  Abstract!Ask(c)
  BY DEF Dispatch, End, Valid, IInv, TypeOK, TokenCacheTypeOK, Injecting, Resting,
         Abstract!Ask

LEMMA InjectImplements ==
  ASSUME IInv, NEW c \in Calls, InjectStep(c)
  PROVE  Abstract!Answer(c) \/ Abstract!Begin \/ Abstract!Finish(c) \/ Abstract!GiveUp(c)
<1> USE TokenCacheAssumption
    DEF IInv, TypeOK, TokenCacheTypeOK, Injecting, Valid, OneFetch
<1>1. CASE GetCached(c)
  BY <1>1 DEF GetCached, Abstract!Answer
<1>2. CASE BeginFetch(c)
  BY <1>2 DEF BeginFetch, Abstract!Begin
<1>3. CASE FetchOk(c)
  BY <1>3 DEF FetchOk, Abstract!Finish
<1>4. CASE FetchFails(c)
  BY <1>4 DEF FetchFails, Abstract!GiveUp
<1> QED BY <1>1, <1>2, <1>3, <1>4 DEF InjectStep

LEMMA SendImplements ==
  ASSUME IInv, NEW c \in Calls, SendStep(c)
  PROVE  Abstract!Ask(c) \/ UNCHANGED Abstract!vars
<1> USE DEF IInv, TypeOK, TokenCacheTypeOK, Injecting, Valid, Sent, End
<1>1. CASE SendOk(c) \/ SendFails(c) \/ SendUnauthorized(c)
  BY <1>1 DEF SendOk, SendFails, SendUnauthorized, Abstract!vars
<1>2. CASE SendAgain(c)
  BY <1>2 DEF SendAgain, cacheVars, Abstract!vars
<1>3. CASE SendRejected(c)
  BY <1>3 DEF SendRejected, Invalidate, Abstract!Ask
<1> QED BY <1>1, <1>2, <1>3 DEF SendStep

LEMMA CancelImplements ==
  ASSUME IInv, NEW c \in Calls, Cancel(c)
  PROVE  Abstract!GiveUp(c) \/ UNCHANGED Abstract!vars
<1> USE TokenCacheAssumption
    DEF IInv, TypeOK, TokenCacheTypeOK, Injecting, Active, Valid, Cancel, End, OneFetch
<1>1. CASE pc[c] \in Injecting
  BY <1>1 DEF Abstract!GiveUp
<1>2. CASE pc[c] = "sending"
  BY <1>2 DEF Abstract!vars
<1> QED BY <1>1, <1>2

LEMMA OutsideImplements == IInv /\ Outside => Abstract!Drop \/ UNCHANGED Abstract!vars
<1> SUFFICES ASSUME IInv, Outside PROVE Abstract!Drop \/ UNCHANGED Abstract!vars
  OBVIOUS
<1>1. CASE ExpireToken
  BY <1>1 DEF ExpireToken, Valid, Abstract!Drop
<1>2. CASE Revoke \/ UNCHANGED vars
  BY <1>2 DEF Revoke, vars, cacheVars, Valid, Abstract!vars
<1> QED BY <1>1, <1>2 DEF Outside

LEMMA StepImplements == IInv /\ [Next]_vars => [Abstract!Next]_Abstract!vars
<1> SUFFICES ASSUME IInv, [Next]_vars PROVE AbstractStep
  BY DEF AbstractStep
<1> USE DEF AbstractStep, Abstract!Next
<1>1. ASSUME NEW c \in Calls, Dispatch(c) PROVE AbstractStep
  BY <1>1, DispatchImplements
<1>2. ASSUME NEW c \in Calls, InjectStep(c) PROVE AbstractStep
  BY <1>2, InjectImplements
<1>3. ASSUME NEW c \in Calls, SendStep(c) PROVE AbstractStep
  BY <1>3, SendImplements
<1>4. ASSUME NEW c \in Calls, Cancel(c) PROVE AbstractStep
  BY <1>4, CancelImplements
<1>5. CASE Outside
  BY <1>5, OutsideImplements
<1> QED BY <1>1, <1>2, <1>3, <1>4, <1>5 DEF Next, Outside

(* dispatch with its TokenCache implements SingleFlight: one fetch at a     *)
(* time, started only without a usable token, and no dropped token handed   *)
(* out again.                                                               *)
THEOREM RefinesSingleFlight == Spec => ImplementsSingleFlight
  BY InitImplements, StepImplements, Invariance, PTL
  DEF Spec, ImplementsSingleFlight, Abstract!Spec
=============================================================================
