---------------------------- MODULE SingleFlight ----------------------------
(***************************************************************************)
(* What TokenCache promises its callers (the docstrings of                 *)
(* auth/token_cache.py): callers that ask for a token share one fetch at a *)
(* time, started only when there is no usable token; each is answered with *)
(* the usable token or with the one its own fetch brought; a token that was*)
(* dropped is never handed out again.                                      *)
(***************************************************************************)
EXTENDS Naturals

CONSTANT Calls

VARIABLES
  waiting,   \* the callers that asked
  inflight,  \* a fetch is under way
  current,   \* the usable token, 0 for none
  last,      \* tokens fetched so far; they are numbered in order
  got        \* the token each caller was last given

vars == <<waiting, inflight, current, last, got>>

Init ==
  /\ waiting = {}
  /\ inflight = FALSE
  /\ current = 0
  /\ last = 0
  /\ got = [c \in Calls |-> 0]

\* A caller asks, perhaps reporting that the usable token was rejected.
Ask(c) ==
  /\ c \notin waiting
  /\ waiting' = waiting \cup {c}
  /\ current' \in {current, 0}
  /\ UNCHANGED <<inflight, last, got>>

Begin ==
  /\ ~inflight
  /\ waiting # {}
  /\ current = 0
  /\ inflight' = TRUE
  /\ UNCHANGED <<waiting, current, last, got>>

Answer(c) ==
  /\ c \in waiting
  /\ ~inflight
  /\ current # 0
  /\ got' = [got EXCEPT ![c] = current]
  /\ waiting' = waiting \ {c}
  /\ UNCHANGED <<inflight, current, last>>

\* The new token may already be unusable for others.
Finish(c) ==
  /\ c \in waiting
  /\ inflight
  /\ inflight' = FALSE
  /\ last' = last + 1
  /\ current' \in {0, last'}
  /\ got' = [got EXCEPT ![c] = last']
  /\ waiting' = waiting \ {c}

\* A caller gives up; if the fetch was its own, so does the fetch.
GiveUp(c) ==
  /\ c \in waiting
  /\ waiting' = waiting \ {c}
  /\ inflight' \in {inflight, FALSE}
  /\ UNCHANGED <<current, last, got>>

\* The usable token expires.
Drop ==
  /\ current' = 0
  /\ UNCHANGED <<waiting, inflight, last, got>>

Next ==
  \/ \E c \in Calls : Ask(c) \/ Answer(c) \/ Finish(c) \/ GiveUp(c)
  \/ Begin
  \/ Drop

Spec == Init /\ [][Next]_vars
=============================================================================
