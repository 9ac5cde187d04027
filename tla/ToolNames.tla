----------------------------- MODULE ToolNames -----------------------------
(***************************************************************************)
(* Names, and the resolution of equal ones (core/normalize.py).            *)
(*                                                                         *)
(* A name is the sequence of its parts between underscores, so that x_2 is *)
(* <<"x", "2">> and joining two names with "_" is \o.  A path is the       *)
(* sequence of its segments, a segment again a name; the braces of a path  *)
(* variable are gone, and an empty part stands between two underscores.    *)
(***************************************************************************)
EXTENDS Lists, FiniteSets

CONSTANT Numerals  \* Numerals[n] is the word that writes the number n

ASSUME NumeralsAssumption ==
  /\ Numerals \in Seq(STRING)
  /\ \A m, n \in DOMAIN Numerals : Numerals[m] = Numerals[n] => m = n

Names == Seq(STRING)

\* _sanitize_path_segment collapses "__" and strips "_" at the ends.
Sanitize(name) == Keep(name, STRING \ {""})

\* How often candidate i occurred before: the Counter seen of the code.
Earlier(candidates, i) ==
  Cardinality({j \in 1..(i - 1) : candidates[j] = candidates[i]})

\* Mutant: every repetition gets the same suffix.
ResolveWithOneSuffix(candidates) ==
  [i \in DOMAIN candidates |->
     IF Earlier(candidates, i) = 0
     THEN candidates[i]
     ELSE Append(candidates[i], Numerals[2])]

\* The first occurrence keeps the name, the n-th gets the suffix _n.
ResolveCollisions(candidates) ==
  [i \in DOMAIN candidates |->
     IF Earlier(candidates, i) = 0
     THEN candidates[i]
     ELSE Append(candidates[i], Numerals[Earlier(candidates, i) + 1])]

\* Some candidate is written like another one with a suffix.
SuffixClash(candidates) ==
  \E i, j \in DOMAIN candidates, n \in DOMAIN Numerals :
    candidates[j] = Append(candidates[i], Numerals[n])
=============================================================================
