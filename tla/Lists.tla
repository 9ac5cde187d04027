------------------------------- MODULE Lists -------------------------------
(***************************************************************************)
(* The loops of the pipeline over Python lists: a comprehension with a     *)
(* condition, and a loop that carries a value along.  They are recursive   *)
(* functions of the position so that they can be reasoned about.           *)
(***************************************************************************)
EXTENDS Naturals, Sequences, SequencesExt

\* [x for x in s if x in S]
Keep(s, S) ==
  LET kept[i \in 0..Len(s)] ==
        IF i = 0 THEN <<>>
        ELSE IF s[i] \in S THEN Append(kept[i - 1], s[i]) ELSE kept[i - 1]
  IN  kept[Len(s)]

\* value = start; for x in s: value = Op(value, x)
Fold(Op(_, _), start, s) ==
  LET value[i \in 0..Len(s)] ==
        IF i = 0 THEN start ELSE Op(value[i - 1], s[i])
  IN  value[Len(s)]
=============================================================================
