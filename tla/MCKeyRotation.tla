--------------------------- MODULE MCKeyRotation ---------------------------
(***************************************************************************)
(* Two sessions with two values each, two keys, and three files: the one   *)
(* at the path, one that a server kept open, and a copy.                   *)
(***************************************************************************)
EXTENDS KeyRotation, TLC

CONSTANTS s1, s2, v1, v2, k1, k2, f1, f2, f3

MCSessions == {s1, s2}
MCValues == {v1, v2}
MCKeys == {k1, k2}
MCFiles == {f1, f2, f3}

\* No action names one of them: all are interchangeable.
Interchange ==
  UNION {Permutations(MCSessions), Permutations(MCValues),
         Permutations(MCKeys), Permutations(MCFiles)}
=============================================================================
