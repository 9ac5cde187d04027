---------------------------- MODULE MCOAuthServer ----------------------------
(* Instances of OAuthServer for TLC. *)
EXTENDS OAuthServer, TLC

\* Calls and logins are interchangeable (safety runs only).
CallLoginSymmetry == Permutations(Calls) \cup Permutations(Logins)
=============================================================================
