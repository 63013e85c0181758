----------------------------- MODULE MCOAuth -----------------------------
(* OAuthTokens on small instances. *)
EXTENDS OAuthTokens, TLC

\* Codes, pairs and requests are interchangeable.
Symmetry == Permutations(Codes) \cup Permutations(Pairs) \cup Permutations(Grants)

==========================================================================
