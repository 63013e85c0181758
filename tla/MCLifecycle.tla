------------------------------ MODULE MCLifecycle ------------------------------
(* SessionLifecycle on small instances. *)
EXTENDS SessionLifecycle, TLC

\* Sockets, startups and stops are interchangeable: nothing orders them.
Symmetry == Permutations(Sockets) \cup Permutations(Startups) \cup Permutations(Stops)

=============================================================================
