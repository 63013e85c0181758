------------------------------- MODULE MCSession -------------------------------
(* SessionManager on small instances. *)
EXTENDS SessionManager, TLC

CONSTANT MaxInFlight  \* bound on handlers, saves, routes and timer writes waiting at once

\* No identity is ordered or singled out.
Symmetry == Permutations(Sockets) \cup Permutations(Requests) \cup Permutations(Codes)

\* What waits for the database or the QR encoder.
InFlight ==
  /\ Cardinality(saving)
     + Cardinality({s \in Sockets : closeStep[s] # "idle"})
     + Cardinality({s \in Sockets : openStep[s] # "idle"})
     + Cardinality({s \in Sockets : qrStep[s] # "idle"})
     + Cardinality({q \in Stops : stopPc[q] # "idle"})
     + Cardinality({r \in Requests : pairPc[r] = "write"})
     + Cardinality({x \in {1} : connectPc # "idle"})
     + Cardinality({x \in {1} : resetDue}) + Cardinality({x \in {1} : qrExpiring})
     + Cardinality({x \in {1} : codeExpiring}) <= MaxInFlight

=============================================================================
