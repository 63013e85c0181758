------------------------------- MODULE MCInbound -------------------------------
(* InboundMessages on small instances. *)
EXTENDS InboundMessages, TLC

\* Batches are not ordered, and bindings are told apart only by their rows.
Symmetry == Permutations(Batches) \cup Permutations(Bindings)

=============================================================================
