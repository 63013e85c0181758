----------------------------- MODULE MCTenantAccess -----------------------------
(* TenantAccess on small instances. *)
EXTENDS TenantAccess, TLC

\* Provisioning requests are interchangeable, and so are tenants.
Symmetry == Permutations(Provisions) \cup Permutations(Tenants)

=============================================================================
