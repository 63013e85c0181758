------------------------------ MODULE MCConcierge ------------------------------
(* Concierge on small instances: two branches, tried out and then paired. *)
EXTENDS Concierge, TLC

Branch(id, tenant, account, mode) ==
  [branchId |-> id, tenantId |-> tenant, waAccountId |-> account, mode |-> mode]

TwoTenants == ("number 1" :> "tenant 1") @@ ("number 2" :> "tenant 2")

\* The first branch in test mode, unpaired and paired, then live; the second live before
\* and after it is paired; and a directory with a copy of a file, which does not start.
Pairing == {
  <<Branch("soweto", "tenant 1", None, "test"), Branch("woodmead", "tenant 2", None, "live")>>,
  <<Branch("soweto", "tenant 1", "number 1", "test"),
    Branch("woodmead", "tenant 2", "number 2", "live")>>,
  <<Branch("soweto", "tenant 1", "number 1", "live"),
    Branch("woodmead", "tenant 2", "number 2", "live")>>,
  <<Branch("soweto", "tenant 1", None, "test"), Branch("soweto", "tenant 1", None, "live")>>}

\* One live branch throughout.
OneBranch == {<<Branch("soweto", "tenant 1", "number 1", "live")>>}

\* Requests are interchangeable.
Symmetry == Permutations(Replies)

=============================================================================
