------------------------------ MODULE MCApprovals ------------------------------
(* Instances of Approvals for TLC. *)
EXTENDS Approvals, TLC

CONSTANTS ann, bob, cid, dee, kpi, manager, owner, definition

\* bob and cid share a role, dee holds the other one; ann mostly asks.
MCRoleOf == (ann :> manager) @@ (bob :> manager) @@ (cid :> manager) @@ (dee :> owner)
MCRoleOf3 == (ann :> owner) @@ (bob :> manager) @@ (cid :> owner)
MCTypeOf == kpi :> definition

\* Calls in flight are interchangeable.
CallSymmetry == Permutations(Calls)
==============================================================================
