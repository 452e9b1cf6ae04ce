-------------------------- MODULE MCOrganizationTree --------------------------
(***************************************************************************)
(* Instances of OrganizationTree for TLC: two companies, a group in each,  *)
(* one unit and one id left to create.  p1 belongs to the first company.   *)
(***************************************************************************)
EXTENDS OrganizationTree, TLC

CONSTANTS root, c1, c2, g1, g2, u1, x1, p1, r1, r2

MCOwner == (p1 :> c1)

MCNoOwner == [p \in {} |-> root]

MCParent == (root :> NoOrg) @@ (c1 :> root) @@ (c2 :> root)
            @@ (g1 :> c1) @@ (g2 :> c2) @@ (u1 :> g1)
MCOneGroup == (root :> NoOrg) @@ (c1 :> root) @@ (c2 :> root)
              @@ (g1 :> c1)

\* The second company has no group yet.
MCSmallest == (root :> NoOrg) @@ (c1 :> root) @@ (c2 :> root)
              @@ (g1 :> c1) @@ (u1 :> g1)

\* Requests are interchangeable.
AnyOrder == Permutations(Request)
=============================================================================
