-------------------------- MODULE MCEmployeeLifecycle --------------------------
(***************************************************************************)
(* Instances of EmployeeLifecycle for TLC.                                 *)
(***************************************************************************)
EXTENDS EmployeeLifecycle, TLC

CONSTANTS p1, p2, h1, h2, d1, r1, r2

Symmetric == Permutations({p1, p2}) \cup Permutations({h1, h2})
=============================================================================
