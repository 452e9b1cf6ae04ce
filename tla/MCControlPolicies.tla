--------------------------- MODULE MCControlPolicies ---------------------------
(***************************************************************************)
(* Instances of ControlPolicies for TLC: a unit u1 under a group g1, and   *)
(* conditions that both may use (of g1) or only u1 (of u1).                *)
(***************************************************************************)
EXTENDS ControlPolicies, TLC

CONSTANTS g1, u1, p1, p2, z1, t1, t2, b1, r1, r2

MCSources == [o \in Org |-> IF o = u1 THEN {g1, u1} ELSE {o}]

MCKind == [c \in Condition |-> IF c = z1 THEN "zone"
                               ELSE IF c = b1 THEN "behavior" ELSE "time"]

MCHome == [c \in Condition |-> g1]

AnyOrder == Permutations(Policy) \cup Permutations(Request)
=============================================================================
