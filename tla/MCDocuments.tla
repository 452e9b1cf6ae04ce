------------------------------ MODULE MCDocuments ------------------------------
(***************************************************************************)
(* Two requests on one row of each kind, with two files and two employees in   *)
(* a unit of a group of a company.                                          *)
(***************************************************************************)
EXTENDS SafetyDocuments, TLC

CONSTANTS
    r1, r2,             \* two requests in flight
    f1, f2,             \* files
    p1, p2,             \* employees
    company, other,     \* two companies,
    group, unit,        \* a group of the first one and its unit
    admin,              \* an administrator of the company,
    manager             \* and one of the group

EmployeeAt == [p \in {p1, p2} |-> unit]
EmployeeSpeaks == [p \in {p1, p2} |-> IF p = p1 THEN "ko" ELSE "vi"]
ParentOf == [o \in {company, group, unit} |->
    CASE o = company -> NoOrg [] o = group -> company [] o = unit -> group]
KindOf == [o \in {company, group, unit} |->
    CASE o = company -> "COMPANY" [] o = group -> "GROUP" [] o = unit -> "UNIT"]
AccountOf == [a \in {admin, manager} |-> IF a = admin THEN company ELSE group]

\* Requests and files are interchangeable.
Symmetry == Permutations(Request) \cup Permutations(File)
===============================================================================
