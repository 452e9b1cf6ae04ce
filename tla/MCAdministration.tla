--------------------------- MODULE MCAdministration ----------------------------
(***************************************************************************)
(* Two clients, two organizations, a group in each of two companies with one   *)
(* role and one account, a site of two units with a policy of its own and one   *)
(* of a unit, two apps in one preset.                                        *)
(***************************************************************************)
EXTENDS Administration, BoardContent, TLC

CONSTANTS
    k1, k2,             \* clients
    e1,                 \* an employee
    o1, o2,             \* two organizations
    c1, c2, g1, g2,     \* companies and a group of each
    role, account, master,
    site, u1, u2,       \* a site and its units
    p1, p2, app1,       \* a policy of the site, one of u1, an app
    a1, a2              \* apps of the catalogue

Date(y, m, d) == [year |-> y, month |-> m, day |-> d]

\* A board out of order, one too long, one with a day that no calendar has, and what
\* becomes of them.
Sent == {<<Date(24, 2, 29), Date(2025, 1, 2)>>,
         <<NoDate, Date(2025, 2, 29), Date(2025, 1, 2)>>,
         <<Date(25, 2, 29), NoDate>>}
Boards == {<<>>} \cup Sent \cup {NormalizeBoard(b) : b \in Sent}
Stored == [b \in Boards |-> NormalizeBoard(b)]
EmptyBoard == <<>>

HomeCompany == [g \in {g1, g2} |-> IF g = g1 THEN c1 ELSE c2]

Counts == [employees : {0, 2}, apps : {0, 1, 3}, behaviors : {0, 2}, events : {0, 4, 40}]
Settings == [appWeight : {0, 2}, behaviorWeight : {1},
             complianceDanger : {800}, complianceWarning : {810, 1000},
             violationsDanger : {150}, violationsWarning : {70},
             complianceWeight : {0, 2}, violationsWeight : {0, 1},
             dangerMin : {600, 1000}, warningMin : {0, 600}]

\* Other units, others without the preset, new rules with the preset, off, a draft.
Wanted(units, active, draft, rules, link) ==
    [targets |-> units, active |-> active, draft |-> draft, rules |-> rules,
     link |-> link]
PolicyUpdates ==
    {Wanted({u1}, Keep, Keep, 0, Keep), Wanted({u2}, Keep, Keep, 0, FALSE),
     Wanted({}, TRUE, FALSE, 1, TRUE), Wanted({}, FALSE, Keep, 1, Keep),
     Wanted({}, Keep, TRUE, 0, Keep)}
PolicyOwner == [p \in {p1, p2} |-> IF p = p1 THEN site ELSE u1]

\* Two names of one package, and another one.
Folding == [p \in {"Chat", "chat", "map"} |-> IF p = "map" THEN p ELSE "chat"]

\* Clients, organizations and apps are interchangeable, and a company is with its group.
Symmetry ==
    Permutations(Client) \cup Permutations(Org) \cup Permutations(App)
      \cup {c1 :> c2 @@ c2 :> c1 @@ g1 :> g2 @@ g2 :> g1}

===============================================================================
