--------------------------- MODULE OrganizationScope ---------------------------
(***************************************************************************)
(* The organizations of an account, as the guard of the routes and the        *)
(* services compute them from a tree that stands still: what it may see, what  *)
(* it may change.  OrganizationTree shows how the tree changes.               *)
(***************************************************************************)
EXTENDS Integers, FiniteSets

CONSTANTS
    Org,
    NoOrg,
    Parent,       \* [Org -> Org \cup {NoOrg}]
    Kind,         \* [Org -> {"COMPANY", "GROUP", "UNIT"}]
    Active,       \* the organizations that are active
    Account,
    Super,        \* the accounts of super administrators
    Of            \* [Account -> Org]

ASSUME ScopeAssumption ==
    /\ IsFiniteSet(Org) /\ NoOrg \notin Org
    /\ Parent \in [Org -> Org \cup {NoOrg}]
    /\ Kind \in [Org -> {"COMPANY", "GROUP", "UNIT"}]
    /\ Active \subseteq Org /\ Super \subseteq Account
    /\ Of \in [Account -> Org]
    \* Above a company is only the root, which is none of Org.
    /\ \A o \in Org : Kind[o] = "COMPANY" => Parent[o] = NoOrg

\* resolveReadableOrganizationIds: the organizations and those above them.
Ancestors(S) ==
    LET up[i \in 0..Cardinality(Org)] ==
            IF i = 0 THEN S
            ELSE LET T == up[i-1] IN T \cup ({Parent[o] : o \in T} \ {NoOrg})
    IN  up[Cardinality(Org)]

\* collectDescendantOrganizationIds
Descendants == [o \in Org |->
    LET down[i \in 0..Cardinality(Org)] ==
            IF i = 0 THEN {o}
            ELSE LET S == down[i-1] IN S \cup {c \in Org : Parent[c] \in S}
    IN  down[Cardinality(Org)]]

\* resolveAncestorCompanyId, resolveAncestorGroupId
AncestorOf(kind, o) == {a \in Ancestors({o}) : Kind[a] = kind}

\* The organizations of the guard: the active ones below the account's.
GuardScope == [a \in Account |->
    LET down[i \in 0..Cardinality(Org)] ==
            IF i = 0 THEN {Of[a]}
            ELSE LET S == down[i-1] IN S \cup {c \in Active : Parent[c] \in S}
    IN  IF a \in Super THEN Org ELSE down[Cardinality(Org)]]

\* resolveActorAccessContext
Manageable == [a \in Account |->
    IF a \in Super THEN Org
    ELSE IF Kind[Of[a]] = "COMPANY"
         THEN UNION {Descendants[c] : c \in AncestorOf("COMPANY", Of[a])}
         ELSE AncestorOf("COMPANY", Of[a])
                \cup UNION {Descendants[g] : g \in AncestorOf("GROUP", Of[a])}]

\* resolveEffectiveNoticeViewOrganizationIds
Readable == [a \in Account |->
    IF a \in Super THEN Org ELSE Ancestors({Of[a]}) \cup Ancestors(GuardScope[a])]

================================================================================
