--------------------------- MODULE OrganizationTree ---------------------------
(***************************************************************************)
(* The organization ("site") tree of the admin back end and the requests   *)
(* that change it: modules/organizations/organizations.service.ts, with    *)
(* the classification of common/utils/organization-scope.util.ts and the   *)
(* policy-owner chain of common/utils/policy-owner-fallback.util.ts.       *)
(*                                                                         *)
(* A request is a NestJS handler: it validates with awaited reads made     *)
(* outside any transaction and only then commits.  Every awaited read is a *)
(* step of its own, so two requests interleave exactly where the event     *)
(* loop and the READ COMMITTED database let them.  A check that fails      *)
(* throws: the request returns to "idle" having changed nothing.           *)
(***************************************************************************)
EXTENDS Integers, FiniteSets

CONSTANTS
    Org,          \* organization ids, used and still unused
    Root,         \* the root id (ROOT_ORGANIZATION_IDS)
    NoOrg,        \* parentId = null
    Policy,       \* control policies that an organization may select
    NoPolicy,     \* appliedControlPolicyId = null
    Keep,         \* a field absent from an update request
    Request,      \* requests in flight at the same time
    Kinds,        \* the kinds of request that are made
    OwnerOf,      \* Policy -> the organization that owns it
    SeedParent,   \* the tree at the start: existing id -> parent
    SeedUnits,    \* the existing ids with a team code
    NullParent    \* may a client send "parentId": null in an update?

Existing == DOMAIN SeedParent

SeedLevel(o) ==
    IF o = Root THEN 0 ELSE IF SeedParent[o] = Root THEN 1
    ELSE IF o \in SeedUnits THEN 3 ELSE 2

\* The database starts with a tree the service itself could have built: the
\* root, companies under it, groups under companies, units under groups.
ASSUME TreeAssumption ==
    /\ IsFiniteSet(Org)
    /\ Root \in Org
    /\ NoOrg \notin Org \cup {Keep}
    /\ Keep \notin Org
    /\ NoPolicy \notin Policy
    /\ Keep \notin Policy \cup {NoPolicy}
    /\ OwnerOf \in [Policy -> Org]
    /\ Existing \subseteq Org
    /\ SeedParent \in [Existing -> Existing \cup {NoOrg}]
    /\ Root \in Existing
    /\ SeedParent[Root] = NoOrg
    /\ SeedUnits \subseteq Existing
    /\ \A o \in SeedUnits : SeedLevel(o) = 3
    /\ \A o \in Existing : SeedParent[o] # NoOrg =>
           SeedLevel(SeedParent[o]) = SeedLevel(o) - 1
    /\ NullParent \in BOOLEAN
    /\ Kinds \subseteq {"create", "update", "remove", "hire", "archive",
                        "transfer", "policy"}

VARIABLES
    parent,    \* Organization.parentId
    coded,     \* is Organization.teamCode set?
    status,    \* "absent" (id not used), "live", "deleted" (deletedAt set)
    applied,   \* Organization.appliedControlPolicyId
    staff,     \* "working" (blocks a delete) and "archived" employees
    policies,  \* the published, undeleted control policies
    pc,        \* the next step of each request, "idle" if it is not in flight
    req        \* what each request in flight has been given and has read

vars == <<parent, coded, status, applied, staff, policies, pc, req>>
tree == <<parent, coded, status, applied>>

-----------------------------------------------------------------------------
(* Classification: resolveOrganizationClassification. *)

ClassOf(o, p, unitCode) ==
    IF o = Root THEN "ADMIN"
    ELSE IF p = Root THEN "COMPANY"
    ELSE IF unitCode THEN "UNIT" ELSE "GROUP"

Class(o) == ClassOf(o, parent[o], coded[o])

Level == [ADMIN |-> 0, COMPANY |-> 1, GROUP |-> 2, UNIT |-> 3]

\* Mutant: groups nest.
SupportsNested(c, childType) ==
    \/ c \in {"ADMIN", "COMPANY", "GROUP"} /\ childType = "GROUP"
    \/ c = "GROUP" /\ childType = "UNIT"

\* assertParentSupportsChildType, for a live parent of class c.
Supports(c, childType) ==
    \/ c \in {"ADMIN", "COMPANY"} /\ childType = "GROUP"
    \/ c = "GROUP" /\ childType = "UNIT"

Live == {o \in Org : status[o] = "live"}

\* Those of `rows' that are met on the way up from o, o included, by the links
\* `up'; the way ends at the first id that is not one of them.
WayUp(o, up, rows) ==
    LET walk[n \in Nat] ==
            IF n = 0 THEN {o}
            ELSE LET below == walk[n - 1]
                 IN  below \cup {up[x] : x \in below \cap rows}
    IN  rows \cap walk[Cardinality(Org)]

\* The live rows on the way up from o when o's parent is taken to be p: the
\* loops of resolvePolicySelectionContext and resolveAncestorCompanyId.
Above(o, p) == WayUp(o, [parent EXCEPT ![o] = p], Live)

\* resolvePolicyOwnerFallbackIds: everything on the way up but the root.
OwnerChain(o, p) == Above(o, p) \ {Root}

\* resolveAncestorCompanyId: the set of the company above o, empty if none.
CompanyOf(o) == {c \in Above(o, parent[o]) : Class(c) = "COMPANY"}

\* getDescendants: the live rows whose way up meets a child of o.
Below(o) == {x \in Live : \E y \in Above(x, parent[x]) : parent[y] = o}

-----------------------------------------------------------------------------
(* Requests. *)

Steps == {"idle", "insert", "parent", "tree", "type", "policy", "write",
          "children", "staff", "archive", "purge", "employ", "transfer"}

\* org: the row the request is about; to: the parent or target it names;
\* pick: the policy the row is to select; was, unit: the parent of the row and
\* whether it had a team code when it was first read (for a new row, unit says
\* whether it gets one).
ReqType == [org : Org \cup {NoOrg}, to : Org \cup {NoOrg, Keep},
            pick : Policy \cup {NoPolicy},
            was : Org \cup {NoOrg}, unit : BOOLEAN]

Nothing == [org |-> NoOrg, to |-> NoOrg, pick |-> NoPolicy, was |-> NoOrg,
            unit |-> FALSE]

\* A request of some kind begins.
Begin(r, kind) == kind \in Kinds /\ pc[r] = "idle"

Init ==
    /\ parent = [o \in Org |-> IF o \in Existing THEN SeedParent[o] ELSE NoOrg]
    /\ coded = [o \in Org |-> o \in SeedUnits]
    /\ status = [o \in Org |-> IF o \in Existing THEN "live" ELSE "absent"]
    /\ applied = [o \in Org |-> NoPolicy]
    /\ staff = [o \in Org |-> {}]
    /\ policies = {p \in Policy : OwnerOf[p] \in Existing}
    /\ pc = [r \in Request |-> "idle"]
    /\ req = [r \in Request |-> Nothing]

\* The request takes its first step with the data d.
Enter(r, step, d) ==
    /\ pc' = [pc EXCEPT ![r] = step]
    /\ req' = [req EXCEPT ![r] = d]

\* A request about o, and about `to' for the kinds that name a second one.
About(o, to) ==
    [org |-> o, to |-> to, pick |-> NoPolicy, was |-> NoOrg, unit |-> FALSE]

Goto(r, step) == pc' = [pc EXCEPT ![r] = step] /\ UNCHANGED req

Finish(r) == Enter(r, "idle", Nothing)

\* The check passes and the handler goes on to `step', or it throws.
Check(r, ok, step) == IF ok THEN Goto(r, step) ELSE Finish(r)

-----------------------------------------------------------------------------
(* create *)

\* The two reads of the parent, at the classification and inside
\* assertParentSupportsChildType, are one step: a row that passes the second
\* passes the first.  Under the root the child type is forced to GROUP.
CreateCheck(r, p, childType) ==
    /\ Begin(r, "create")
    /\ \/ p = NoOrg
       \/ /\ p \in Live
          /\ Supports(Class(p), IF Class(p) = "ADMIN" THEN "GROUP" ELSE childType)
    /\ Enter(r, "insert",
             [org |-> NoOrg, to |-> p, pick |-> NoPolicy, was |-> NoOrg,
              unit |-> childType = "UNIT" /\ p # Root])
    /\ UNCHANGED <<tree, staff, policies>>

\* The transaction inserts the row and clears the parent's team code.
CreateCommit(r, o) ==
    LET p == req[r].to IN
    /\ pc[r] = "insert"
    /\ status[o] = "absent"
    /\ status' = [status EXCEPT ![o] = "live"]
    /\ parent' = [parent EXCEPT ![o] = p]
    /\ coded' = [x \in Org |-> IF x = o THEN req[r].unit ELSE x # p /\ coded[x]]
    /\ Finish(r)
    /\ UNCHANGED <<applied, staff, policies>>

-----------------------------------------------------------------------------
(* update *)

\* The request names an organization, a parent (or none) and a policy
\* selection; the handler reads the row and rejects a self parent.
\* A selection the client left out is the one read here, before the
\* transaction that writes it back.
UpdateRead(r, o, to, choice) ==
    /\ Begin(r, "update")
    /\ o \in Live
    /\ to # o
    /\ to = NoOrg => NullParent
    /\ Enter(r, IF to \in Org THEN "parent" ELSE "policy",
             [org |-> o, to |-> to, was |-> parent[o], unit |-> coded[o],
              pick |-> IF choice = Keep THEN applied[o] ELSE choice])
    /\ UNCHANGED <<tree, staff, policies>>

Moving(r) == req[r].to # req[r].was

\* The class the row had when it was read, and the one it would have under p.
ReadClass(r, p) == ClassOf(req[r].org, p, req[r].unit)

\* Mutant: the class of the moved node is not compared.
UpdateCheckParentOnly(r) ==
    /\ pc[r] = "parent"
    /\ Check(r, req[r].to \in Live, "tree")
    /\ UNCHANGED <<tree, staff, policies>>

\* The new parent exists and the move keeps the class of the moved node.
UpdateCheckParent(r) ==
    /\ pc[r] = "parent"
    /\ Check(r, /\ req[r].to \in Live
                /\ ReadClass(r, req[r].to) = ReadClass(r, req[r].was),
             "tree")
    /\ UNCHANGED <<tree, staff, policies>>

\* Mutant: a unit may leave its company.
UpdateCheckTreeFree(r) ==
    LET class == ReadClass(r, req[r].was) IN
    /\ pc[r] = "tree"
    /\ Check(r, /\ req[r].to \notin Below(req[r].org)
                /\ class \in {"ADMIN", "COMPANY"} => ~ Moving(r),
             IF class \in {"GROUP", "UNIT"} THEN "type" ELSE "policy")
    /\ UNCHANGED <<tree, staff, policies>>

\* The new parent is not below the node, administrators and companies stay
\* where they are, and a unit stays in its company.
UpdateCheckTree(r) ==
    LET o == req[r].org
        class == ReadClass(r, req[r].was)
    IN
    /\ pc[r] = "tree"
    /\ Check(r, /\ req[r].to \notin Below(o)
                /\ class \in {"ADMIN", "COMPANY"} => ~ Moving(r)
                /\ class = "UNIT" /\ Moving(r) =>
                       CompanyOf(o) # {} /\ CompanyOf(o) = CompanyOf(req[r].to),
             IF class \in {"GROUP", "UNIT"} THEN "type" ELSE "policy")
    /\ UNCHANGED <<tree, staff, policies>>

UpdateCheckType(r) ==
    /\ pc[r] = "type"
    /\ Check(r, /\ req[r].to \in Live
                /\ Supports(Class(req[r].to), ReadClass(r, req[r].was)),
             "policy")
    /\ UNCHANGED <<tree, staff, policies>>

\* Mutant: the selection is checked against the parent the row is leaving.
UpdateCheckPolicyOld(r) ==
    /\ pc[r] = "policy"
    /\ Check(r, req[r].pick # NoPolicy =>
                    /\ req[r].org \in Live
                    /\ req[r].pick \in policies
                    /\ OwnerOf[req[r].pick] \in OwnerChain(req[r].org, parent[req[r].org]),
             "write")
    /\ UNCHANGED <<tree, staff, policies>>

\* validateAppliedControlPolicyId
UpdateCheckPolicy(r) ==
    LET o == req[r].org
        p == IF req[r].to = Keep THEN parent[o] ELSE req[r].to
    IN
    /\ pc[r] = "policy"
    /\ Check(r, req[r].pick # NoPolicy =>
                    /\ o \in Live
                    /\ req[r].pick \in policies
                    /\ OwnerOf[req[r].pick] \in OwnerChain(o, p),
             "write")
    /\ UNCHANGED <<tree, staff, policies>>

\* Mutant: a parent the client left out is written like any other.
UpdateCommitAlways(r) ==
    /\ pc[r] = "write"
    /\ parent' = [parent EXCEPT ![req[r].org] = req[r].to]
    /\ applied' = [applied EXCEPT ![req[r].org] = req[r].pick]
    /\ coded' = [x \in Org |-> x # req[r].to /\ coded[x]]
    /\ Finish(r)
    /\ UNCHANGED <<status, staff, policies>>

\* The transaction's updates: by id only, whatever happened to the row since.
UpdateCommit(r) ==
    LET o == req[r].org
        to == req[r].to
    IN
    /\ pc[r] = "write"
    /\ parent' = [parent EXCEPT ![o] = IF to = Keep THEN @ ELSE to]
    /\ applied' = [applied EXCEPT ![o] = req[r].pick]
    /\ coded' = [x \in Org |-> x # to /\ coded[x]]
    /\ Finish(r)
    /\ UNCHANGED <<status, staff, policies>>

-----------------------------------------------------------------------------
(* remove *)

\* The root always holds the fixed master account (ensureFixedMasterAdmin-
\* Account), so its removal never passes the account check.
RemoveRead(r, o) ==
    /\ Begin(r, "remove")
    /\ o \in Live \ {Root}
    /\ Enter(r, "children", About(o, NoOrg))
    /\ UNCHANGED <<tree, staff, policies>>

\* Mutant: a check that does not look.
RemoveSkipChildren(r) ==
    /\ pc[r] = "children" /\ Goto(r, "staff")
    /\ UNCHANGED <<tree, staff, policies>>

RemoveCheckChildren(r) ==
    /\ pc[r] = "children"
    /\ Check(r, \A x \in Live : parent[x] # req[r].org, "staff")
    /\ UNCHANGED <<tree, staff, policies>>

RemoveCheckStaff(r) ==
    /\ pc[r] = "staff"
    /\ Check(r, "working" \notin staff[req[r].org], "archive")
    /\ UNCHANGED <<tree, staff, policies>>

\* resolveArchivedEmployeeTransferOrganizationId: the company above a unit or
\* group, the root otherwise.
ArchiveHeir(o) ==
    IF Class(o) \in {"UNIT", "GROUP"} /\ CompanyOf(o) # {}
    THEN CHOOSE c \in CompanyOf(o) : TRUE ELSE Root

\* Archived employees and their devices move out before the transaction.
RemoveMoveArchived(r) ==
    LET o == req[r].org IN
    /\ pc[r] = "archive"
    /\ staff' = IF "archived" \in staff[o]
                THEN [x \in Org |->
                         IF x = ArchiveHeir(o) THEN staff[x] \cup {"archived"}
                         ELSE IF x = o THEN staff[x] \ {"archived"} ELSE staff[x]]
                ELSE staff
    /\ Goto(r, "purge")
    /\ UNCHANGED <<tree, policies>>

\* Mutant: the deleted row keeps its team code.
RemoveCommitCoded(r) ==
    /\ pc[r] = "purge"
    /\ status' = [status EXCEPT ![req[r].org] = "deleted"]
    /\ policies' = {p \in policies : OwnerOf[p] # req[r].org}
    /\ Finish(r)
    /\ UNCHANGED <<parent, coded, applied, staff>>

\* The transaction soft-deletes the organization and the policies it owns.
RemoveCommit(r) ==
    LET o == req[r].org IN
    /\ pc[r] = "purge"
    /\ status' = [status EXCEPT ![o] = "deleted"]
    /\ coded' = [coded EXCEPT ![o] = FALSE]
    /\ policies' = {p \in policies : OwnerOf[p] # o}
    /\ Finish(r)
    /\ UNCHANGED <<parent, applied, staff>>

-----------------------------------------------------------------------------
(* Requests of other services that read or fill the tree. *)

\* assertUnitOrganization: deletedAt is not looked at, but a deleted row has
\* lost its team code.
AssertUnit(o) ==
    status[o] # "absent" /\ Class(o) = "UNIT" /\ \A x \in Org : parent[x] # o

\* EmployeesService.create: the unit is checked, then the row is inserted.
HireCheck(r, o) ==
    /\ Begin(r, "hire")
    /\ AssertUnit(o)
    /\ Enter(r, "employ", About(o, NoOrg))
    /\ UNCHANGED <<tree, staff, policies>>

HireCommit(r) ==
    /\ pc[r] = "employ"
    /\ staff' = [staff EXCEPT ![req[r].org] = @ \cup {"working"}]
    /\ Finish(r)
    /\ UNCHANGED <<tree, policies>>

\* EmployeesService.remove archives an employee, the last of o or not.
Archive(r, o, last) ==
    /\ Begin(r, "archive")
    /\ "working" \in staff[o]
    /\ staff' = [staff EXCEPT ![o] =
                    {"archived"} \cup (IF last THEN {} ELSE {"working"})]
    /\ UNCHANGED <<tree, policies, pc, req>>

\* transferResources moves everyone from one unit to another.
TransferCheck(r, src, dst) ==
    /\ Begin(r, "transfer")
    /\ src # dst
    /\ {src, dst} \subseteq Live
    /\ AssertUnit(src) /\ AssertUnit(dst)
    /\ Enter(r, "transfer", About(src, dst))
    /\ UNCHANGED <<tree, staff, policies>>

TransferCommit(r) ==
    /\ pc[r] = "transfer"
    /\ staff' = [staff EXCEPT ![req[r].to] = @ \cup staff[req[r].org],
                              ![req[r].org] = {}]
    /\ Finish(r)
    /\ UNCHANGED <<tree, policies>>

\* ControlPoliciesService.remove soft-deletes a policy and leaves the
\* organizations that selected it alone.
RemovePolicy(r, p) ==
    /\ Begin(r, "policy")
    /\ p \in policies
    /\ policies' = policies \ {p}
    /\ UNCHANGED <<tree, staff, pc, req>>

-----------------------------------------------------------------------------
Next ==
    \E r \in Request :
        \/ \E p \in Org \cup {NoOrg}, t \in {"GROUP", "UNIT"} : CreateCheck(r, p, t)
        \/ \E o \in Org : CreateCommit(r, o)
        \/ \E o \in Org, to \in Org \cup {NoOrg, Keep},
              c \in Policy \cup {NoPolicy, Keep} : UpdateRead(r, o, to, c)
        \/ UpdateCheckParent(r)
        \/ UpdateCheckTree(r)
        \/ UpdateCheckType(r)
        \/ UpdateCheckPolicy(r)
        \/ UpdateCommit(r)
        \/ \E o \in Org : RemoveRead(r, o)
        \/ RemoveCheckChildren(r)
        \/ RemoveCheckStaff(r)
        \/ RemoveMoveArchived(r)
        \/ RemoveCommit(r)
        \/ \E o \in Org : HireCheck(r, o)
        \/ HireCommit(r)
        \/ \E o \in Org, last \in BOOLEAN : Archive(r, o, last)
        \/ \E src, dst \in Org : TransferCheck(r, src, dst)
        \/ TransferCommit(r)
        \/ \E p \in Policy : RemovePolicy(r, p)

Spec == Init /\ [][Next]_vars

-----------------------------------------------------------------------------
(* Properties. *)

TypeOK ==
    /\ parent \in [Org -> Org \cup {NoOrg}]
    /\ coded \in [Org -> BOOLEAN]
    /\ status \in [Org -> {"absent", "live", "deleted"}]
    /\ applied \in [Org -> Policy \cup {NoPolicy}]
    /\ staff \in [Org -> SUBSET {"working", "archived"}]
    /\ policies \subseteq Policy
    /\ pc \in [Request -> Steps]
    /\ req \in [Request -> ReqType]
    /\ \A r \in Request :
           /\ req[r].to = Keep => pc[r] \in {"policy", "write"}
           /\ pc[r] \notin {"idle", "insert"} => req[r].org \in Org

\* No group of live organizations hangs only from itself.  getDescendants
\* recurses and resolvePolicySelectionContext loops without a visited set: on
\* a cycle neither would end.
Acyclic == \A S \in SUBSET Live : S # {} => \E o \in S : parent[o] \notin S

\* Every edge goes to a strictly higher level of the hierarchy; this is what
\* keeps the tree acyclic although every check is made on stale reads.
LevelOrder ==
    \A o \in Live : parent[o] # NoOrg => Level[Class(parent[o])] < Level[Class(o)]

\* What a request in flight still knows to be true when it commits, however
\* old its reads are.  Whether a row hangs from the root and whether it has a
\* team code decide its class, and no request changes either.
RowKnown(r) ==
    /\ req[r].org \in Org
    /\ status[req[r].org] # "absent"
    /\ (req[r].was = Root) <=> (parent[req[r].org] = Root)
    /\ req[r].org = Root => req[r].was = NoOrg
    /\ coded[req[r].org] => req[r].unit
    /\ status[req[r].org] = "live" => (req[r].unit <=> coded[req[r].org])

\* The parent a request names can be the parent of a child of this class.
ParentFits(p, childClass) ==
    /\ status[p] # "absent"
    /\ ~ coded[p]
    /\ Class(p) = "ADMIN" => childClass = "COMPANY"
    /\ Class(p) = "COMPANY" => childClass = "GROUP"
    /\ Class(p) = "GROUP" => childClass = "UNIT"

ReqOK(r) ==
    LET q == req[r] IN
    /\ pc[r] = "insert" /\ q.to # NoOrg =>
           /\ q.to \in Org
           /\ q.unit => q.to # Root
           /\ \A o \in Org \ {Root} : ParentFits(q.to, ClassOf(o, q.to, q.unit))
    /\ pc[r] \in {"parent", "tree", "type", "policy", "write"} =>
           RowKnown(r) /\ q.to \in Org \cup {Keep} /\ q.to # q.org
    /\ pc[r] \in {"parent", "tree", "type"} => q.to \in Org
    /\ pc[r] \in {"tree", "type", "policy", "write"} /\ q.to \in Org =>
           /\ status[q.to] # "absent"
           /\ ReadClass(r, q.to) = ReadClass(r, q.was)
    /\ pc[r] = "type" => ReadClass(r, q.was) \in {"GROUP", "UNIT"}
    /\ pc[r] \in {"policy", "write"} /\ q.to \in Org =>
           q.org # Root /\ ParentFits(q.to, ReadClass(r, q.to))
    /\ pc[r] \in {"children", "staff", "archive", "purge"} =>
           q.org \in Org \ {Root} /\ status[q.org] # "absent"

\* The inductive invariant behind Acyclic and ClassStable, for clients that do
\* not send a null parent.
TreeInv ==
    /\ parent[Root] = NoOrg /\ status[Root] = "live"
    /\ \A o \in Org : coded[o] => Class(o) = "UNIT" /\ status[o] = "live"
    /\ \A o \in Org : parent[o] # NoOrg => status[parent[o]] # "absent"
    /\ LevelOrder
    /\ \A r \in Request : ReqOK(r)

\* update, the comment on class preservation: no request changes the class of
\* an organization, and with it the rank of the administrators it holds.
ClassStable ==
    [][\A o \in Live : status'[o] = "live" => Class(o)' = Class(o)]_vars

\* remove, create and EmployeesService.create: nothing is lost with a deleted
\* organization: none that lives hangs from it, nobody works there, and whoever was
\* archived there has been moved.
NothingLeftBehind ==
    /\ \A o \in Live : parent[o] # NoOrg => parent[o] \in Live
    /\ \A o \in Org : status[o] = "deleted" => staff[o] = {}

\* update: a unit is transferred only between groups of its company.
UnitKeepsCompany ==
    [][\A o \in Live : Class(o) = "UNIT" /\ parent'[o] # parent[o]
           => CompanyOf(o)' = CompanyOf(o)]_vars

\* validateAppliedControlPolicyId: an organization that comes to select a
\* policy selects a published one, its own or one owned above it.
SelectionInChain ==
    [][\A o \in Live : applied'[o] \notin {applied[o], NoPolicy}
           => /\ applied'[o] \in policies
              /\ OwnerOf[applied'[o]] \in OwnerChain(o, parent[o])']_vars

\* The same as a state invariant: the policy an organization selects stays one
\* it could select.
SelectionStaysInChain ==
    \A o \in Live : applied[o] # NoPolicy =>
        applied[o] \in policies /\ OwnerOf[applied[o]] \in OwnerChain(o, parent[o])
=============================================================================
