-------------------------------- MODULE Access ---------------------------------
(***************************************************************************)
(* Who may do what (src/modules/permissions, src/modules/accounts): what a         *)
(* company's managers hold, what they leave to the managers of its groups, the     *)
(* roles that narrow it, and the accounts that hold the roles, while requests      *)
(* read and write all of it in several steps.                                  *)
(***************************************************************************)
EXTENDS Integers, FiniteSets

CONSTANTS
    Company, Group,
    CompanyOf,       \* [Group -> Company]: resolveAncestorCompanyId
    Code,
    NonDelegable,    \* NON_DELEGABLE_GROUP_MANAGER_CODES
    Role,
    Account,         \* administrators of companies and groups
    Request,
    Nobody,          \* no organization or no role
    MaxCalls         \* bound: requests

AccessAssumption ==
    /\ CompanyOf \in [Group -> Company] /\ NonDelegable \subseteq Code
    /\ Company \cap Group = {} /\ Nobody \notin Company \cup Group \cup Role
    /\ "keep" \notin Company \cup Group \cup Role \cup {Nobody}
    /\ MaxCalls \in Nat

Place == Company \cup Group
\* Who manages permissions and accounts: a super administrator, or a manager of a
\* company (resolveActorScope, resolveActorAccessScope); a group's may not.
Actor == {"super"} \cup Company

VARIABLES
    company, group,  \* [Company -> [Code -> "unset", "on", "off"]]: the overrides
    roles,           \* [Role -> [state, company, active, codes]]
    accounts,        \* [Account -> [org, status, role]]; org = Nobody: no account
    edit,            \* [Request -> the account update on its way]
    mine,            \* [Account -> findMine on its way]
    calls,
    watch,           \* what the properties remember: [Account -> [ever, always]]
    strayed          \* accounts moved to another company along with their role

accessVars == <<company, group, roles, accounts, edit, mine, calls, watch, strayed>>

\* Numbers of roles and accounts are not used again.
NoRole == [state |-> "unused", company |-> Nobody, active |-> FALSE, codes |-> {}]
DeletedRole == [NoRole EXCEPT !.state = "deleted"]
NoAccount == [org |-> Nobody, status |-> "unused", role |-> Nobody]
DeletedAccount == [NoAccount EXCEPT !.status = "deleted"]
Exists(a) == accounts[a].org # Nobody
RoleExists(r) == roles[r].state = "exists"
NoEdit == [kind |-> "none", account |-> Nobody, org |-> Nobody, role |-> Nobody,
           status |-> "keep"]
NoRead == [pc |-> "none", org |-> Nobody, held |-> {}, codes |-> {}]

HomeOf(o) == IF o \in Group THEN CompanyOf[o] ELSE o

-----------------------------------------------------------------------------
(* Permissions *)

\* syncPermissionCatalog, getEffectiveCompanyManagerPermissionIdSet: by default the
\* managers of a company hold every code, since a missing default is added again.
CompanyCodes(c) == {p \in Code : company[c][p] # "off"}

\* resolveGroupManagerBaseCodeSet, of what its company holds
GroupCodes(held, c) == {p \in held \ NonDelegable : group[c][p] # "off"}

\* findMine, of an account's role
Narrowed(codes, r) ==
    IF r # Nobody /\ roles[r].active THEN codes \cap roles[r].codes ELSE codes

\* What an account of organization o may do, read in one moment.
Effective(a, o) ==
    IF o \in Company THEN CompanyCodes(o)
    ELSE Narrowed(GroupCodes(CompanyCodes(CompanyOf[o]), CompanyOf[o]), accounts[a].role)

Ceiling(o) ==
    IF o \in Company THEN CompanyCodes(o) ELSE CompanyCodes(CompanyOf[o]) \ NonDelegable

Manages(actor, c) == actor \in {"super", c}
Calling == calls < MaxCalls /\ calls' = calls + 1

Switched(overrides, p, enabled) ==
    IF enabled THEN IF overrides[p] = "unset" THEN overrides
                    ELSE [overrides EXCEPT ![p] = "on"]
    ELSE [overrides EXCEPT ![p] = "off"]

\* updateCompanyManagerPermission: only of a super administrator.  What it writes does
\* not depend on anything but the request, or changes nothing.
UpdateCompanyManagerPermission(c, p, enabled) ==
    /\ Calling
    /\ company' = [company EXCEPT ![c] = Switched(@, p, enabled)]
    /\ UNCHANGED <<group, roles, accounts, edit, mine, strayed>>

\* updateGroupManagerPermission: what the company does not hold it cannot hand on.
\* The base is then the company's: without it, "off" is the default.
UpdateGroupManagerPermission(c, p, enabled) ==
    /\ Calling
    /\ p \notin NonDelegable
    /\ enabled => p \in CompanyCodes(c)
    /\ group' = [group EXCEPT ![c] =
         IF p \notin CompanyCodes(c) /\ @[p] = "unset" THEN @ ELSE Switched(@, p, enabled)]
    /\ UNCHANGED <<company, roles, accounts, edit, mine, strayed>>

\* createRole: of the codes asked for, those the company's groups may have.
CreateRole(r, c, codes) ==
    /\ Calling /\ roles[r] = NoRole
    /\ roles' = [roles EXCEPT ![r] =
         [state |-> "exists", company |-> c, active |-> TRUE,
          codes |-> codes \cap GroupCodes(CompanyCodes(c), c)]]
    /\ UNCHANGED <<company, group, accounts, edit, mine, strayed>>

\* updateRole: the codes are replaced, or the role is switched.
UpdateRole(r, active, codes) ==
    LET c == roles[r].company
    IN  /\ Calling /\ RoleExists(r)
        /\ roles' = [roles EXCEPT ![r].active = active,
                                 ![r].codes = codes \cap GroupCodes(CompanyCodes(c), c)]
        /\ UNCHANGED <<company, group, accounts, edit, mine, strayed>>

\* Mutant: accounts keep the deleted role.
DeleteRoleOnly(r) ==
    /\ Calling /\ RoleExists(r)
    /\ roles' = [roles EXCEPT ![r] = DeletedRole]
    /\ UNCHANGED <<company, group, accounts, edit, mine, strayed>>

\* deleteRole: onDelete SetNull takes it from the accounts.
DeleteRole(r) ==
    /\ Calling /\ RoleExists(r)
    /\ roles' = [roles EXCEPT ![r] = DeletedRole]
    /\ accounts' = [a \in Account |->
         IF accounts[a].role = r THEN [accounts[a] EXCEPT !.role = Nobody] ELSE accounts[a]]
    /\ strayed' = {a \in strayed : accounts[a].role # r}
    /\ UNCHANGED <<company, group, edit, mine>>

-----------------------------------------------------------------------------
(* findMine, which the guard of every route waits for. *)

\* validateUser, resolveActorScope
FindMine(a) ==
    /\ Calling /\ mine[a].pc = "none"
    /\ accounts[a].status = "ACTIVE"
    /\ mine' = [mine EXCEPT ![a] = [NoRead EXCEPT !.pc = "company", !.org = accounts[a].org]]
    /\ UNCHANGED <<company, group, roles, accounts, edit, strayed>>

\* getEffectiveCompanyManagerPermissionIdSet
ReadCompanyCodes(a) ==
    LET held == CompanyCodes(HomeOf(mine[a].org))
    IN  /\ mine[a].pc = "company"
        /\ mine' = [mine EXCEPT ![a] =
             IF @.org \in Company THEN [@ EXCEPT !.pc = "done", !.codes = held]
             ELSE [@ EXCEPT !.pc = "group", !.held = held]]
        /\ UNCHANGED <<company, group, roles, accounts, edit, calls, strayed>>

\* The overrides of the group's managers
ReadGroupCodes(a) ==
    /\ mine[a].pc = "group"
    /\ mine' = [mine EXCEPT ![a] =
         [@ EXCEPT !.pc = "role", !.held = {},
                   !.codes = GroupCodes(mine[a].held, CompanyOf[mine[a].org])]]
    /\ UNCHANGED <<company, group, roles, accounts, edit, calls, strayed>>

\* The account's role, when it is active
ReadRole(a) ==
    /\ mine[a].pc = "role"
    /\ mine' = [mine EXCEPT ![a] =
         [@ EXCEPT !.pc = "done", !.codes = Narrowed(mine[a].codes, accounts[a].role)]]
    /\ UNCHANGED <<company, group, roles, accounts, edit, calls, strayed>>

\* The guard has let the request through or not.
Answer(a) ==
    /\ mine[a].pc = "done"
    /\ mine' = [mine EXCEPT ![a] = NoRead]
    /\ UNCHANGED <<company, group, roles, accounts, edit, calls, strayed>>

-----------------------------------------------------------------------------
(* Accounts *)

\* The guard's scope of a manager; a super administrator has all.
Scope(actor) ==
    IF actor = "super" THEN Place ELSE {actor} \cup {g \in Group : CompanyOf[g] = actor}

\* assertTargetAccountManageable
Manageable(actor, o) == o # Nobody /\ o \in Scope(actor)

\* validateCompanyRoleAssignment
Assignable(r, o) ==
    o \in Group /\ roles[r].company = CompanyOf[o] /\ roles[r].active

\* create
Create(actor, a, o, r) ==
    /\ Calling /\ accounts[a] = NoAccount
    /\ o \in Scope(actor) /\ (r # Nobody => Assignable(r, o))
    /\ accounts' = [accounts EXCEPT ![a] = [org |-> o, status |-> "ACTIVE", role |-> r]]
    /\ UNCHANGED <<company, group, roles, edit, mine, strayed>>

\* update: reads the account, resolves the organization, checks the role.  `keep' is
\* what the request does not name.
Update(actor, q, a, org, role, status) ==
    LET next == IF org = "keep" THEN accounts[a].org ELSE org
    IN  /\ Calling /\ edit[q] = NoEdit
        /\ Manageable(actor, accounts[a].org) /\ next \in Scope(actor)
        /\ (next \in Group /\ role \in Role) => Assignable(role, next)
        /\ edit' = [edit EXCEPT ![q] =
             [kind |-> "update", account |-> a, org |-> next, status |-> status,
              role |-> IF next \in Group THEN role ELSE Nobody]]
        /\ UNCHANGED <<company, group, roles, accounts, mine, strayed>>

\* toggleStatus: the opposite of the status read
ToggleStatus(actor, q, a) ==
    /\ Calling /\ edit[q] = NoEdit
    /\ Manageable(actor, accounts[a].org)
    /\ edit' = [edit EXCEPT ![q] =
         [kind |-> "toggle", account |-> a, org |-> Nobody, role |-> Nobody,
          status |-> IF accounts[a].status = "ACTIVE" THEN "INACTIVE" ELSE "ACTIVE"]]
    /\ UNCHANGED <<company, group, roles, accounts, mine, strayed>>

\* Mutant: the role of an account is written without its organization.
RoleData(row, e) ==
    [org |-> row.org, status |-> IF e.status = "keep" THEN row.status ELSE e.status,
     role |-> IF e.role = "keep" THEN row.role ELSE e.role]

\* What update writes: the organization always, the role and the status if they change.
UpdateData(row, e) ==
    [org |-> e.org, status |-> IF e.status = "keep" THEN row.status ELSE e.status,
     role |-> IF e.role = "keep" THEN row.role ELSE e.role]

\* prisma.account.update: refused when the account, or the role it names, is gone.
Write(q) ==
    LET e == edit[q]
        row == accounts[e.account]
        fails == ~Exists(e.account) \/ (e.role \in Role /\ ~RoleExists(e.role))
        written == IF e.kind = "toggle" THEN [row EXCEPT !.status = e.status]
                   ELSE UpdateData(row, e)
    IN  /\ e # NoEdit
        /\ edit' = [edit EXCEPT ![q] = NoEdit]
        /\ IF fails THEN UNCHANGED <<accounts, strayed>>
           ELSE /\ accounts' = [accounts EXCEPT ![e.account] = written]
                /\ strayed' =
                     IF e.kind = "toggle" THEN strayed
                     ELSE IF e.role = "keep" /\ row.role # Nobody
                          THEN IF roles[row.role].company = HomeOf(e.org)
                               THEN strayed \ {e.account} ELSE strayed \cup {e.account}
                     ELSE strayed \ {e.account}
        /\ UNCHANGED <<company, group, roles, mine, calls>>

\* remove
Remove(actor, a) ==
    /\ Calling /\ Manageable(actor, accounts[a].org)
    /\ accounts' = [accounts EXCEPT ![a] = DeletedAccount]
    /\ strayed' = strayed \ {a}
    /\ UNCHANGED <<company, group, roles, edit, mine>>

\* findAll
Listed(actor) == {a \in Account : Exists(a) /\ accounts[a].org \in Scope(actor)}

\* getStats: of the groups in scope, unless a super administrator asks.
Counted(actor) ==
    {a \in Listed(actor) : actor = "super" \/ accounts[a].org \in Group}

-----------------------------------------------------------------------------
Init ==
    /\ company = [c \in Company |-> [p \in Code |-> "unset"]]
    /\ group = [c \in Company |-> [p \in Code |-> "unset"]]
    /\ roles = [r \in Role |-> NoRole]
    /\ accounts = [a \in Account |-> NoAccount]
    /\ edit = [q \in Request |-> NoEdit] /\ mine = [a \in Account |-> NoRead]
    /\ calls = 0
    /\ watch = [a \in Account |-> [ever |-> {}, always |-> {}]]
    /\ strayed = {}

\* What this state allows an account that findMine reads for.
Allowed(a) ==
    IF mine[a].pc = "none" THEN [ever |-> {}, always |-> {}]
    ELSE [ever |-> Ceiling(mine[a].org), always |-> Effective(a, mine[a].org)]

\* What some state on the way of a findMine allowed, and what all of them did.
Watch ==
    watch' = [a \in Account |->
        IF mine[a].pc = "none" \/ mine'[a].pc = "none" THEN Allowed(a)'
        ELSE [ever |-> watch[a].ever \cup Allowed(a).ever',
              always |-> watch[a].always \cap Allowed(a).always']]

PermissionStep ==
    \/ \E c \in Company, p \in Code, enabled \in BOOLEAN :
         \/ UpdateCompanyManagerPermission(c, p, enabled)
         \/ UpdateGroupManagerPermission(c, p, enabled)
    \/ \E r \in Role, codes \in {Code, {}} :
         \/ \E c \in Company : CreateRole(r, c, codes)
         \/ \E active \in BOOLEAN : UpdateRole(r, active, codes)
    \/ \E r \in Role : DeleteRole(r)

AccountStep ==
    \E actor \in Actor :
        \/ \E a \in Account, o \in Place, r \in Role \cup {Nobody} : Create(actor, a, o, r)
        \/ \E q \in Request, a \in Account, org \in Place \cup {"keep"},
              role \in Role \cup {Nobody, "keep"}, status \in {"keep", "INACTIVE"} :
             Update(actor, q, a, org, role, status)
        \/ \E a \in Account : Remove(actor, a) \/ \E q \in Request : ToggleStatus(actor, q, a)

FindMineStep ==
    \E a \in Account :
        \/ FindMine(a) \/ ReadCompanyCodes(a) \/ ReadGroupCodes(a)
        \/ ReadRole(a) \/ Answer(a)

Next ==
    /\ PermissionStep \/ AccountStep \/ FindMineStep \/ \E q \in Request : Write(q)
    /\ Watch

Spec == Init /\ [][Next]_accessVars

-----------------------------------------------------------------------------
\* Overrides, roles and accounts; what an account holds exists.
TypeOK ==
    /\ company \in [Company -> [Code -> {"unset", "on", "off"}]]
    /\ group \in [Company -> [Code -> {"unset", "on", "off"}]]
    /\ \A a \in Account :
         /\ accounts[a].org \in Place \cup {Nobody}
         /\ accounts[a].role # Nobody => RoleExists(accounts[a].role)
    /\ \A r \in Role : roles[r].codes \subseteq Code \ NonDelegable

\* findMine: whatever changes while it reads, a manager gets no code that the managers
\* of the company did not hold at any moment of it, nor, in a group, one that cannot be
\* handed on; and gets every code that overrides and role granted all the while.
CodesWithinCeiling ==
    \A a \in Account :
        mine[a].pc = "done" =>
            /\ mine[a].codes \subseteq watch[a].ever
            /\ watch[a].always \subseteq mine[a].codes

\* update, validateCompanyRoleAssignment: overlapping updates included, only accounts
\* of groups hold a role, and one of their own company unless they were moved to
\* another company by a request that did not name their role.
RolesFit ==
    \A a \in Account :
        accounts[a].role # Nobody =>
            /\ accounts[a].org \in Group
            /\ a \in strayed \/ roles[accounts[a].role].company = CompanyOf[accounts[a].org]

\* findAll, getStats, assertTargetAccountManageable: whom a manager sees listed it may
\* change, and the statistics leave out the managers of the company and nobody else.
ListsAgree ==
    \A actor \in Actor :
        /\ \A a \in Account : a \in Listed(actor) <=> Manageable(actor, accounts[a].org)
        /\ actor # "super" =>
             Listed(actor) \ Counted(actor) = {a \in Account : accounts[a].org = actor}

================================================================================
