----------------------------- MODULE AccessProofs ------------------------------
(***************************************************************************)
(* What Access guarantees for any companies, groups, codes, roles, accounts   *)
(* and number of requests, with findMine reading in four steps beside them.   *)
(***************************************************************************)
EXTENDS Access, TLAPS

RoleRow == [state : {"unused", "exists", "deleted"}, company : Company \cup {Nobody},
            active : BOOLEAN, codes : SUBSET (Code \ NonDelegable)]
AccountRow == [org : Place \cup {Nobody},
               status : {"unused", "ACTIVE", "INACTIVE", "deleted"},
               role : Role \cup {Nobody}]
EditRow == [kind : {"none", "update", "toggle"}, account : Account \cup {Nobody},
            org : Place \cup {Nobody}, role : Role \cup {Nobody, "keep"},
            status : {"keep", "ACTIVE", "INACTIVE"}]
ReadRow == [pc : {"none", "company", "group", "role", "done"},
            org : Place \cup {Nobody}, held : SUBSET Code, codes : SUBSET Code]

Overrides == [Company -> [Code -> {"unset", "on", "off"}]]

Tables ==
    /\ company \in Overrides /\ group \in Overrides
    /\ roles \in [Role -> RoleRow]
    /\ accounts \in [Account -> AccountRow]
    /\ edit \in [Request -> EditRow]
    /\ mine \in [Account -> ReadRow]

\* Only a role that exists is active.
RoleOK(r) == roles[r].active => RoleExists(r)

\* An account without an organization cannot sign in; a role that is held exists,
\* is held in a group, and is one of its company unless the account strayed.
AccountOK(a) ==
    /\ ~ Exists(a) => accounts[a].status \in {"unused", "deleted"}
    /\ accounts[a].role # Nobody =>
           /\ RoleExists(accounts[a].role)
           /\ accounts[a].org \in Group
           /\ a \in strayed
              \/ roles[accounts[a].role].company = CompanyOf[accounts[a].org]

\* What an update on its way still knows of the role it names: it was checked, a
\* number is not used again, and a role never changes its company.
EditOK(q) ==
    LET e == edit[q] IN
    /\ IF e.kind = "none" THEN e = NoEdit ELSE e.account \in Account
    /\ e.kind = "toggle" => e.status # "keep" /\ e.role = Nobody
    /\ e.kind = "update" => e.org \in Place
    /\ e.role # Nobody => e.kind = "update" /\ e.org \in Group
    /\ e.role \in Role =>
           /\ roles[e.role].state # "unused"
           /\ RoleExists(e.role) => roles[e.role].company = CompanyOf[e.org]

\* findMine reads for an organization that the account had.
ReadOK(a) ==
    /\ mine[a].pc # "none" => mine[a].org \in Place
    /\ mine[a].pc \in {"group", "role"} => mine[a].org \in Group

Rows ==
    /\ \A r \in Role : RoleOK(r)
    /\ \A a \in Account : AccountOK(a) /\ ReadOK(a)
    /\ \A q \in Request : EditOK(q)

Kept == Tables /\ Rows

-----------------------------------------------------------------------------
(* One lemma for each table that a step writes. *)

LEMMA CodesAreCodes ==
    ASSUME AccessAssumption, NEW c PROVE CompanyCodes(c) \subseteq Code
BY DEF CompanyCodes

LEMMA GroupCodesDelegable ==
    ASSUME AccessAssumption, NEW c, NEW held \in SUBSET Code
    PROVE  GroupCodes(held, c) \subseteq held \ NonDelegable
BY DEF GroupCodes

\* Switching an override leaves an override.
LEMMA SwitchedType ==
    ASSUME NEW o \in [Code -> {"unset", "on", "off"}], NEW p \in Code,
           NEW enabled \in BOOLEAN
    PROVE  Switched(o, p, enabled) \in [Code -> {"unset", "on", "off"}]
BY DEF Switched

LEMMA OverridesKept ==
    ASSUME AccessAssumption, Kept, NEW c \in Company, NEW p \in Code,
           NEW enabled \in BOOLEAN,
           \/ UpdateCompanyManagerPermission(c, p, enabled)
           \/ UpdateGroupManagerPermission(c, p, enabled)
    PROVE  Kept'
<1>1. UNCHANGED <<roles, accounts, edit, mine, strayed>>
  BY DEF UpdateCompanyManagerPermission, UpdateGroupManagerPermission
<1>2. company' \in Overrides /\ group' \in Overrides
  <2>1. company[c] \in [Code -> {"unset", "on", "off"}]
        /\ group[c] \in [Code -> {"unset", "on", "off"}]
    BY DEF Kept, Tables, Overrides
  <2>2. Switched(company[c], p, enabled) \in [Code -> {"unset", "on", "off"}]
        /\ Switched(group[c], p, enabled) \in [Code -> {"unset", "on", "off"}]
    BY <2>1, SwitchedType
  <2>3. CASE UpdateCompanyManagerPermission(c, p, enabled)
    BY <2>2, <2>3 DEF UpdateCompanyManagerPermission, Kept, Tables, Overrides
  <2>4. CASE UpdateGroupManagerPermission(c, p, enabled)
    BY <2>1, <2>2, <2>4 DEF UpdateGroupManagerPermission, Kept, Tables, Overrides
  <2> QED
    BY <2>3, <2>4
<1> QED
  BY <1>1, <1>2
  DEF Kept, Tables, Rows, RoleOK, AccountOK, ReadOK, EditOK, Exists, RoleExists

\* A role is written: its number was unused, or it keeps its company.
LEMMA RoleKept ==
    ASSUME AccessAssumption, Kept, NEW r \in Role, NEW row \in RoleRow,
           UNCHANGED <<company, group, accounts, edit, mine, strayed>>,
           roles' = [roles EXCEPT ![r] = row],
           row.state = "exists",
           \/ roles[r].state = "unused"
           \/ RoleExists(r) /\ row.company = roles[r].company
    PROVE  Kept'
<1>1. roles' \in [Role -> RoleRow] /\ roles'[r] = row
      /\ \A x \in Role \ {r} : roles'[x] = roles[x]
  BY DEF Kept, Tables
<1>2. Tables'
  BY <1>1 DEF Kept, Tables
<1>3. ASSUME NEW x \in Role PROVE RoleOK(x)'
  BY <1>1 DEF Kept, Rows, RoleOK, RoleExists
<1>4. ASSUME NEW a \in Account PROVE AccountOK(a)' /\ ReadOK(a)'
  <2>1. AccountOK(a) /\ ReadOK(a) /\ accounts[a].role \in Role \cup {Nobody}
    BY DEF Kept, Rows, Tables, AccountRow
  <2> QED
    BY <1>1, <2>1 DEF AccountOK, ReadOK, Exists, RoleExists
<1>5. ASSUME NEW q \in Request PROVE EditOK(q)'
  <2>1. EditOK(q)
    BY DEF Kept, Rows
  <2> QED
    BY <1>1, <2>1 DEF EditOK, RoleExists
<1> QED
  BY <1>2, <1>3, <1>4, <1>5 DEF Kept, Rows

LEMMA CreateRoleKept ==
    ASSUME AccessAssumption, Kept, NEW r \in Role, NEW c \in Company,
           NEW codes \in {Code, {}}, CreateRole(r, c, codes)
    PROVE  Kept'
<1> DEFINE row == [state |-> "exists", company |-> c, active |-> TRUE,
                   codes |-> codes \cap GroupCodes(CompanyCodes(c), c)]
<1>1. GroupCodes(CompanyCodes(c), c) \subseteq Code \ NonDelegable
  BY CodesAreCodes, GroupCodesDelegable
<1>2. row \in RoleRow /\ row.state = "exists"
  BY <1>1 DEF RoleRow
<1>3. roles[r].state = "unused" /\ roles' = [roles EXCEPT ![r] = row]
      /\ UNCHANGED <<company, group, accounts, edit, mine, strayed>>
  BY DEF CreateRole, NoRole
<1> QED
  BY <1>2, <1>3, RoleKept

LEMMA UpdateRoleKept ==
    ASSUME AccessAssumption, Kept, NEW r \in Role, NEW active \in BOOLEAN,
           NEW codes \in {Code, {}}, UpdateRole(r, active, codes)
    PROVE  Kept'
<1> DEFINE c == roles[r].company
           row == [state |-> "exists", company |-> c, active |-> active,
                   codes |-> codes \cap GroupCodes(CompanyCodes(c), c)]
<1>1. GroupCodes(CompanyCodes(c), c) \subseteq Code \ NonDelegable
  BY CodesAreCodes, GroupCodesDelegable
<1>2. roles[r] \in RoleRow /\ RoleExists(r)
  BY DEF UpdateRole, Kept, Tables
<1>3. row \in RoleRow /\ row.state = "exists" /\ row.company = roles[r].company
  BY <1>1, <1>2 DEF RoleRow
<1>4. roles' = [roles EXCEPT ![r] = row]
  <2> DEFINE written == codes \cap GroupCodes(CompanyCodes(c), c)
  <2>1. [[roles[r] EXCEPT !.active = active] EXCEPT !.codes = written] = row
    <3>1. PICK k, x, y : roles[r] = [state |-> "exists", company |-> k, active |-> x,
                                     codes |-> y]
      BY <1>2 DEF RoleRow, RoleExists
    <3>2. ASSUME NEW w
          PROVE  [[roles[r] EXCEPT !.active = active] EXCEPT !.codes = w]
                 = [state |-> "exists", company |-> k, active |-> active, codes |-> w]
      <4>1. [roles[r] EXCEPT !.active = active]
            = [state |-> "exists", company |-> k, active |-> active, codes |-> y]
        BY <3>1
      <4>2. \A R : R = [state |-> "exists", company |-> k, active |-> active, codes |-> y]
                => [R EXCEPT !.codes = w]
                   = [state |-> "exists", company |-> k, active |-> active, codes |-> w]
        OBVIOUS
      <4> QED
        BY <4>1, <4>2
    <3>3. row = [state |-> "exists", company |-> k, active |-> active, codes |-> written]
      BY <3>1
    <3> QED
      BY <3>2, <3>3
  <2>2. roles' = [[roles EXCEPT ![r].active = active] EXCEPT ![r].codes = written]
    BY DEF UpdateRole
  <2> HIDE DEF written, row
  <2>3. roles' = [roles EXCEPT ![r] =
                     [[roles[r] EXCEPT !.active = active] EXCEPT !.codes = written]]
    BY <2>2 DEF Kept, Tables
  <2> QED
    BY <2>1, <2>3
<1>5. UNCHANGED <<company, group, accounts, edit, mine, strayed>>
  BY DEF UpdateRole
<1> HIDE DEF row
<1> QED
  BY <1>2, <1>3, <1>4, <1>5, RoleKept

\* A deleted role is taken from the accounts that hold it.
LEMMA DeleteRoleKept ==
    ASSUME AccessAssumption, Kept, NEW r \in Role, DeleteRole(r) PROVE Kept'
<1>1. DeletedRole \in RoleRow /\ DeletedRole.state = "deleted" /\ ~ DeletedRole.active
  BY DEF DeletedRole, NoRole, RoleRow
<1>2. /\ roles'[r] = DeletedRole /\ roles' \in [Role -> RoleRow]
      /\ \A x \in Role \ {r} : roles'[x] = roles[x]
      /\ UNCHANGED <<company, group, edit, mine>>
  BY <1>1 DEF DeleteRole, Kept, Tables
<1>3. ASSUME NEW a \in Account
      PROVE  /\ accounts'[a] \in AccountRow
             /\ accounts'[a].org = accounts[a].org /\ accounts'[a].status = accounts[a].status
             /\ accounts'[a].role = IF accounts[a].role = r THEN Nobody ELSE accounts[a].role
             /\ a \in strayed /\ accounts[a].role # r => a \in strayed'
  BY DEF DeleteRole, Kept, Tables, AccountRow
<1>4. accounts' \in [Account -> AccountRow]
  BY <1>3 DEF DeleteRole
<1>5. Tables'
  BY <1>2, <1>4 DEF Kept, Tables
<1>6. ASSUME NEW x \in Role PROVE RoleOK(x)'
  BY <1>1, <1>2 DEF Kept, Rows, RoleOK, RoleExists
<1>7. ASSUME NEW a \in Account PROVE AccountOK(a)' /\ ReadOK(a)'
  <2>1. AccountOK(a) /\ ReadOK(a) /\ accounts[a].role \in Role \cup {Nobody}
    BY DEF Kept, Rows, Tables, AccountRow
  <2> QED
    BY <1>2, <1>3, <2>1 DEF AccountOK, ReadOK, Exists, RoleExists
<1>8. ASSUME NEW q \in Request PROVE EditOK(q)'
  <2>1. EditOK(q)
    BY DEF Kept, Rows
  <2> QED
    BY <1>1, <1>2, <2>1 DEF EditOK, RoleExists
<1> QED
  BY <1>5, <1>6, <1>7, <1>8 DEF Kept, Rows

\* The accounts change, the roles and the updates on their way do not.
LEMMA AccountKept ==
    ASSUME AccessAssumption, Kept, NEW a \in Account, NEW row \in AccountRow,
           UNCHANGED <<company, group, roles, edit, mine>>,
           accounts' = [accounts EXCEPT ![a] = row],
           \A x \in Account \ {a} : x \in strayed => x \in strayed',
           AccountOK(a)'
    PROVE  Kept'
<1>1. Tables'
  BY DEF Kept, Tables
<1>2. ASSUME NEW x \in Account \ {a} PROVE AccountOK(x)'
  BY DEF Kept, Rows, Tables, AccountOK, Exists, RoleExists
<1> QED
  BY <1>1, <1>2 DEF Kept, Rows, RoleOK, ReadOK, EditOK, RoleExists

LEMMA CreateKept ==
    ASSUME AccessAssumption, Kept, NEW actor \in Actor, NEW a \in Account, NEW o \in Place,
           NEW r \in Role \cup {Nobody}, Create(actor, a, o, r)
    PROVE  Kept'
<1> DEFINE row == [org |-> o, status |-> "ACTIVE", role |-> r]
<1>1. row \in AccountRow
  BY DEF AccountRow
<1>2. /\ UNCHANGED <<company, group, roles, edit, mine, strayed>>
      /\ accounts' = [accounts EXCEPT ![a] = row]
      /\ r # Nobody => Assignable(r, o)
  BY DEF Create
<1>3. accounts'[a] = row
  BY <1>2 DEF Kept, Tables
<1>4. AccountOK(a)'
  <2>1. o # Nobody
    BY DEF AccessAssumption, Place
  <2>2. r # Nobody => RoleExists(r) /\ o \in Group /\ roles[r].company = CompanyOf[o]
    BY <1>2 DEF Assignable, Kept, Rows, RoleOK
  <2> QED
    BY <1>2, <1>3, <2>1, <2>2 DEF AccountOK, Exists, RoleExists
<1> HIDE DEF row
<1> QED
  BY <1>1, <1>2, <1>4, AccountKept

LEMMA RemoveKept ==
    ASSUME AccessAssumption, Kept, NEW actor \in Actor, NEW a \in Account,
           Remove(actor, a)
    PROVE  Kept'
<1>1. DeletedAccount \in AccountRow /\ DeletedAccount.role = Nobody
      /\ DeletedAccount.status = "deleted"
  BY DEF DeletedAccount, NoAccount, AccountRow
<1>2. /\ UNCHANGED <<company, group, roles, edit, mine>>
      /\ accounts' = [accounts EXCEPT ![a] = DeletedAccount]
      /\ strayed' = strayed \ {a}
  BY DEF Remove
<1>3. AccountOK(a)'
  BY <1>1, <1>2 DEF AccountOK, Exists, Kept, Tables
<1> QED
  BY <1>1, <1>2, <1>3, AccountKept

\* An update or a toggle is on its way.
LEMMA EditKept ==
    ASSUME AccessAssumption, Kept, NEW q \in Request, NEW e \in EditRow,
           UNCHANGED <<company, group, roles, accounts, mine, strayed>>,
           edit' = [edit EXCEPT ![q] = e],
           EditOK(q)'
    PROVE  Kept'
<1>1. Tables'
  BY DEF Kept, Tables
<1>2. ASSUME NEW x \in Request \ {q} PROVE EditOK(x)'
  BY DEF Kept, Rows, Tables, EditOK, RoleExists
<1> QED
  BY <1>1, <1>2 DEF Kept, Rows, RoleOK, AccountOK, ReadOK, Exists, RoleExists

LEMMA UpdateKept ==
    ASSUME AccessAssumption, Kept, NEW actor \in Actor, NEW q \in Request, NEW a \in Account,
           NEW org \in Place \cup {"keep"}, NEW role \in Role \cup {Nobody, "keep"},
           NEW status \in {"keep", "INACTIVE"},
           Update(actor, q, a, org, role, status)
    PROVE  Kept'
<1> DEFINE next == IF org = "keep" THEN accounts[a].org ELSE org
           e == [kind |-> "update", account |-> a, org |-> next, status |-> status,
                 role |-> IF next \in Group THEN role ELSE Nobody]
<1>1. /\ UNCHANGED <<company, group, roles, accounts, mine, strayed>>
      /\ edit' = [edit EXCEPT ![q] = e]
      /\ Manageable(actor, accounts[a].org)
      /\ next \in Group /\ role \in Role => Assignable(role, next)
  BY DEF Update
<1>2. next \in Place
  <2>1. accounts[a].org \in Place
    BY <1>1 DEF Manageable, Kept, Tables, AccountRow
  <2> QED
    BY <2>1
<1>3. e \in EditRow
  BY <1>2 DEF EditRow
<1>4. edit'[q] = e
  BY <1>1 DEF Kept, Tables
<1>5. next \in Group /\ role \in Role =>
          roles[role].state # "unused" /\ roles[role].company = CompanyOf[next]
  BY <1>1 DEF Assignable, Kept, Rows, RoleOK, RoleExists
<1>6. EditOK(q)'
  <2>1. /\ e.kind = "update" /\ e.account = a /\ e.org = next
        /\ e.role = IF next \in Group THEN role ELSE Nobody
    OBVIOUS
  <2>2. e.role # Nobody => next \in Group
    BY <2>1
  <2>3. e.role \in Role => next \in Group /\ e.role = role
    BY <2>1 DEF AccessAssumption
  <2> HIDE DEF e, next
  <2> QED
    BY <1>1, <1>2, <1>4, <1>5, <2>1, <2>2, <2>3 DEF EditOK, RoleExists
<1> HIDE DEF e
<1> QED
  BY <1>1, <1>3, <1>6, EditKept

LEMMA ToggleKept ==
    ASSUME AccessAssumption, Kept, NEW actor \in Actor, NEW q \in Request, NEW a \in Account,
           ToggleStatus(actor, q, a)
    PROVE  Kept'
<1> DEFINE e == [kind |-> "toggle", account |-> a, org |-> Nobody, role |-> Nobody,
                 status |-> IF accounts[a].status = "ACTIVE" THEN "INACTIVE" ELSE "ACTIVE"]
<1>1. /\ UNCHANGED <<company, group, roles, accounts, mine, strayed>>
      /\ edit' = [edit EXCEPT ![q] = e]
  BY DEF ToggleStatus
<1>2. e \in EditRow
  BY DEF EditRow
<1>3. edit'[q] = e
  BY <1>1 DEF Kept, Tables
<1>4. EditOK(q)'
  BY <1>3 DEF EditOK, AccessAssumption
<1> HIDE DEF e
<1> QED
  BY <1>1, <1>2, <1>4, EditKept

\* The update that was on its way is written, over whatever the row has become.
LEMMA WriteKept ==
    ASSUME AccessAssumption, Kept, NEW q \in Request, Write(q) PROVE Kept'
<1> DEFINE e == edit[q]
           a == e.account
           row == accounts[a]
           fails == ~Exists(a) \/ (e.role \in Role /\ ~RoleExists(e.role))
           written == IF e.kind = "toggle" THEN [row EXCEPT !.status = e.status]
                      ELSE UpdateData(row, e)
<1>1. e \in EditRow /\ EditOK(q) /\ e # NoEdit
  BY DEF Kept, Tables, Rows, Write
<1>2. NoEdit \in EditRow /\ NoEdit.kind = "none" /\ NoEdit.role = Nobody
  BY DEF NoEdit, EditRow
<1>3. edit' = [edit EXCEPT ![q] = NoEdit] /\ UNCHANGED <<company, group, roles, mine>>
  BY DEF Write
<1>4. edit' \in [Request -> EditRow] /\ \A x \in Request : EditOK(x)'
  <2>1. edit' \in [Request -> EditRow] /\ edit'[q] = NoEdit
        /\ \A x \in Request \ {q} : edit'[x] = edit[x]
    BY <1>2, <1>3 DEF Kept, Tables
  <2>2. EditOK(q)'
    BY <1>2, <2>1 DEF EditOK, AccessAssumption
  <2>3. ASSUME NEW x \in Request \ {q} PROVE EditOK(x)'
    BY <1>3, <2>1 DEF EditOK, RoleExists, Kept, Rows
  <2> QED
    BY <2>1, <2>2, <2>3
<1>5. (\A r \in Role : RoleOK(r)') /\ \A x \in Account : ReadOK(x)'
  BY <1>3 DEF Kept, Rows, RoleOK, ReadOK, RoleExists
<1>6. CASE fails
  <2>1. UNCHANGED <<accounts, strayed>>
    BY <1>6 DEF Write
  <2>2. \A x \in Account : AccountOK(x)'
    BY <1>3, <2>1 DEF Kept, Rows, AccountOK, Exists, RoleExists
  <2> QED
    BY <1>3, <1>4, <1>5, <2>1, <2>2 DEF Kept, Tables, Rows
<1>7. CASE ~ fails
  <2>1. /\ accounts' = [accounts EXCEPT ![a] = written]
        /\ strayed' =
             IF e.kind = "toggle" THEN strayed
             ELSE IF e.role = "keep" /\ row.role # Nobody
                  THEN IF roles[row.role].company = HomeOf(e.org)
                       THEN strayed \ {a} ELSE strayed \cup {a}
             ELSE strayed \ {a}
    BY <1>7 DEF Write
  <2>2. Exists(a) /\ (e.role \in Role => RoleExists(e.role))
    BY <1>7
  <2> HIDE DEF fails
  <2>3. e.kind \in {"toggle", "update"} /\ a \in Account
    BY <1>1 DEF EditOK, EditRow, NoEdit
  <2>4. accounts[a] \in AccountRow /\ AccountOK(a)
    BY <2>3 DEF Kept, Tables, Rows
  <2>5. /\ written \in AccountRow
        /\ written.org = IF e.kind = "toggle" THEN row.org ELSE e.org
        /\ written.role = IF e.kind = "toggle" \/ e.role = "keep" THEN row.role ELSE e.role
    <3>1. CASE e.kind = "toggle"
      <4>1. row = [org |-> row.org, status |-> row.status, role |-> row.role]
            /\ e.status \in {"ACTIVE", "INACTIVE"}
        BY <1>1, <2>4, <3>1 DEF AccountRow, EditRow, EditOK
      <4>2. written = [org |-> row.org, status |-> e.status, role |-> row.role]
        BY <3>1, <4>1
      <4> HIDE DEF written
      <4> QED
        BY <2>4, <3>1, <4>1, <4>2 DEF AccountRow
    <3>2. CASE e.kind # "toggle"
      <4>1. written = [org |-> e.org,
                       status |-> IF e.status = "keep" THEN row.status ELSE e.status,
                       role |-> IF e.role = "keep" THEN row.role ELSE e.role]
        BY <3>2 DEF UpdateData
      <4> HIDE DEF written
      <4> QED
        BY <1>1, <2>4, <3>2, <4>1 DEF AccountRow, EditRow
    <3> QED
      BY <3>1, <3>2
  <2> HIDE DEF written
  <2>b. PICK b \in Account : b = a
    BY <2>3
  <2>6. accounts'[b] = written /\ accounts' \in [Account -> AccountRow]
        /\ \A x \in Account \ {b} : accounts'[x] = accounts[x] /\ (x \in strayed => x \in strayed')
    BY <2>1, <2>b, <2>5 DEF Kept, Tables
  <2>7. AccountOK(b)'
    <3>1. CASE e.kind = "toggle"
      <4>1. strayed' = strayed /\ written.org = row.org /\ written.role = row.role
        BY <2>1, <2>5, <3>1
      <4> QED
        BY <1>3, <2>b, <2>2, <2>4, <2>6, <4>1 DEF AccountOK, Exists, RoleExists
    <3>2. CASE e.kind = "update" /\ e.role = "keep"
      <4>1. /\ written.org = e.org /\ written.role = row.role /\ e.org \in Group
            /\ e.org # Nobody
        BY <1>1, <2>5, <3>2 DEF EditOK, AccessAssumption, Place
      <4>2. row.role # Nobody =>
                b \in strayed' \/ roles[row.role].company = CompanyOf[e.org]
        BY <2>1, <2>b, <3>2, <4>1 DEF HomeOf
      <4> QED
        BY <1>3, <2>b, <2>4, <2>6, <4>1, <4>2 DEF AccountOK, Exists, RoleExists
    <3>3. CASE e.kind = "update" /\ e.role # "keep"
      <4>1. written.org = e.org /\ written.role = e.role /\ e.org # Nobody
        BY <1>1, <2>5, <3>3 DEF EditOK, AccessAssumption, Place
      <4>2. e.role # Nobody =>
                /\ RoleExists(e.role) /\ e.org \in Group
                /\ roles[e.role].company = CompanyOf[e.org]
        BY <1>1, <2>2, <3>3 DEF EditOK, EditRow
      <4> QED
        BY <1>3, <2>b, <2>6, <4>1, <4>2 DEF AccountOK, Exists, RoleExists
    <3> QED
      BY <2>3, <3>1, <3>2, <3>3
  <2>8. \A x \in Account : AccountOK(x)'
    <3>1. ASSUME NEW x \in Account \ {b} PROVE AccountOK(x)'
      BY <1>3, <2>b, <2>6 DEF Kept, Rows, AccountOK, Exists, RoleExists
    <3> QED
      BY <2>7, <3>1
  <2> QED
    BY <1>3, <1>4, <1>5, <2>6, <2>8 DEF Kept, Tables, Rows
<1> QED
  BY <1>6, <1>7

-----------------------------------------------------------------------------
(* findMine *)

\* A step of the read of one account.
LEMMA ReadKept ==
    ASSUME AccessAssumption, Kept, NEW a \in Account, NEW m \in ReadRow,
           UNCHANGED <<company, group, roles, accounts, edit, strayed>>,
           mine' = [mine EXCEPT ![a] = m],
           m.pc # "none" => m.org \in Place,
           m.pc \in {"group", "role"} => m.org \in Group
    PROVE  Kept'
<1>1. Tables'
  BY DEF Kept, Tables
<1>2. ASSUME NEW x \in Account PROVE ReadOK(x)'
  BY DEF Kept, Rows, Tables, ReadOK
<1> QED
  BY <1>1, <1>2 DEF Kept, Rows, RoleOK, AccountOK, EditOK, Exists, RoleExists

\* What each step of findMine makes of what was read before.
LEMMA FindMineReads ==
    ASSUME AccessAssumption, Kept, NEW a \in Account,
           FindMine(a) \/ ReadCompanyCodes(a) \/ ReadGroupCodes(a) \/ ReadRole(a) \/ Answer(a)
    PROVE  \E m \in ReadRow :
               /\ mine' = [mine EXCEPT ![a] = m]
               /\ m.pc # "none" => m.org \in Place
               /\ m.pc \in {"group", "role"} => m.org \in Group
               /\ UNCHANGED <<company, group, roles, accounts, edit, strayed>>
               /\ \/ mine[a].pc = "none" /\ m.pc = "company"
                  \/ /\ mine[a].pc = "company" /\ m.org = mine[a].org
                     /\ \/ /\ m.pc = "done" /\ m.org \in Company
                           /\ m.codes = CompanyCodes(m.org)
                        \/ /\ m.pc = "group" /\ m.org \in Group
                           /\ m.held = CompanyCodes(CompanyOf[m.org])
                  \/ /\ mine[a].pc = "group" /\ m.pc = "role" /\ m.org = mine[a].org
                     /\ m.codes = GroupCodes(mine[a].held, CompanyOf[m.org])
                  \/ /\ mine[a].pc = "role" /\ m.pc = "done" /\ m.org = mine[a].org
                     /\ m.org \in Group
                     /\ m.codes = Narrowed(mine[a].codes, accounts[a].role)
                  \/ mine[a].pc = "done" /\ m.pc = "none"
<1>1. mine[a] \in ReadRow /\ ReadOK(a) /\ accounts[a] \in AccountRow /\ AccountOK(a)
  BY DEF Kept, Tables, Rows
<1>2. NoRead \in ReadRow
  BY DEF NoRead, ReadRow
<1>3. CASE FindMine(a)
  <2> DEFINE m == [NoRead EXCEPT !.pc = "company", !.org = accounts[a].org]
  <2>1. accounts[a].org \in Place
    BY <1>1, <1>3 DEF FindMine, AccountOK, Exists, AccountRow
  <2>2. m \in ReadRow /\ m.pc = "company" /\ m.org \in Place
    BY <1>2, <2>1 DEF ReadRow
  <2>3. /\ mine' = [mine EXCEPT ![a] = m] /\ mine[a].pc = "none"
        /\ UNCHANGED <<company, group, roles, accounts, edit, strayed>>
    BY <1>3 DEF FindMine
  <2> HIDE DEF m
  <2> QED
    BY <2>2, <2>3
<1>4. CASE ReadCompanyCodes(a)
  <2> DEFINE org == mine[a].org
             held == CompanyCodes(HomeOf(org))
             m == IF org \in Company THEN [mine[a] EXCEPT !.pc = "done", !.codes = held]
                  ELSE [mine[a] EXCEPT !.pc = "group", !.held = held]
  <2>1. /\ mine[a].pc = "company"
        /\ UNCHANGED <<company, group, roles, accounts, edit, strayed>>
    BY <1>4 DEF ReadCompanyCodes
  <2>2. mine' = [mine EXCEPT ![a] = m]
    BY <1>4 DEF ReadCompanyCodes, Kept, Tables
  <2>3. org \in Place /\ (org \in Company => HomeOf(org) = org)
        /\ (org \in Group => HomeOf(org) = CompanyOf[org])
    BY <1>1, <2>1 DEF ReadOK, HomeOf, AccessAssumption
  <2>4. held \in SUBSET Code
    BY CodesAreCodes
  <2>5. /\ org \in Company => held = CompanyCodes(org)
        /\ org \in Group => held = CompanyCodes(CompanyOf[org])
    BY <2>3
  <2> HIDE DEF held
  <2>6. /\ m \in ReadRow /\ m.org = org
        /\ \/ m.pc = "done" /\ org \in Company /\ m.codes = held
           \/ m.pc = "group" /\ org \in Group /\ m.held = held
    BY <1>1, <2>3, <2>4 DEF ReadRow, Place
  <2> HIDE DEF m
  <2> QED
    BY <2>1, <2>2, <2>3, <2>5, <2>6
<1>5. CASE ReadGroupCodes(a)
  <2> DEFINE org == mine[a].org
             codes == GroupCodes(mine[a].held, CompanyOf[org])
             m == [mine[a] EXCEPT !.pc = "role", !.held = {}, !.codes = codes]
  <2>1. mine[a].pc = "group" /\ UNCHANGED <<company, group, roles, accounts, edit, strayed>>
    BY <1>5 DEF ReadGroupCodes
  <2>2. mine' = [mine EXCEPT ![a] = m]
    BY <1>5 DEF ReadGroupCodes, Kept, Tables
  <2>3. codes \in SUBSET Code /\ org \in Group /\ org \in Place
    BY <1>1, <2>1, GroupCodesDelegable DEF ReadRow, ReadOK
  <2>4. codes = GroupCodes(mine[a].held, CompanyOf[org])
    OBVIOUS
  <2> HIDE DEF codes
  <2>5. m \in ReadRow /\ m.pc = "role" /\ m.org = org /\ m.codes = codes
    BY <1>1, <2>3 DEF ReadRow
  <2> HIDE DEF m
  <2> QED
    BY <2>1, <2>2, <2>3, <2>4, <2>5
<1>6. CASE ReadRole(a)
  <2> DEFINE org == mine[a].org
             codes == Narrowed(mine[a].codes, accounts[a].role)
             m == [mine[a] EXCEPT !.pc = "done", !.codes = codes]
  <2>1. mine[a].pc = "role" /\ UNCHANGED <<company, group, roles, accounts, edit, strayed>>
    BY <1>6 DEF ReadRole
  <2>2. mine' = [mine EXCEPT ![a] = m]
    BY <1>6 DEF ReadRole, Kept, Tables
  <2>3. codes \in SUBSET Code /\ org \in Group /\ org \in Place
    BY <1>1, <2>1 DEF ReadRow, Narrowed, ReadOK
  <2>4. codes = Narrowed(mine[a].codes, accounts[a].role)
    OBVIOUS
  <2> HIDE DEF codes
  <2>5. m \in ReadRow /\ m.pc = "done" /\ m.org = org /\ m.codes = codes
    BY <1>1, <2>3 DEF ReadRow
  <2> HIDE DEF m
  <2> QED
    BY <2>1, <2>2, <2>3, <2>4, <2>5
<1>7. CASE Answer(a)
  BY <1>2, <1>7 DEF Answer, NoRead
<1> QED
  BY <1>3, <1>4, <1>5, <1>6, <1>7

LEMMA StepKept ==
    ASSUME AccessAssumption, Kept, [Next]_accessVars PROVE Kept'
<1>1. CASE UNCHANGED accessVars
  BY <1>1 DEF accessVars, Kept, Tables, Rows, RoleOK, AccountOK, ReadOK, EditOK,
              Exists, RoleExists
<1>2. CASE PermissionStep
  BY <1>2, OverridesKept, CreateRoleKept, UpdateRoleKept, DeleteRoleKept DEF PermissionStep
<1>3. CASE AccountStep
  BY <1>3, CreateKept, UpdateKept, RemoveKept, ToggleKept DEF AccountStep
<1>4. CASE FindMineStep
  BY <1>4, FindMineReads, ReadKept DEF FindMineStep
<1>5. CASE \E q \in Request : Write(q)
  BY <1>5, WriteKept
<1> QED
  BY <1>1, <1>2, <1>3, <1>4, <1>5 DEF Next

LEMMA StartKept == ASSUME AccessAssumption, Init PROVE Kept
<1>1. NoRole \in RoleRow /\ NoAccount \in AccountRow /\ NoEdit \in EditRow /\ NoRead \in ReadRow
  BY DEF NoRole, NoAccount, NoEdit, NoRead, RoleRow, AccountRow, EditRow, ReadRow
<1>2. Tables
  BY <1>1 DEF Init, Tables, Overrides
<1>3. ASSUME NEW r \in Role PROVE RoleOK(r)
  BY DEF Init, RoleOK, NoRole
<1>4. ASSUME NEW a \in Account PROVE AccountOK(a) /\ ReadOK(a)
  BY DEF Init, AccountOK, ReadOK, NoAccount, NoRead, Exists
<1>5. ASSUME NEW q \in Request PROVE EditOK(q)
  BY DEF Init, EditOK, NoEdit, AccessAssumption
<1> QED
  BY <1>2, <1>3, <1>4, <1>5 DEF Kept, Rows

\* The tables keep their types, a role that an account holds exists, and no role
\* has a code that cannot be handed on.
THEOREM AccessTypes == ASSUME AccessAssumption PROVE Spec => []TypeOK
<1>1. Kept => TypeOK
  BY DEF Kept, Tables, Rows, TypeOK, Overrides, RoleRow, AccountRow, AccountOK, RoleExists
<1> QED
  BY <1>1, StartKept, StepKept, PTL DEF Spec

\* Only accounts of groups hold a role, and one of their company unless a request
\* that did not name the role moved them, however many updates, toggles, deletions
\* and changes of roles overlap.
THEOREM RolesStayInCompany == ASSUME AccessAssumption PROVE Spec => []RolesFit
<1>1. Kept => RolesFit
  BY DEF Kept, Rows, RolesFit, AccountOK
<1> QED
  BY <1>1, StartKept, StepKept, PTL DEF Spec

\* Whom a manager sees listed it may change, and the statistics leave out the managers
\* of its company and nobody else, whatever updates are on their way.
THEOREM ListsFollowScope == ASSUME AccessAssumption PROVE Spec => []ListsAgree
<1>1. Kept => ListsAgree
  <2> SUFFICES ASSUME Kept, NEW actor \in Actor
               PROVE  /\ \A a \in Account : a \in Listed(actor) <=> Manageable(actor, accounts[a].org)
                      /\ actor # "super" =>
                           Listed(actor) \ Counted(actor) = {a \in Account : accounts[a].org = actor}
    BY DEF ListsAgree
  <2>1. \A a \in Account : a \in Listed(actor) <=> Manageable(actor, accounts[a].org)
    BY DEF Listed, Manageable, Exists
  <2>2. ASSUME actor # "super"
        PROVE  Listed(actor) \ Counted(actor) = {a \in Account : accounts[a].org = actor}
    <3>1. /\ actor \in Company /\ actor \notin Group /\ actor # Nobody
          /\ Scope(actor) = {actor} \cup {g \in Group : CompanyOf[g] = actor}
      BY <2>2 DEF Actor, Scope, AccessAssumption
    <3>2. \A a \in Account : a \in Listed(actor) /\ a \notin Counted(actor)
                               <=> accounts[a].org = actor
      BY <2>2, <3>1 DEF Listed, Counted, Exists
    <3> QED
      BY <3>2 DEF Listed
  <2> QED
    BY <2>1, <2>2
<1> QED
  BY <1>1, StartKept, StepKept, PTL DEF Spec

-----------------------------------------------------------------------------
(* The codes that findMine answers with. *)

\* The memory of the properties: what was allowed since the read began includes
\* what is allowed now, and what was allowed all the while is.
Watched(a) ==
    /\ Allowed(a).ever \subseteq watch[a].ever
    /\ watch[a].always \subseteq Allowed(a).always

\* What has been read so far, against that memory.
Reading(a) ==
    /\ mine[a].pc = "group" =>
           mine[a].held \ NonDelegable \subseteq watch[a].ever
           /\ watch[a].always \subseteq mine[a].held
    /\ mine[a].pc \in {"role", "done"} =>
           mine[a].codes \subseteq watch[a].ever
           /\ watch[a].always \subseteq mine[a].codes

Answers == \A a \in Account : Watched(a) /\ Reading(a)

\* What is allowed now, when a read is on its way.
LEMMA AllowedNow ==
    ASSUME AccessAssumption, NEW a \in Account, mine[a].pc # "none", mine[a].org \in Place
    PROVE  LET o == mine[a].org IN
           /\ o \in Company => /\ Allowed(a).ever = CompanyCodes(o)
                               /\ Allowed(a).always = CompanyCodes(o)
           /\ o \in Group =>
                /\ Allowed(a).ever = CompanyCodes(CompanyOf[o]) \ NonDelegable
                /\ Allowed(a).always =
                     Narrowed(GroupCodes(CompanyCodes(CompanyOf[o]), CompanyOf[o]),
                              accounts[a].role)
BY DEF Allowed, Ceiling, Effective, AccessAssumption, Place

\* The watch goes on: it only grows on one side, only shrinks on the other, and
\* includes what the new state allows.
LEMMA WatchGoesOn ==
    ASSUME NEW a \in Account, Watch
    PROVE  /\ Allowed(a).ever' \subseteq watch'[a].ever
           /\ watch'[a].always \subseteq Allowed(a).always'
           /\ mine[a].pc # "none" /\ mine'[a].pc # "none" =>
                  /\ watch[a].ever \subseteq watch'[a].ever
                  /\ watch'[a].always \subseteq watch[a].always
<1>1. watch'[a] = IF mine[a].pc = "none" \/ mine'[a].pc = "none" THEN Allowed(a)'
                  ELSE [ever |-> watch[a].ever \cup Allowed(a).ever',
                        always |-> watch[a].always \cap Allowed(a).always']
  BY DEF Watch
<1> QED
  BY <1>1

\* What has been read stays between what was allowed at some and at every moment.
LEMMA OthersRead ==
    ASSUME NEW a \in Account, Reading(a), Watch, mine'[a] = mine[a]
    PROVE  Reading(a)'
<1>1. mine[a].pc # "none" => /\ watch[a].ever \subseteq watch'[a].ever
                             /\ watch'[a].always \subseteq watch[a].always
  BY WatchGoesOn
<1> QED
  BY <1>1 DEF Reading

\* A group's codes, and a role's, are kept by every read in between.
LEMMA NarrowedBetween ==
    ASSUME NEW low, NEW codes, NEW wide, NEW r,
           low \subseteq codes, low \subseteq Narrowed(wide, r)
    PROVE  low \subseteq Narrowed(codes, r) /\ Narrowed(codes, r) \subseteq codes
           /\ low \subseteq wide
BY DEF Narrowed

LEMMA GroupBetween ==
    ASSUME NEW low, NEW held, NEW wide, NEW c,
           low \subseteq held, low \subseteq GroupCodes(wide, c)
    PROVE  /\ low \subseteq GroupCodes(held, c)
           /\ GroupCodes(held, c) \subseteq held \ NonDelegable
BY DEF GroupCodes

\* A step of findMine itself.
LEMMA ReadsOn ==
    ASSUME AccessAssumption, Kept, NEW a \in Account, Watched(a), Reading(a), Watch,
           FindMine(a) \/ ReadCompanyCodes(a) \/ ReadGroupCodes(a) \/ ReadRole(a) \/ Answer(a)
    PROVE  Reading(a)'
<1> DEFINE o == mine[a].org
           c == CompanyOf[o]
<1>1. PICK m \in ReadRow :
          /\ mine' = [mine EXCEPT ![a] = m]
          /\ \/ mine[a].pc = "none" /\ m.pc = "company"
             \/ /\ mine[a].pc = "company" /\ m.org = o
                /\ \/ m.pc = "done" /\ m.org \in Company /\ m.codes = CompanyCodes(m.org)
                   \/ /\ m.pc = "group" /\ m.org \in Group
                      /\ m.held = CompanyCodes(CompanyOf[m.org])
             \/ /\ mine[a].pc = "group" /\ m.pc = "role" /\ m.org = o
                /\ m.codes = GroupCodes(mine[a].held, CompanyOf[m.org])
             \/ /\ mine[a].pc = "role" /\ m.pc = "done" /\ m.org = o /\ m.org \in Group
                /\ m.codes = Narrowed(mine[a].codes, accounts[a].role)
             \/ mine[a].pc = "done" /\ m.pc = "none"
  BY FindMineReads
<1>2. mine'[a] = m
  BY <1>1 DEF Kept, Tables
<1>3. mine[a].pc # "none" /\ m.pc # "none" =>
          /\ watch[a].ever \subseteq watch'[a].ever
          /\ watch'[a].always \subseteq watch[a].always
  BY <1>2, WatchGoesOn
<1>4. ReadOK(a)
  BY DEF Kept, Rows
<1>5. CASE m.pc \in {"none", "company"}
  BY <1>2, <1>5 DEF Reading
<1>6. CASE mine[a].pc = "company" /\ m.pc = "done"
  <2>1. Allowed(a).ever = m.codes /\ Allowed(a).always = m.codes
    BY <1>1, <1>4, <1>6, AllowedNow DEF ReadOK
  <2> QED
    BY <1>2, <1>3, <1>6, <2>1 DEF Reading, Watched
<1>7. CASE mine[a].pc = "company" /\ m.pc = "group"
  <2>1. /\ Allowed(a).ever = m.held \ NonDelegable
        /\ Allowed(a).always = Narrowed(GroupCodes(m.held, c), accounts[a].role)
    BY <1>1, <1>4, <1>7, AllowedNow DEF ReadOK
  <2>2. Allowed(a).always \subseteq m.held
    BY <2>1 DEF Narrowed, GroupCodes
  <2> QED
    BY <1>2, <1>3, <1>7, <2>1, <2>2 DEF Reading, Watched
<1>8. CASE mine[a].pc = "group" /\ m.pc = "role"
  <2> DEFINE low == watch[a].always
             wide == GroupCodes(CompanyCodes(c), c)
  <2>1. o \in Group /\ Allowed(a).always = Narrowed(wide, accounts[a].role)
    BY <1>4, <1>8, AllowedNow DEF ReadOK
  <2>2. low \subseteq mine[a].held /\ low \subseteq wide
        /\ mine[a].held \ NonDelegable \subseteq watch[a].ever
    BY <1>8, <2>1 DEF Reading, Watched, Narrowed
  <2>3. /\ low \subseteq GroupCodes(mine[a].held, c)
        /\ GroupCodes(mine[a].held, c) \subseteq mine[a].held \ NonDelegable
    BY <2>2, GroupBetween
  <2>4. m.codes = GroupCodes(mine[a].held, c)
    BY <1>1, <1>8
  <2> QED
    BY <1>2, <1>3, <1>8, <2>2, <2>3, <2>4 DEF Reading
<1>9. CASE mine[a].pc = "role" /\ m.pc = "done"
  <2> DEFINE low == watch[a].always
             wide == GroupCodes(CompanyCodes(c), c)
  <2>1. o \in Group /\ Allowed(a).always = Narrowed(wide, accounts[a].role)
    BY <1>4, <1>9, AllowedNow DEF ReadOK
  <2>2. low \subseteq mine[a].codes /\ low \subseteq Narrowed(wide, accounts[a].role)
        /\ mine[a].codes \subseteq watch[a].ever
    BY <1>9, <2>1 DEF Reading, Watched
  <2>3. /\ low \subseteq Narrowed(mine[a].codes, accounts[a].role)
        /\ Narrowed(mine[a].codes, accounts[a].role) \subseteq mine[a].codes
    BY <2>2, NarrowedBetween
  <2>4. m.codes = Narrowed(mine[a].codes, accounts[a].role)
    BY <1>1, <1>9
  <2> QED
    BY <1>2, <1>3, <1>9, <2>2, <2>3, <2>4 DEF Reading
<1> QED
  BY <1>1, <1>5, <1>6, <1>7, <1>8, <1>9

LEMMA AnswersKept ==
    ASSUME AccessAssumption, Kept, Answers, Next PROVE Answers'
<1> SUFFICES ASSUME NEW a \in Account PROVE Watched(a)' /\ Reading(a)'
  BY DEF Answers
<1>1. Watch /\ Watched(a) /\ Reading(a)
  BY DEF Next, Answers
<1>2. Watched(a)'
  BY <1>1, WatchGoesOn DEF Watched
<1>3. CASE FindMine(a) \/ ReadCompanyCodes(a) \/ ReadGroupCodes(a) \/ ReadRole(a) \/ Answer(a)
  BY <1>1, <1>2, <1>3, ReadsOn
<1>4. CASE mine'[a] = mine[a]
  BY <1>1, <1>2, <1>4, OthersRead
<1>5. ASSUME NEW b \in Account \ {a},
             FindMine(b) \/ ReadCompanyCodes(b) \/ ReadGroupCodes(b) \/ ReadRole(b) \/ Answer(b)
      PROVE  mine'[a] = mine[a]
  <2>1. PICK m : mine' = [mine EXCEPT ![b] = m]
    BY <1>5, FindMineReads
  <2> QED
    BY <2>1 DEF Kept, Tables
<1>6. CASE PermissionStep
  <2>1. mine' = mine
    BY <1>6 DEF PermissionStep, UpdateCompanyManagerPermission,
                UpdateGroupManagerPermission, CreateRole, UpdateRole, DeleteRole
  <2> QED
    BY <1>4, <2>1
<1>7. CASE AccountStep
  <2>1. mine' = mine
    BY <1>7 DEF AccountStep, Create, Update, Remove, ToggleStatus
  <2> QED
    BY <1>4, <2>1
<1>8. CASE \E q \in Request : Write(q)
  <2>1. mine' = mine
    BY <1>8 DEF Write
  <2> QED
    BY <1>4, <2>1
<1> QED
  BY <1>3, <1>4, <1>5, <1>6, <1>7, <1>8 DEF Next, FindMineStep

\* Whatever changes of overrides, roles and accounts come between the four reads of
\* findMine, a manager is told of no code that the ceiling of its organization did
\* not hold at some moment of the read, and of every code that it had throughout.
THEOREM CodesBetween == ASSUME AccessAssumption PROVE Spec => []CodesWithinCeiling
<1>1. Init => Answers
  <2> SUFFICES ASSUME Init, NEW a \in Account PROVE Watched(a) /\ Reading(a)
    BY DEF Answers
  <2> QED
    BY DEF Init, Watched, Reading, Allowed, NoRead
<1>2. Answers /\ UNCHANGED accessVars => Answers'
  BY DEF accessVars, Answers, Watched, Reading, Allowed, Ceiling, Effective, CompanyCodes,
         GroupCodes, Narrowed
<1>3. Kept /\ Answers /\ [Next]_accessVars => Answers'
  BY <1>2, AnswersKept
<1>4. Answers => CodesWithinCeiling
  BY DEF Answers, Reading, CodesWithinCeiling
<1> QED
  BY <1>1, <1>3, <1>4, StartKept, StepKept, PTL DEF Spec
================================================================================
