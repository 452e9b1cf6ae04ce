------------------------ MODULE EmployeeLifecycleProofs ------------------------
(***************************************************************************)
(* Employees, for any phone numbers, people, devices and requests.  What a  *)
(* table refers to exists whatever overlaps; that a person is one row needs  *)
(* that one request is made at a time, beside the purge.                    *)
(***************************************************************************)
EXTENDS EmployeeLifecycle, TLAPS

AccountRow == [who : Person \cup {Nobody}, isActive : BOOLEAN]

\* A row that can be restored is an archive: it has an id that was made for it and
\* a date of its purge.
Dated(i, row) ==
    /\ row.origin = NoId <=> row.purge = "none"
    /\ row.origin # NoId => i \in Fresh

\* Tables with the columns of their schemas, whose references exist.
Sound(E, A, O, H, T) ==
    /\ DOMAIN E \subseteq Id
    /\ E \in [DOMAIN E -> Row]
    /\ \A i \in DOMAIN E : Dated(i, E[i])
    /\ A \in [DOMAIN A -> AccountRow]
    /\ DOMAIN A \cup T \subseteq DOMAIN E
    /\ O \in [Device -> DOMAIN E \cup {NoId}]
    /\ H \in [Person -> DOMAIN E \cup {NoId}]

\* Ids that are made are new: those there are, were made before.
Made(i, n) == i \in Nat => i <= n
RowsMade(E, n) == \A i \in DOMAIN E : Made(i, n) /\ Made(E[i].origin, n)

Tables ==
    /\ Sound(employee, account, owner, history, targets)
    /\ RowsMade(employee, issued)
    /\ issued \in Nat

TasksTyped == task \in [Task -> StepType]

\* A purge has taken archives; a deletion and a restoration, rows that were there.
Carries(q, n) ==
    /\ q.at = "sweep" => q.ids \subseteq Fresh /\ q.id \in Fresh \cup {NoId}
    /\ q.at = "remove" => \A x \in q.read : Made(x.id, n)
    /\ q.at = "restore" => Made(q.id, n) /\ q.row.origin \in Id /\ Made(q.row.origin, n)

TasksCarry == \A t \in Task : Carries(task[t], issued)

Bounds ==
    /\ ranToday \in BOOLEAN
    /\ requests \in 0..MaxRequests
    /\ restarts \in 0..MaxRestarts

\* The account fits the row it belongs to.
Fits(acc, row) == acc.who \in {row.who, Nobody} \/ row.who = Nobody

\* A row with a name has the records of the person, and what is recorded of a person
\* is under a row with that name or none.
Names(E, A, H) ==
    /\ \A i \in DOMAIN E : E[i].who # Nobody => H[E[i].who] = i
    /\ \A g, h \in Person : H[g] = H[h] => g = h \/ H[g] = NoId
    /\ \A h \in Person : H[h] # NoId => E[H[h]].who \in {h, Nobody}
    /\ \A i \in DOMAIN A : Fits(A[i], E[i])

NamedByRecords == Names(employee, account, history)

RowsInv == Tables /\ TasksTyped /\ TasksCarry /\ Bounds

-----------------------------------------------------------------------------
(* What the operators on tables do.                                         *)

\* An update of the key takes the account along.
LEMMA AccountMoved ==
    ASSUME NEW A, A \in [DOMAIN A -> AccountRow], NEW i, NEW p
    PROVE  /\ Moved(A, i, p) \in [DOMAIN Moved(A, i, p) -> AccountRow]
           /\ i \in DOMAIN A => /\ DOMAIN Moved(A, i, p) = (DOMAIN A \ {i}) \cup {p}
                                /\ Moved(A, i, p)[p] = A[i]
           /\ \A j \in DOMAIN A \ {i, p} : Moved(A, i, p)[j] = A[j]
           /\ i \notin DOMAIN A => Moved(A, i, p) = A
<1>1. CASE i \in DOMAIN A
    <2>1. /\ Without(A, i) \in [DOMAIN A \ {i} -> AccountRow]
          /\ \A j \in DOMAIN A \ {i} : Without(A, i)[j] = A[j]
        BY DEF Without
    <2>2. Moved(A, i, p) = With(Without(A, i), p, A[i])
        BY <1>1 DEF Moved
    <2> QED BY <1>1, <2>1, <2>2 DEF With
<1>2. CASE i \notin DOMAIN A
    BY <1>2 DEF Moved
<1> QED BY <1>1, <1>2

\* updateMany of a column: what named the one row names the other.
LEMMA PointingAt ==
    ASSUME NEW X, NEW S, NEW f \in [X -> S], NEW i, NEW p
    PROVE  /\ Pointing(f, i, p) \in [X -> (S \ {i}) \cup {p}]
           /\ \A x \in X : Pointing(f, i, p)[x] = IF f[x] = i THEN p ELSE f[x]
BY DEF Pointing

\* The accounts stay the ones they are when one is sealed, activated or set.
LEMMA AccountSealed ==
    ASSUME NEW A, A \in [DOMAIN A -> AccountRow], NEW i
    PROVE  /\ Sealed(A, i) \in [DOMAIN A -> AccountRow]
           /\ \A j \in DOMAIN A : Sealed(A, i)[j].who = A[j].who
BY DEF Sealed, AccountRow

LEMMA AccountActivated ==
    ASSUME NEW A, A \in [DOMAIN A -> AccountRow], NEW i
    PROVE  /\ Activated(A, i) \in [DOMAIN A -> AccountRow]
           /\ \A j \in DOMAIN A : Activated(A, i)[j].who = A[j].who
BY DEF Activated, AccountRow

\* A password that comes with an update sets the account of the row, or there is none.
Password(A, B, i, h) ==
    \/ B = A
    \/ /\ B \in [DOMAIN A \cup {i} -> AccountRow]
       /\ B[i].who = h
       /\ \A j \in DOMAIN A \ {i} : B[j] = A[j]

LEMMA AccountSet ==
    ASSUME NEW A, A \in [DOMAIN A -> AccountRow], NEW i,
           NEW h \in Person \cup {Nobody}, NEW B,
           B \in {A, With(A, i, [who |-> h, isActive |-> TRUE])}
    PROVE  Password(A, B, i, h)
<1> DEFINE v == [who |-> h, isActive |-> TRUE]
<1>1. v \in AccountRow /\ v.who = h /\ B \in {A, With(A, i, v)}
    BY DEF AccountRow
<1> HIDE DEF v
<1>2. /\ With(A, i, v) \in [DOMAIN A \cup {i} -> AccountRow]
      /\ With(A, i, v)[i] = v
      /\ \A j \in DOMAIN A \ {i} : With(A, i, v)[j] = A[j]
    BY <1>1 DEF With
<1> QED BY <1>1, <1>2 DEF Password

-----------------------------------------------------------------------------
(* A row and all that belongs to it moves to another id.                     *)

\* G is E with another row for the one at i.
Replaced(E, G, i, p, row) ==
    /\ DOMAIN G = (DOMAIN E \ {i}) \cup {p}
    /\ G[p] = row
    /\ \A j \in DOMAIN E \ {i, p} : G[j] = E[j]

\* B are the accounts after the one under i went to p, or was deleted.
AccountGoes(A, B, i, p) ==
    /\ B \in [DOMAIN B -> AccountRow]
    /\ DOMAIN B \subseteq (DOMAIN A \ {i}) \cup {p}
    /\ \A j \in DOMAIN B \ {p} : B[j].who = A[j].who

\* The account of a row that is archived or restored goes with it.
LEMMA SealedGoes ==
    ASSUME NEW A, A \in [DOMAIN A -> AccountRow], NEW i, NEW p, p \notin DOMAIN A
    PROVE  /\ AccountGoes(A, Moved(Sealed(A, i), i, p), i, p)
           /\ p \in DOMAIN Moved(Sealed(A, i), i, p) =>
                  i \in DOMAIN A /\ Moved(Sealed(A, i), i, p)[p].who = A[i].who
<1> DEFINE S == Sealed(A, i)
<1>1. S \in [DOMAIN A -> AccountRow] /\ \A j \in DOMAIN A : S[j].who = A[j].who
    BY AccountSealed
<1> HIDE DEF S
<1>2. S \in [DOMAIN S -> AccountRow] /\ DOMAIN S = DOMAIN A
    BY <1>1
<1>3. /\ Moved(S, i, p) \in [DOMAIN Moved(S, i, p) -> AccountRow]
      /\ i \in DOMAIN S => /\ DOMAIN Moved(S, i, p) = (DOMAIN S \ {i}) \cup {p}
                           /\ Moved(S, i, p)[p] = S[i]
      /\ \A j \in DOMAIN S \ {i, p} : Moved(S, i, p)[j] = S[j]
      /\ i \notin DOMAIN S => Moved(S, i, p) = S
    BY <1>2, AccountMoved
<1> QED BY <1>1, <1>2, <1>3 DEF AccountGoes, S

LEMMA ActivatedGoes ==
    ASSUME NEW A, A \in [DOMAIN A -> AccountRow], NEW i, NEW p, p \notin DOMAIN A
    PROVE  /\ AccountGoes(A, Activated(Moved(A, i, p), p), i, p)
           /\ p \in DOMAIN Activated(Moved(A, i, p), p) =>
                  i \in DOMAIN A /\ Activated(Moved(A, i, p), p)[p].who = A[i].who
<1> DEFINE M == Moved(A, i, p)
<1>1. /\ M \in [DOMAIN M -> AccountRow]
      /\ i \in DOMAIN A => /\ DOMAIN M = (DOMAIN A \ {i}) \cup {p}
                           /\ M[p] = A[i]
      /\ \A j \in DOMAIN A \ {i, p} : M[j] = A[j]
      /\ i \notin DOMAIN A => M = A
    BY AccountMoved
<1> HIDE DEF M
<1>2. /\ Activated(M, p) \in [DOMAIN M -> AccountRow]
      /\ \A j \in DOMAIN M : Activated(M, p)[j].who = M[j].who
    BY <1>1, AccountActivated
<1> QED BY <1>1, <1>2 DEF AccountGoes, M

LEMMA RowReplaced ==
    ASSUME NEW E, E \in [DOMAIN E -> Row], NEW i, NEW p, NEW row \in Row
    PROVE  /\ Replaced(E, With(Without(E, i), p, row), i, p, row)
           /\ With(Without(E, i), p, row) \in [DOMAIN With(Without(E, i), p, row) -> Row]
<1> DEFINE F == Without(E, i)
<1>1. /\ F \in [DOMAIN E \ {i} -> Row]
      /\ \A j \in DOMAIN E \ {i} : F[j] = E[j]
    BY DEF Without
<1> HIDE DEF F
<1>2. /\ With(F, p, row) \in [(DOMAIN E \ {i}) \cup {p} -> Row]
      /\ With(F, p, row)[p] = row
      /\ \A j \in (DOMAIN E \ {i}) \ {p} : With(F, p, row)[j] = F[j]
    BY <1>1 DEF With
<1> QED BY <1>1, <1>2 DEF F, Replaced

\* The row at i makes way for one at p; the devices go with it or are given back.
LEMMA MoveIsSound ==
    ASSUME EmployeeAssumption,
           NEW E, NEW A, NEW O, NEW H, NEW T, Sound(E, A, O, H, T),
           NEW i \in DOMAIN E, NEW p \in Id, NEW row, Dated(p, row),
           NEW G, Replaced(E, G, i, p, row), G \in [DOMAIN G -> Row],
           NEW B, AccountGoes(A, B, i, p), NEW o, o \in {p, NoId},
           NEW U, U \subseteq (T \ {i}) \cup {p}
    PROVE  Sound(G, B, Pointing(O, i, o), Pointing(H, i, p), U)
<1>1. /\ DOMAIN G = (DOMAIN E \ {i}) \cup {p}
      /\ G[p] = row
      /\ \A j \in DOMAIN E \ {i, p} : G[j] = E[j]
    BY DEF Replaced
<1>2. \A j \in DOMAIN G : Dated(j, G[j])
    BY <1>1 DEF Sound
<1>3. NoId # i
    BY DEF EmployeeAssumption, Sound, Id, Fresh
<1>4. Pointing(O, i, o) \in [Device -> DOMAIN G \cup {NoId}]
    <2>1. O \in [Device -> DOMAIN E \cup {NoId}]
        BY DEF Sound
    <2>2. Pointing(O, i, o) \in [Device -> ((DOMAIN E \cup {NoId}) \ {i}) \cup {o}]
        BY <2>1, PointingAt
    <2> QED BY <1>1, <2>2
<1>5. Pointing(H, i, p) \in [Person -> DOMAIN G \cup {NoId}]
    <2>1. H \in [Person -> DOMAIN E \cup {NoId}]
        BY DEF Sound
    <2>2. Pointing(H, i, p) \in [Person -> ((DOMAIN E \cup {NoId}) \ {i}) \cup {p}]
        BY <2>1, PointingAt
    <2> QED BY <1>1, <2>2
<1>6. DOMAIN B \cup U \subseteq DOMAIN G
    BY <1>1 DEF Sound, AccountGoes
<1>7. DOMAIN G \subseteq Id
    BY <1>1 DEF Sound
<1>8. B \in [DOMAIN B -> AccountRow]
    BY DEF AccountGoes
<1> QED BY <1>2, <1>4, <1>5, <1>6, <1>7, <1>8 DEF Sound

\* The new id was made, and so was the one the row may go back to.
LEMMA MoveIsMade ==
    ASSUME NEW E, NEW n \in Nat, RowsMade(E, n), NEW i, NEW p, NEW row,
           NEW G, Replaced(E, G, i, p, row),
           NEW m \in {n, n + 1}, Made(p, m), Made(row.origin, m)
    PROVE  RowsMade(G, m)
<1>1. ASSUME NEW j \in DOMAIN E \ {i, p} PROVE Made(j, m) /\ Made(G[j].origin, m)
    BY <1>1 DEF RowsMade, Made, Replaced
<1> QED BY <1>1 DEF RowsMade, Replaced

\* Records and account go with the row, which keeps its name or loses it.
LEMMA MoveIsNamed ==
    ASSUME EmployeeAssumption,
           NEW E, NEW A, NEW O, NEW H, NEW T, Sound(E, A, O, H, T), Names(E, A, H),
           NEW i \in DOMAIN E, NEW p \in Id \ DOMAIN E,
           NEW row, row.who \in {E[i].who, Nobody},
           NEW G, Replaced(E, G, i, p, row),
           NEW B, AccountGoes(A, B, i, p), p \in DOMAIN B => Fits(B[p], E[i])
    PROVE  Names(G, B, Pointing(H, i, p))
<1>0. /\ DOMAIN G = (DOMAIN E \ {i}) \cup {p}
      /\ G[p] = row
      /\ \A j \in DOMAIN E \ {i, p} : G[j] = E[j]
      /\ DOMAIN B \subseteq (DOMAIN A \ {i}) \cup {p}
      /\ \A j \in DOMAIN B \ {p} : B[j].who = A[j].who
    BY DEF Replaced, AccountGoes
<1> DEFINE J == Pointing(H, i, p)
<1>1. /\ H \in [Person -> DOMAIN E \cup {NoId}]
      /\ i # NoId /\ p # NoId /\ i # p
      /\ \A j \in DOMAIN E : E[j].who \in Person \cup {Nobody}
    BY EmployeeAssumption DEF EmployeeAssumption, Sound, Id, Fresh, Row
<1>2. \A h \in Person : J[h] = IF H[h] = i THEN p ELSE H[h]
    BY <1>1 DEF Pointing
<1>3. \A h \in Person : H[h] # p
    BY <1>1
<1> HIDE DEF J
<1>4. ASSUME NEW j \in DOMAIN G, G[j].who # Nobody PROVE J[G[j].who] = j
    <2>1. CASE j = p
        BY <1>0, <1>1, <1>2, <1>4, <2>1 DEF Names
    <2>2. CASE j # p
        BY <1>0, <1>1, <1>2, <1>4, <2>2 DEF Names
    <2> QED BY <2>1, <2>2
<1>5. \A g, h \in Person : J[g] = J[h] => g = h \/ J[g] = NoId
    BY <1>0, <1>1, <1>2, <1>3 DEF Names
<1>6. ASSUME NEW h \in Person, J[h] # NoId PROVE G[J[h]].who \in {h, Nobody}
    <2>1. CASE H[h] = i
        BY <1>0, <1>1, <1>2, <2>1 DEF Names
    <2>2. CASE H[h] # i
        BY <1>0, <1>1, <1>2, <1>3, <1>6, <2>2 DEF Names
    <2> QED BY <2>1, <2>2
<1>7. ASSUME NEW j \in DOMAIN B PROVE Fits(B[j], G[j])
    <2>1. CASE j = p
        BY <1>0, <1>7, <2>1 DEF Fits
    <2>2. CASE j # p
        BY <1>0, <1>7, <2>2 DEF Fits, Names, Sound
    <2> QED BY <2>1, <2>2
<1> QED BY <1>4, <1>5, <1>6, <1>7 DEF Names, J

-----------------------------------------------------------------------------
(* What a task does next and has read.                                      *)

\* A step has the fields of its kind.
LEMMA StepFields ==
    ASSUME NEW q \in StepType
    PROVE  /\ q.at \in {"create", "password"} =>
                 q \in [at : {"create", "password"}, id : Phone, who : Person,
                        rest : SUBSET [id : Phone, who : Person]]
           /\ q.at = "update" => q.id \in Id
           /\ q.at = "remove" =>
                 q \in [at : {"remove"}, unread : SUBSET Id,
                        read : SUBSET [id : Id, who : Person \cup {Nobody}]]
           /\ q.at = "status" => q.status \in Status
           /\ q.at = "restore" => q \in [at : {"restore"}, id : Id, row : Row]
           /\ q.at = "sweep" =>
                 q \in [at : {"sweep"}, ids : SUBSET Id, id : Id \cup {NoId}]
           /\ q.at = "assign" => q.id \in Id /\ q.device \in Device
BY DEF StepType

\* An id that was made stays made.
LEMMA MadeLater ==
    ASSUME NEW n \in Nat, NEW i, Made(i, n)
    PROVE  Made(i, n + 1)
BY DEF Made

LEMMA CarriesLater ==
    ASSUME NEW n \in Nat, NEW q, Carries(q, n)
    PROVE  Carries(q, n + 1)
BY MadeLater DEF Carries

\* What a task turns to is a step with what it carries.
LEMMA GotoTyped ==
    ASSUME RowsInv, NEW t \in Task, NEW step \in StepType,
           issued' \in {issued, issued + 1}, Carries(step, issued), Goto(t, step)
    PROVE  TasksTyped' /\ TasksCarry'
<1>1. TasksTyped' /\ \A u \in Task : task'[u] \in {task[u], step}
    BY DEF RowsInv, TasksTyped, Goto
<1>2. \A u \in Task : Carries(task'[u], issued)
    BY <1>1 DEF RowsInv, TasksCarry
<1>3. \A u \in Task : Carries(task'[u], issued')
    BY <1>2, CarriesLater DEF RowsInv, Tables
<1> QED BY <1>1, <1>3 DEF TasksCarry

LEMMA EndTyped ==
    ASSUME RowsInv, NEW t \in Task, issued' \in {issued, issued + 1}, End(t)
    PROVE  TasksTyped' /\ TasksCarry'
<1>1. Idle \in StepType /\ Carries(Idle, issued)
    BY DEF Idle, StepType, Carries
<1>2. Goto(t, Idle)
    BY DEF End, Goto
<1> QED BY <1>1, <1>2, GotoTyped

\* The next row of an upload, or the end of the creation.
LEMMA NextRowTyped ==
    ASSUME RowsInv, NEW r \in Request, issued' = issued,
           NEW rest \in SUBSET [id : Phone, who : Person], NextRow(r, rest)
    PROVE  TasksTyped' /\ TasksCarry'
<1>0. r \in Task
    BY DEF Task
<1>1. CASE rest = {}
    BY <1>0, <1>1, EndTyped DEF NextRow
<1>2. CASE rest # {}
    <2>1. PICK x \in rest : Goto(r, [at |-> "create", id |-> x.id, who |-> x.who,
                                     rest |-> rest \ {x}])
        BY <1>2 DEF NextRow
    <2> DEFINE step == [at |-> "create", id |-> x.id, who |-> x.who, rest |-> rest \ {x}]
    <2>2. step \in StepType /\ step.at = "create"
        BY DEF StepType
    <2>3. Goto(r, step)
        BY <2>1
    <2> HIDE DEF step
    <2>4. Carries(step, issued)
        BY <2>2 DEF Carries
    <2> QED BY <1>0, <2>2, <2>3, <2>4, GotoTyped
<1> QED BY <1>1, <1>2

\* A request begins within its bound and leaves the rows alone.
LEMMA BeginTyped ==
    ASSUME EmployeeAssumption, RowsInv, NEW r, NEW step \in StepType,
           Carries(step, issued), Begin(r, step)
    PROVE  RowsInv'
<1>1. r \in Task /\ Goto(r, step) /\ UNCHANGED <<rows, ranToday, restarts>>
    BY DEF Begin, Goto, Task
<1>2. Tables' /\ issued' = issued
    BY <1>1 DEF RowsInv, Tables, rows
<1>3. TasksTyped' /\ TasksCarry'
    BY <1>1, <1>2, GotoTyped
<1>4. Bounds'
    BY <1>1 DEF RowsInv, Bounds, Begin, EmployeeAssumption
<1> QED BY <1>2, <1>3, <1>4 DEF RowsInv

\* So a step of a task that leaves the bounds alone need only show its rows.
LEMMA StepTyped ==
    ASSUME RowsInv, Tables', TasksTyped', TasksCarry', UNCHANGED <<ranToday, bounds>>
    PROVE  RowsInv'
BY DEF RowsInv, Bounds, bounds

LEMMA RejectedTyped ==
    ASSUME RowsInv, NEW t \in Task, Rejected(t)
    PROVE  RowsInv'
<1>1. Tables' /\ issued' = issued
    BY DEF RowsInv, Tables, Rejected, rows
<1>2. TasksTyped' /\ TasksCarry'
    BY <1>1, EndTyped DEF Rejected
<1> QED BY <1>1, <1>2, StepTyped DEF Rejected

-----------------------------------------------------------------------------
(* The tables after each step that writes them.                             *)

\* A row that is not an archive has no date of its purge.
LEMMA LiveRow ==
    ASSUME NEW h \in Person \cup {Nobody}, NEW s \in Status, NEW i
    PROVE  Live(h, s) \in Row /\ Dated(i, Live(h, s)) /\ Live(h, s).who = h
BY DEF Live, Row, Dated

\* An archive has one, and the id it goes back to.
LEMMA ArchiveRow ==
    ASSUME EmployeeAssumption, NEW h \in Person \cup {Nobody}, NEW i \in Id, NEW n \in Fresh
    PROVE  Archive(h, i) \in Row /\ Dated(n, Archive(h, i)) /\ Archive(h, i).who = h
BY DEF EmployeeAssumption, Archive, Row, Dated, Id, Fresh, Status

\* The next archive or anchor has an id of its kind.
LEMMA NextIssued ==
    ASSUME Tables
    PROVE  issued + 1 \in Fresh /\ issued + 1 \in Id /\ issued + 1 \in Nat
BY DEF Tables, Fresh, Id

LEMMA CreateRowTables ==
    ASSUME EmployeeAssumption, RowsInv, NEW r \in Request, CreateRow(r)
    PROVE  Tables'
<1> DEFINE q == task[r]
<1>1. q.id \in Phone /\ q.who \in Person
    <2>1. q \in StepType /\ q.at = "create"
        BY DEF RowsInv, TasksTyped, Task, CreateRow
    <2> QED BY <2>1, StepFields
<1>2. CASE q.id \in Ids
    <2>1. UNCHANGED rows
        BY <1>2 DEF CreateRow
    <2> QED BY <2>1 DEF RowsInv, Tables, rows
<1>3. CASE q.id \notin Ids
    <2>1. PICK s \in Status : employee' = With(employee, q.id, Live(q.who, s))
        BY <1>3 DEF CreateRow
    <2>2. /\ history' = [history EXCEPT ![q.who] = q.id]
          /\ UNCHANGED <<account, owner, targets, issued>>
        BY <1>3 DEF CreateRow
    <2> DEFINE row == Live(q.who, s)
    <2>3. row \in Row /\ Dated(q.id, row)
        BY <1>1, LiveRow
    <2> HIDE DEF row
    <2>4. /\ employee' \in [DOMAIN employee \cup {q.id} -> Row]
          /\ employee'[q.id] = row
          /\ \A j \in DOMAIN employee \ {q.id} : employee'[j] = employee[j]
        <3>1. employee' = With(employee, q.id, row)
            BY <2>1 DEF row
        <3> QED BY <3>1, <2>3 DEF RowsInv, Tables, Sound, With
    <2>5. DOMAIN employee' = DOMAIN employee \cup {q.id} /\ q.id \in Id
        BY <2>4, <1>1 DEF Id
    <2>6. \A i \in DOMAIN employee' : Dated(i, employee'[i])
        BY <2>3, <2>4, <2>5 DEF RowsInv, Tables, Sound
    <2>7. history' \in [Person -> DOMAIN employee' \cup {NoId}]
        BY <1>1, <2>2, <2>5 DEF RowsInv, Tables, Sound
    <2>8. owner' \in [Device -> DOMAIN employee' \cup {NoId}]
        BY <2>2, <2>5 DEF RowsInv, Tables, Sound
    <2>9. Sound(employee, account, owner, history, targets)'
        BY <2>2, <2>4, <2>5, <2>6, <2>7, <2>8 DEF RowsInv, Tables, Sound
    <2>10. q.id \notin Nat /\ row.origin = NoId /\ NoId \notin Nat
        BY <1>1, EmployeeAssumption DEF EmployeeAssumption, row, Live
    <2>11. RowsMade(employee, issued)'
        BY <2>2, <2>4, <2>5, <2>10 DEF RowsInv, Tables, RowsMade, Made
    <2> QED BY <2>2, <2>9, <2>11 DEF RowsInv, Tables
<1> QED BY <1>2, <1>3

\* Other accounts of the rows there are.
LEMMA AccountsSound ==
    ASSUME NEW E, NEW A, NEW O, NEW H, NEW T, Sound(E, A, O, H, T),
           NEW D, D \subseteq DOMAIN E, NEW B \in [D -> AccountRow]
    PROVE  Sound(E, B, O, H, T)
BY DEF Sound

\* Rows with another status or purge, under the ids there are.
LEMMA RowsSound ==
    ASSUME NEW E, NEW A, NEW O, NEW H, NEW T, Sound(E, A, O, H, T),
           NEW F \in [DOMAIN E -> Row], \A i \in DOMAIN E : Dated(i, F[i])
    PROVE  Sound(F, A, O, H, T)
BY DEF Sound

LEMMA CreateAccountTables ==
    ASSUME EmployeeAssumption, RowsInv, NEW r \in Request, CreateAccount(r)
    PROVE  Tables'
<1> DEFINE q == task[r]
           v == [who |-> q.who, isActive |-> TRUE]
<1>1. v \in AccountRow
    <2>1. q \in StepType /\ q.at = "password"
        BY DEF RowsInv, TasksTyped, Task, CreateAccount
    <2>2. q.who \in Person
        BY <2>1, StepFields
    <2> QED BY <2>2 DEF AccountRow
<1>2. account' = IF q.id \in Ids THEN With(account, q.id, v) ELSE account
    BY DEF CreateAccount
<1> HIDE DEF v
<1>3. /\ account \in [DOMAIN account -> AccountRow]
      /\ DOMAIN account \subseteq DOMAIN employee
    BY DEF RowsInv, Tables, Sound
<1>4. UNCHANGED <<employee, owner, history, targets, issued>>
    BY DEF CreateAccount
<1>5. CASE q.id \in Ids
    <2> DEFINE D == DOMAIN account \cup {q.id}
    <2>1. account' \in [D -> AccountRow]
        BY <1>1, <1>2, <1>3, <1>5 DEF With
    <2>2. D \subseteq DOMAIN employee
        BY <1>3, <1>5 DEF Ids
    <2> HIDE DEF D
    <2>3. Sound(employee, account', owner, history, targets)
        BY <2>1, <2>2, AccountsSound DEF RowsInv, Tables
    <2> QED BY <1>4, <2>3 DEF RowsInv, Tables
<1>6. CASE q.id \notin Ids
    BY <1>2, <1>4, <1>6 DEF RowsInv, Tables
<1> QED BY <1>5, <1>6

LEMMA UpdateRowTables ==
    ASSUME EmployeeAssumption, RowsInv, NEW r \in Request,
           NEW status \in Status \cup {"same"}, NEW password \in BOOLEAN,
           UpdateRow(r, status, password)
    PROVE  Tables' /\ (NamedByRecords => NamedByRecords')
<1> DEFINE i == task[r].id
           s == IF status = "same" THEN employee[i].status ELSE status
           B == account'
<1>1. /\ i \in DOMAIN employee
      /\ employee' = [employee EXCEPT ![i].status = s]
      /\ B \in {account, With(account, i, [who |-> employee[i].who, isActive |-> TRUE])}
      /\ UNCHANGED <<owner, history, targets, issued>>
    BY DEF UpdateRow, Ids, PasswordSet
<1> HIDE DEF i, B
<1>2. /\ Sound(employee, account, owner, history, targets)
      /\ employee \in [DOMAIN employee -> Row]
      /\ account \in [DOMAIN account -> AccountRow]
      /\ DOMAIN account \subseteq DOMAIN employee
    BY DEF RowsInv, Tables, Sound
<1>3. employee[i].who \in Person \cup {Nobody} /\ s \in Status
    BY <1>1, <1>2 DEF Row
<1> HIDE DEF s
<1>4. Password(account, B, i, employee[i].who)
    BY <1>1, <1>2, <1>3, AccountSet
<1>5. /\ employee' \in [DOMAIN employee -> Row]
      /\ \A j \in DOMAIN employee : /\ employee'[j].who = employee[j].who
                                    /\ employee'[j].origin = employee[j].origin
                                    /\ employee'[j].purge = employee[j].purge
    BY <1>1, <1>2, <1>3 DEF Row
<1>6. Sound(employee', account, owner, history, targets)
    BY <1>2, <1>5, RowsSound DEF Sound, Dated
<1>7. Sound(employee', B, owner, history, targets)
    <2>1. CASE B = account
        BY <1>6, <2>1
    <2>2. CASE B \in [DOMAIN account \cup {i} -> AccountRow]
        <3>1. DOMAIN account \cup {i} \subseteq DOMAIN employee'
            BY <1>1, <1>2, <1>5
        <3> QED BY <1>6, <2>2, <3>1, AccountsSound
    <2> QED BY <1>4, <2>1, <2>2 DEF Password
<1>8. RowsMade(employee', issued)
    BY <1>5 DEF RowsInv, Tables, RowsMade
<1>9. NamedByRecords => NamedByRecords'
    BY <1>1, <1>2, <1>4, <1>5 DEF NamedByRecords, Names, Fits, Sound, Password, B
<1> QED BY <1>1, <1>7, <1>8, <1>9 DEF RowsInv, Tables, B

\* A number that is free.
LEMMA ChangeIdTables ==
    ASSUME EmployeeAssumption, RowsInv, NEW r \in Request,
           NEW p \in Phone, NEW named \in BOOLEAN,
           NEW status \in Status \cup {"same"}, NEW password \in BOOLEAN,
           ChangeId(r, p, named, status, password)
    PROVE  Tables' /\ (NamedByRecords => NamedByRecords')
<1> DEFINE i == task[r].id
           w == employee[i].who
           h == IF named THEN w ELSE Nobody
           s == IF status = "same" THEN "ACTIVE" ELSE status
           row == Live(h, s)
           A == Moved(account, i, p)
           B == account'
           G == With(Without(employee, i), p, row)
<1>1. /\ i \in DOMAIN employee /\ p \notin DOMAIN employee
      /\ employee' = G
      /\ B \in {A, With(A, p, [who |-> w, isActive |-> TRUE])}
      /\ owner' = Pointing(owner, i, p)
      /\ history' = Pointing(history, i, p)
      /\ targets' = Renamed(targets, i, p)
      /\ issued' = issued
      /\ h \in {w, Nobody}
      /\ s \in Status
    BY DEF ChangeId, Ids, PasswordSet, Status
<1> HIDE DEF i, h, s, B
<1>2. /\ Sound(employee, account, owner, history, targets)
      /\ employee \in [DOMAIN employee -> Row]
      /\ account \in [DOMAIN account -> AccountRow]
      /\ DOMAIN account \subseteq DOMAIN employee
      /\ RowsMade(employee, issued) /\ issued \in Nat
    BY DEF RowsInv, Tables, Sound
<1>3. w \in Person \cup {Nobody}
    BY <1>1, <1>2 DEF Row
<1>4. row \in Row /\ Dated(p, row) /\ row.who = h /\ row.origin = NoId
    BY <1>1, <1>3, LiveRow DEF Live
<1>5. p \in Id /\ p \notin Nat /\ NoId \notin Nat
    BY DEF EmployeeAssumption, Id
<1> HIDE DEF row
<1>6. Replaced(employee, G, i, p, row) /\ G \in [DOMAIN G -> Row]
    BY <1>2, <1>4, RowReplaced
<1>7. /\ A \in [DOMAIN A -> AccountRow]
      /\ i \in DOMAIN account => /\ DOMAIN A = (DOMAIN account \ {i}) \cup {p}
                                 /\ A[p] = account[i]
      /\ \A j \in DOMAIN account \ {i, p} : A[j] = account[j]
      /\ i \notin DOMAIN account => A = account
    BY <1>2, AccountMoved
<1> HIDE DEF A, G
<1>8. Password(A, B, p, w)
    BY <1>1, <1>3, <1>7, AccountSet
<1>9. AccountGoes(account, B, i, p)
    BY <1>7, <1>8 DEF Password, AccountGoes
<1>10. Sound(employee', B, owner', history', targets')
    <2>1. Renamed(targets, i, p) \subseteq (targets \ {i}) \cup {p}
        BY DEF Renamed
    <2>2. Sound(G, B, Pointing(owner, i, p), Pointing(history, i, p), Renamed(targets, i, p))
        BY <1>1, <1>2, <1>4, <1>5, <1>6, <1>9, <2>1, MoveIsSound
    <2> QED BY <1>1, <2>2
<1>11. RowsMade(employee', issued)
    <2>1. Made(p, issued) /\ Made(row.origin, issued)
        BY <1>4, <1>5 DEF Made
    <2> QED BY <1>1, <1>2, <1>6, <2>1, MoveIsMade
<1>12. ASSUME NamedByRecords PROVE NamedByRecords'
    <2>1. Names(employee, account, history)
        BY <1>12 DEF NamedByRecords
    <2>2. p \in DOMAIN B => Fits(B[p], employee[i])
        BY <1>1, <1>2, <1>7, <1>8, <2>1 DEF Fits, Names, Password
    <2>3. row.who \in {employee[i].who, Nobody}
        BY <1>1, <1>4
    <2>4. Names(G, B, Pointing(history, i, p))
        BY <1>1, <1>2, <1>5, <1>6, <1>9, <2>1, <2>2, <2>3, MoveIsNamed
    <2> QED BY <1>1, <2>4 DEF NamedByRecords, B
<1> QED BY <1>1, <1>2, <1>10, <1>11, <1>12 DEF Tables, B

\* An id that is still to be made is nobody's.
LEMMA NextIsFree ==
    ASSUME Tables
    PROVE  issued + 1 \notin DOMAIN employee /\ issued + 1 \notin DOMAIN account
BY DEF Tables, Sound, RowsMade, Made

\* moveEmployeeToDeletedArchive, of whatever name.
LEMMA ArchiveTables ==
    ASSUME EmployeeAssumption, Tables, NEW i \in DOMAIN employee,
           NEW w \in Person \cup {Nobody},
           NEW n, n = issued + 1,
           NEW G, G = With(Without(employee, i), n, Archive(w, i)),
           NEW B, B = Moved(Sealed(account, i), i, n)
    PROVE  /\ Sound(G, B, Pointing(owner, i, n), Pointing(history, i, n), targets \ {i})
           /\ RowsMade(G, n)
           /\ Replaced(employee, G, i, n, Archive(w, i))
           /\ w = employee[i].who /\ NamedByRecords => Names(G, B, Pointing(history, i, n))
<1> DEFINE row == Archive(w, i)
<1>1. /\ Sound(employee, account, owner, history, targets)
      /\ employee \in [DOMAIN employee -> Row]
      /\ account \in [DOMAIN account -> AccountRow]
      /\ DOMAIN account \subseteq DOMAIN employee
      /\ RowsMade(employee, issued) /\ issued \in Nat
      /\ i \in Id
    BY DEF Tables, Sound
<1>2. n \in Fresh /\ n \in Id /\ n \in {issued, issued + 1}
    BY NextIssued
<1>3. n \notin DOMAIN employee /\ n \notin DOMAIN account
    BY NextIsFree
<1>4. row \in Row /\ Dated(n, row) /\ row.who = w /\ row.origin = i
    BY <1>1, <1>2, ArchiveRow DEF Archive
<1> HIDE DEF row
<1>5. G = With(Without(employee, i), n, row)
    BY DEF row
<1>6. Replaced(employee, G, i, n, row) /\ G \in [DOMAIN G -> Row]
    BY <1>1, <1>4, <1>5, RowReplaced
<1>7. /\ AccountGoes(account, B, i, n)
      /\ n \in DOMAIN B => i \in DOMAIN account /\ B[n].who = account[i].who
    BY <1>1, <1>3, SealedGoes
<1>8. Sound(G, B, Pointing(owner, i, n), Pointing(history, i, n), targets \ {i})
    BY <1>1, <1>2, <1>4, <1>6, <1>7, MoveIsSound
<1>9. RowsMade(G, n)
    <2>1. Made(n, n) /\ Made(row.origin, n)
        BY <1>1, <1>4 DEF RowsMade, Made
    <2> QED BY <1>1, <1>2, <1>6, <2>1, MoveIsMade
<1>10. ASSUME w = employee[i].who, NamedByRecords
       PROVE  Names(G, B, Pointing(history, i, n))
    <2>1. Names(employee, account, history)
        BY <1>10 DEF NamedByRecords
    <2>2. n \in DOMAIN B => Fits(B[n], employee[i])
        BY <1>7, <2>1 DEF Fits, Names
    <2> QED BY <1>1, <1>2, <1>3, <1>4, <1>6, <1>7, <1>10, <2>1, <2>2, MoveIsNamed
<1> QED BY <1>6, <1>8, <1>9, <1>10 DEF row

\* removeEmployeeById: under the name that was read.
LEMMA RemoveRowTables ==
    ASSUME EmployeeAssumption, RowsInv, NEW r \in Request, NEW x, RemoveRow(r, x)
    PROVE  /\ Tables'
           /\ NamedByRecords /\ (x.id \in Ids => employee[x.id].who = x.who) => NamedByRecords'
<1>1. x.who \in Person \cup {Nobody}
    <2>1. task[r] \in StepType /\ task[r].at = "remove" /\ x \in task[r].read
        BY DEF RowsInv, TasksTyped, Task, RemoveRow
    <2>2. x \in [id : Id, who : Person \cup {Nobody}]
        BY <2>1, StepFields
    <2> QED BY <2>2
<1>2. CASE x.id \notin Ids
    <2>1. UNCHANGED rows
        BY <1>2 DEF RemoveRow
    <2> QED BY <2>1 DEF RowsInv, Tables, NamedByRecords, rows
<1>3. CASE x.id \in Ids
    <2> DEFINE i == x.id
               w == x.who
    <2>1. /\ i \in DOMAIN employee
          /\ employee' = With(Without(employee, i), issued + 1, Archive(w, i))
          /\ account' = Moved(Sealed(account, i), i, issued + 1)
          /\ owner' = Pointing(owner, i, issued + 1)
          /\ history' = Pointing(history, i, issued + 1)
          /\ targets' = targets \ {i}
          /\ issued' = issued + 1
        BY <1>3 DEF RemoveRow, Ids
    <2> HIDE DEF i, w
    <2>2. Tables /\ w \in Person \cup {Nobody}
        BY <1>1 DEF RowsInv, w
    <2>3. /\ Sound(employee', account', owner', history', targets')
          /\ RowsMade(employee', issued')
          /\ w = employee[i].who /\ NamedByRecords => Names(employee', account', history')
        BY <2>1, <2>2, ArchiveTables
    <2>4. issued' \in Nat
        BY <2>1, <2>2 DEF Tables
    <2> QED BY <1>3, <2>3, <2>4 DEF Tables, NamedByRecords, i, w
<1> QED BY <1>2, <1>3

\* A number that is another's: the holder is archived, then the row takes its number.
LEMMA TakeIdTables ==
    ASSUME EmployeeAssumption, RowsInv, NEW r \in Request,
           NEW p \in Phone, NEW named \in BOOLEAN,
           NEW status \in Status \cup {"same"}, NEW password \in BOOLEAN,
           TakeId(r, p, named, status, password)
    PROVE  Tables' /\ (NamedByRecords => NamedByRecords')
<1> DEFINE i == task[r].id
           n == issued + 1
           w == employee[i].who
           h == IF named THEN w ELSE Nobody
           s == IF status = "same" THEN "ACTIVE" ELSE status
           row == Live(h, s)
           old == Archive(employee[p].who, p)
           E1 == With(Without(employee, p), n, old)
           A1 == Moved(Sealed(account, p), p, n)
           O1 == Pointing(owner, p, n)
           H1 == Pointing(history, p, n)
           T1 == targets \ {p}
           A2 == Moved(A1, i, p)
           B == account'
           G == employee'
<1>1. /\ i \in DOMAIN employee /\ p \in DOMAIN employee /\ i # p
      /\ G = With(With(Without(employee, i), n, old), p, row)
      /\ B \in {A2, With(A2, p, [who |-> w, isActive |-> TRUE])}
      /\ owner' = Pointing(O1, i, p)
      /\ history' = Pointing(H1, i, p)
      /\ targets' = Renamed(T1, i, p)
      /\ issued' = n
      /\ h \in {w, Nobody}
      /\ s \in Status
    BY DEF TakeId, Ids, PasswordSet, Status, HandedOver
<1> HIDE DEF i, h, s, B, G
<1>2. /\ Tables
      /\ Sound(employee, account, owner, history, targets)
      /\ employee \in [DOMAIN employee -> Row]
      /\ issued \in Nat
    BY DEF RowsInv, Tables, Sound
<1>3. w \in Person \cup {Nobody} /\ employee[p].who \in Person \cup {Nobody}
    BY <1>1, <1>2 DEF Row
<1>4. /\ Sound(E1, A1, O1, H1, T1)
      /\ RowsMade(E1, n)
      /\ Replaced(employee, E1, p, n, old)
      /\ NamedByRecords => Names(E1, A1, H1)
    BY <1>1, <1>2, <1>3, ArchiveTables
<1>5. row \in Row /\ Dated(p, row) /\ row.who = h /\ row.origin = NoId
    BY <1>1, <1>3, LiveRow DEF Live
<1>6. p \in Id /\ p \notin Nat /\ NoId \notin Nat /\ n \in Nat /\ n # p
    BY <1>2 DEF EmployeeAssumption, Id
<1>7. n \notin DOMAIN employee /\ n # i
    BY <1>1, <1>2, NextIsFree
<1> HIDE DEF row, w, n, E1, old
<1>8. /\ i \in DOMAIN E1 /\ E1[i].who = w /\ p \notin DOMAIN E1
    BY <1>1, <1>4, <1>6, <1>7 DEF Replaced, w
<1>9. Replaced(E1, G, i, p, row) /\ G \in [DOMAIN G -> Row]
    <2> DEFINE F == Without(employee, i)
               K == With(F, n, old)
    <2>1. /\ F \in [DOMAIN employee \ {i} -> Row]
          /\ \A j \in DOMAIN employee \ {i} : F[j] = employee[j]
        BY <1>2 DEF Without
    <2>2. old \in Row
        BY <1>4 DEF Replaced, Sound
    <2> HIDE DEF F
    <2>3. /\ K \in [(DOMAIN employee \ {i}) \cup {n} -> Row]
          /\ K[n] = old
          /\ \A j \in (DOMAIN employee \ {i}) \ {n} : K[j] = F[j]
        BY <2>1, <2>2 DEF With
    <2>4. G = With(K, p, row)
        BY <1>1 DEF F
    <2> HIDE DEF K
    <2>5. /\ G \in [(DOMAIN employee \ {i}) \cup {n, p} -> Row]
          /\ G[p] = row
          /\ \A j \in ((DOMAIN employee \ {i}) \cup {n}) \ {p} : G[j] = K[j]
        BY <1>5, <2>3, <2>4 DEF With
    <2>6. /\ DOMAIN E1 = (DOMAIN employee \ {p}) \cup {n}
          /\ E1[n] = old
          /\ \A j \in DOMAIN employee \ {p, n} : E1[j] = employee[j]
        BY <1>4 DEF Replaced
    <2>7. DOMAIN G = (DOMAIN E1 \ {i}) \cup {p}
        BY <1>1, <1>7, <2>5, <2>6
    <2>8. \A j \in DOMAIN E1 \ {i, p} : G[j] = E1[j]
        BY <1>6, <1>7, <2>1, <2>3, <2>5, <2>6
    <2> QED BY <2>5, <2>7, <2>8 DEF Replaced
<1>10. A1 \in [DOMAIN A1 -> AccountRow] /\ p \notin DOMAIN A1
    BY <1>4, <1>8 DEF Sound
<1> HIDE DEF A1
<1>11. /\ A2 \in [DOMAIN A2 -> AccountRow]
       /\ i \in DOMAIN A1 => /\ DOMAIN A2 = (DOMAIN A1 \ {i}) \cup {p}
                             /\ A2[p] = A1[i]
       /\ \A j \in DOMAIN A1 \ {i, p} : A2[j] = A1[j]
       /\ i \notin DOMAIN A1 => A2 = A1
    BY <1>10, AccountMoved
<1> HIDE DEF A2, O1, H1, T1
<1>12. Password(A2, B, p, w)
    BY <1>1, <1>3, <1>11, AccountSet
<1>13. AccountGoes(A1, B, i, p)
    BY <1>11, <1>12 DEF Password, AccountGoes
<1>14. Sound(G, B, owner', history', targets')
    <2>1. Renamed(T1, i, p) \subseteq (T1 \ {i}) \cup {p}
        BY DEF Renamed
    <2>2. Sound(G, B, Pointing(O1, i, p), Pointing(H1, i, p), Renamed(T1, i, p))
        BY <1>4, <1>5, <1>6, <1>8, <1>9, <1>13, <2>1, MoveIsSound
    <2> QED BY <1>1, <2>2
<1>15. RowsMade(G, n)
    <2>1. Made(p, n) /\ Made(row.origin, n)
        BY <1>5, <1>6 DEF Made
    <2> QED BY <1>4, <1>6, <1>9, <2>1, MoveIsMade
<1>16. ASSUME NamedByRecords PROVE NamedByRecords'
    <2>1. Names(E1, A1, H1)
        BY <1>4, <1>16
    <2>2. p \in DOMAIN B => Fits(B[p], E1[i])
        BY <1>8, <1>10, <1>11, <1>12, <2>1 DEF Fits, Names, Password
    <2>3. row.who \in {E1[i].who, Nobody}
        BY <1>1, <1>5, <1>8
    <2>4. Names(G, B, Pointing(H1, i, p))
        BY <1>4, <1>6, <1>8, <1>9, <1>13, <2>1, <2>2, <2>3, MoveIsNamed
    <2> QED BY <1>1, <2>4 DEF NamedByRecords, B, G
<1> QED BY <1>1, <1>6, <1>14, <1>15, <1>16 DEF Tables, B, G

\* restoreDeletedEmployee, under the name and number that were read.
LEMMA RestoreRowTables ==
    ASSUME EmployeeAssumption, RowsInv, NEW r \in Request, RestoreRow(r)
    PROVE  /\ Tables'
           /\ NamedByRecords /\ (task[r].id \in Ids =>
                                    employee[task[r].id].who = task[r].row.who)
              => NamedByRecords'
<1>1. /\ task[r].row \in Row
      /\ task[r].row.origin \in Id /\ Made(task[r].row.origin, issued)
    <2>1. task[r] \in StepType /\ task[r].at = "restore" /\ Carries(task[r], issued)
        BY DEF RowsInv, TasksTyped, TasksCarry, Task, RestoreRow
    <2> QED BY <2>1, StepFields DEF Carries
<1>2. CASE RestoreThrows(task[r].id, task[r].row.origin)
    <2>1. UNCHANGED rows
        BY <1>2 DEF RestoreRow
    <2> QED BY <2>1 DEF RowsInv, Tables, NamedByRecords, rows
<1>3. CASE ~RestoreThrows(task[r].id, task[r].row.origin)
    <2> DEFINE i == task[r].id
               p == task[r].row.origin
               w == task[r].row.who
    <2>1. PICK s \in {"ACTIVE", "EXCEPTION"} :
              employee' = With(Without(employee, i), p, Live(w, s))
        BY <1>3 DEF RestoreRow
    <2> DEFINE row == Live(w, s)
               G == With(Without(employee, i), p, row)
               B == Activated(Moved(account, i, p), p)
    <2>2. /\ i \in DOMAIN employee /\ p \notin DOMAIN employee
          /\ employee' = G
          /\ account' = B
          /\ owner' = Pointing(owner, i, p)
          /\ history' = Pointing(history, i, p)
          /\ targets' = Renamed(targets, i, p)
          /\ issued' = issued
        BY <1>3, <2>1 DEF RestoreRow, RestoreThrows, Ids
    <2>3. /\ Sound(employee, account, owner, history, targets)
          /\ employee \in [DOMAIN employee -> Row]
          /\ account \in [DOMAIN account -> AccountRow]
          /\ DOMAIN account \subseteq DOMAIN employee
          /\ RowsMade(employee, issued) /\ issued \in Nat
        BY DEF RowsInv, Tables, Sound
    <2>4. p \in Id /\ Made(p, issued) /\ w \in Person \cup {Nobody} /\ s \in Status
        BY <1>1 DEF Row, Status
    <2>5. (i \in Ids => employee[i].who = w) => w = employee[i].who
        BY <2>2 DEF Ids
    <2> HIDE DEF i, p, w
    <2>6. /\ row \in Row /\ Dated(p, row) /\ row.who = w
          /\ row.origin = NoId /\ Made(row.origin, issued)
        BY <2>4, LiveRow DEF Live, EmployeeAssumption, Made
    <2> HIDE DEF row
    <2>7. Replaced(employee, G, i, p, row) /\ G \in [DOMAIN G -> Row]
        BY <2>3, <2>6, RowReplaced
    <2>8. /\ AccountGoes(account, B, i, p)
          /\ p \in DOMAIN B => i \in DOMAIN account /\ B[p].who = account[i].who
        BY <2>2, <2>3, ActivatedGoes
    <2> HIDE DEF G, B
    <2>9. Renamed(targets, i, p) \subseteq (targets \ {i}) \cup {p}
        BY DEF Renamed
    <2>10. Sound(G, B, Pointing(owner, i, p), Pointing(history, i, p), Renamed(targets, i, p))
        BY <2>2, <2>3, <2>4, <2>6, <2>7, <2>8, <2>9, MoveIsSound
    <2>11. RowsMade(G, issued)
        BY <2>3, <2>4, <2>6, <2>7, MoveIsMade
    <2>12. ASSUME NamedByRecords, w = employee[i].who PROVE NamedByRecords'
        <3>1. Names(employee, account, history)
            BY <2>12 DEF NamedByRecords
        <3>2. p \in DOMAIN B => Fits(B[p], employee[i])
            BY <2>8, <3>1 DEF Fits, Names
        <3>3. Names(G, B, Pointing(history, i, p))
            BY <2>2, <2>3, <2>4, <2>6, <2>7, <2>8, <2>12, <3>1, <3>2, MoveIsNamed
        <3> QED BY <2>2, <3>3 DEF NamedByRecords
    <2> QED BY <2>2, <2>3, <2>5, <2>10, <2>11, <2>12 DEF Tables, i, w
<1> QED BY <1>2, <1>3

\* The purge: an anchor without a name of its own keeps the records.
LEMMA SweepRowTables ==
    ASSUME EmployeeAssumption, RowsInv, NEW t \in Task, SweepRow(t)
    PROVE  Tables' /\ (NamedByRecords => NamedByRecords')
<1>1. CASE task[t].id \notin Ids
    <2>1. UNCHANGED rows
        BY <1>1 DEF SweepRow
    <2> QED BY <2>1 DEF RowsInv, Tables, NamedByRecords, rows
<1>2. CASE task[t].id \in Ids
    <2> DEFINE i == task[t].id
               n == issued + 1
               w == employee[i].who
               row == Live(w, "DELETE")
               G == With(Without(employee, i), n, row)
               B == Without(account, i)
    <2>1. /\ i \in DOMAIN employee
          /\ employee' = G
          /\ account' = B
          /\ owner' = Pointing(owner, i, NoId)
          /\ history' = Pointing(history, i, n)
          /\ targets' = targets \ {i}
          /\ issued' = n
        BY <1>2 DEF SweepRow, Ids
    <2> HIDE DEF i
    <2>2. /\ Tables
          /\ Sound(employee, account, owner, history, targets)
          /\ employee \in [DOMAIN employee -> Row]
          /\ account \in [DOMAIN account -> AccountRow]
          /\ DOMAIN account \subseteq DOMAIN employee
          /\ RowsMade(employee, issued) /\ issued \in Nat
        BY DEF RowsInv, Tables, Sound
    <2>3. /\ n \in Fresh /\ n \in Id /\ n \in {issued, issued + 1} /\ n \in Nat
          /\ n \notin DOMAIN employee /\ n \notin DOMAIN account
        BY <2>2, NextIssued, NextIsFree
    <2> HIDE DEF n
    <2>4. w \in Person \cup {Nobody}
        BY <2>1, <2>2 DEF Row
    <2>5. /\ row \in Row /\ Dated(n, row) /\ row.who = w
          /\ Made(row.origin, n) /\ Made(n, n)
        <3>1. "DELETE" \in Status
            BY DEF Status
        <3>2. row.origin = NoId
            BY DEF Live
        <3>3. Made(NoId, n) /\ Made(n, n)
            BY <2>3 DEF EmployeeAssumption, Made
        <3> QED BY <2>4, <3>1, <3>2, <3>3, LiveRow
    <2> HIDE DEF row
    <2>6. Replaced(employee, G, i, n, row) /\ G \in [DOMAIN G -> Row]
        BY <2>2, <2>5, RowReplaced
    <2>7. AccountGoes(account, B, i, n) /\ n \notin DOMAIN B
        BY <2>2, <2>3 DEF AccountGoes, Without
    <2> HIDE DEF G, B
    <2>8. Sound(G, B, Pointing(owner, i, NoId), Pointing(history, i, n), targets \ {i})
        BY <2>1, <2>2, <2>3, <2>5, <2>6, <2>7, MoveIsSound
    <2>9. RowsMade(G, n)
        BY <2>2, <2>3, <2>5, <2>6, MoveIsMade
    <2>10. ASSUME NamedByRecords PROVE NamedByRecords'
        <3>1. Names(employee, account, history)
            BY <2>10 DEF NamedByRecords
        <3>2. row.who \in {employee[i].who, Nobody}
            BY <2>5
        <3>3. Names(G, B, Pointing(history, i, n))
            BY <2>1, <2>2, <2>3, <2>6, <2>7, <3>1, <3>2, MoveIsNamed
        <3> QED BY <2>1, <3>3 DEF NamedByRecords
    <2> QED BY <2>1, <2>3, <2>8, <2>9, <2>10 DEF Tables
<1> QED BY <1>1, <1>2

\* A change of nothing but statuses and dates of a purge.
LEMMA RestatedTables ==
    ASSUME RowsInv, UNCHANGED <<account, owner, history, issued>>, targets' \subseteq targets,
           employee' \in [DOMAIN employee -> Row],
           \A j \in DOMAIN employee : /\ Dated(j, employee'[j])
                                      /\ employee'[j].who = employee[j].who
                                      /\ employee'[j].origin = employee[j].origin
    PROVE  Tables' /\ (NamedByRecords => NamedByRecords')
<1>1. Sound(employee', account, owner, history, targets)
    BY RowsSound DEF RowsInv, Tables
<1>2. Sound(employee', account', owner', history', targets')
    BY <1>1 DEF Sound
<1>3. RowsMade(employee', issued)
    BY DEF RowsInv, Tables, RowsMade
<1>4. NamedByRecords => NamedByRecords'
    BY DEF NamedByRecords, Names, Fits, RowsInv, Tables, Sound
<1> QED BY <1>2, <1>3, <1>4 DEF RowsInv, Tables

\* bulkUpdateStatus, bulkMoveOrganization.
LEMMA StatusTables ==
    ASSUME RowsInv, NEW r \in Request, BulkStatusWrite(r) \/ BulkMoveWrite(r)
    PROVE  Tables' /\ (NamedByRecords => NamedByRecords')
<1>1. ASSUME NEW ids, NEW s \in Status, StatusWritten(ids, s)
      PROVE  /\ employee' \in [DOMAIN employee -> Row]
             /\ \A j \in DOMAIN employee : /\ Dated(j, employee'[j])
                                           /\ employee'[j].who = employee[j].who
                                           /\ employee'[j].origin = employee[j].origin
    <2>1. employee \in [DOMAIN employee -> Row] /\ \A j \in DOMAIN employee : Dated(j, employee[j])
        BY DEF RowsInv, Tables, Sound
    <2>2. employee' = [i \in DOMAIN employee |->
                          IF i \in ids THEN [employee[i] EXCEPT !.status = s] ELSE employee[i]]
        BY <1>1 DEF StatusWritten, Ids
    <2> QED BY <2>1, <2>2 DEF Row, Dated
<1>2. CASE BulkStatusWrite(r)
    <2>1. task[r].status \in Status
        BY <1>2, StepFields DEF RowsInv, TasksTyped, Task, BulkStatusWrite
    <2>2. /\ StatusWritten(task[r].ids, task[r].status)
          /\ UNCHANGED <<account, owner, history, issued>> /\ targets' \subseteq targets
        BY <1>2 DEF BulkStatusWrite
    <2> QED BY <1>1, <2>1, <2>2, RestatedTables
<1>3. CASE BulkMoveWrite(r)
    <2>1. /\ StatusWritten(task[r].activate, "ACTIVE")
          /\ UNCHANGED <<account, owner, history, issued>> /\ targets' \subseteq targets
        BY <1>3 DEF BulkMoveWrite
    <2> QED BY <1>1, <2>1, RestatedTables DEF Status
<1> QED BY <1>2, <1>3

LEMMA ExpireTables ==
    ASSUME EmployeeAssumption, RowsInv, NEW i \in Ids, Expire(i)
    PROVE  Tables' /\ (NamedByRecords => NamedByRecords')
<1>1. employee \in [DOMAIN employee -> Row] /\ \A j \in DOMAIN employee : Dated(j, employee[j])
    BY DEF RowsInv, Tables, Sound
<1>2. employee' = [employee EXCEPT ![i].purge = "due"] /\ employee[i].purge = "pending"
    BY DEF Expire
<1>3. /\ employee' \in [DOMAIN employee -> Row]
      /\ \A j \in DOMAIN employee : /\ Dated(j, employee'[j])
                                    /\ employee'[j].who = employee[j].who
                                    /\ employee'[j].origin = employee[j].origin
    BY <1>1, <1>2 DEF Row, Dated
<1> QED BY <1>3, RestatedTables DEF Expire

\* assignDevice, unassignDevice and the two of the device service.
LEMMA DeviceTables ==
    ASSUME RowsInv, NEW r \in Request, AssignWrite(r) \/ UnassignWrite(r)
    PROVE  Tables' /\ (NamedByRecords => NamedByRecords')
<1>1. UNCHANGED <<employee, account, history, targets, issued>>
    BY DEF AssignWrite, UnassignWrite
<1>2. owner' \in [Device -> DOMAIN employee \cup {NoId}]
    <2>1. owner \in [Device -> DOMAIN employee \cup {NoId}]
        BY DEF RowsInv, Tables, Sound
    <2>2. CASE AssignWrite(r)
        BY <2>1, <2>2 DEF AssignWrite, Ids
    <2>3. CASE UnassignWrite(r)
        BY <2>1, <2>3 DEF UnassignWrite
    <2> QED BY <2>2, <2>3
<1> QED BY <1>1, <1>2 DEF RowsInv, Tables, Sound, NamedByRecords

-----------------------------------------------------------------------------
(* The invariant of the rows.                                               *)

\* A step that a request begins with: what it is and what it has read.
LEMMA BeginStep ==
    ASSUME EmployeeAssumption, RowsInv, NEW r \in Request, RequestBegins(r)
    PROVE  RowsInv'
<1>0. /\ \A i \in Ids : i \in Id /\ Made(i, issued)
      /\ \A i \in Ids : employee[i] \in Row /\ Made(employee[i].origin, issued)
      /\ \A i \in Ids : employee[i].origin # NoId => i \in Fresh
    BY DEF RowsInv, Tables, Sound, RowsMade, Dated, Ids
<1>1. ASSUME NEW p \in Phone, NEW h \in Person, Create(r, p, h) PROVE RowsInv'
    <2> DEFINE step == [at |-> "create", id |-> p, who |-> h, rest |-> {}]
    <2>1. step \in StepType /\ step.at = "create"
        BY DEF StepType
    <2>2. Begin(r, step)
        BY <1>1 DEF Create
    <2> HIDE DEF step
    <2> QED BY <2>1, <2>2, BeginTyped DEF Carries
<1>2. ASSUME NEW P \in SUBSET Phone, NEW f \in [P -> Person], NEW p \in P, Upload(r, f, p)
      PROVE  RowsInv'
    <2> DEFINE rest == {[id |-> x, who |-> f[x]] : x \in DOMAIN f \ {p}}
               step == [at |-> "create", id |-> p, who |-> f[p], rest |-> rest]
    <2>1. rest \subseteq [id : Phone, who : Person]
        OBVIOUS
    <2>2. Begin(r, step)
        BY <1>2 DEF Upload
    <2> HIDE DEF rest
    <2>3. step \in StepType /\ step.at = "create"
        BY <2>1 DEF StepType
    <2> HIDE DEF step
    <2> QED BY <2>2, <2>3, BeginTyped DEF Carries
<1>3. ASSUME NEW i \in Ids, Update(r, i) \/ Restore(r, i) \/ UnassignDevice(r, i)
      PROVE  RowsInv'
    <2>1. CASE Update(r, i)
        <3> DEFINE step == [at |-> "update", id |-> i]
        <3>1. step \in StepType /\ step.at = "update"
            BY <1>0 DEF StepType
        <3>2. Begin(r, step)
            BY <2>1 DEF Update
        <3> HIDE DEF step
        <3> QED BY <3>1, <3>2, BeginTyped DEF Carries
    <2>2. CASE Restore(r, i)
        <3> DEFINE step == [at |-> "restore", id |-> i, row |-> employee[i]]
        <3>1. step \in StepType /\ step.at = "restore"
            BY <1>0 DEF StepType
        <3>2. employee[i].origin \in Id
            BY <1>0, <2>2 DEF Restore, Row
        <3>3. step.id = i /\ step.row = employee[i]
            OBVIOUS
        <3>4. Begin(r, step)
            BY <2>2 DEF Restore
        <3> HIDE DEF step
        <3>5. Carries(step, issued)
            BY <1>0, <3>1, <3>2, <3>3 DEF Carries
        <3> QED BY <3>1, <3>4, <3>5, BeginTyped
    <2>3. CASE UnassignDevice(r, i)
        <3> DEFINE step == [at |-> "unassign", devices |-> {}, id |-> i]
        <3>1. step \in StepType /\ step.at = "unassign"
            BY <1>0 DEF StepType
        <3>2. Begin(r, step)
            BY <2>3 DEF UnassignDevice
        <3> HIDE DEF step
        <3> QED BY <3>1, <3>2, BeginTyped DEF Carries
    <2> QED BY <1>3, <2>1, <2>2, <2>3
<1>4. ASSUME NEW S \in SUBSET Ids, Remove(r, S) \/ BulkDelete(r, S) PROVE RowsInv'
    <2>1. CASE Remove(r, S)
        <3> DEFINE read == {Read(i) : i \in S}
                   step == [at |-> "remove", unread |-> {}, read |-> read]
        <3>1. read \subseteq [id : Id, who : Person \cup {Nobody}]
            BY <1>0 DEF Read, Row
        <3>2. \A x \in read : Made(x.id, issued)
            BY <1>0 DEF Read
        <3>3. Begin(r, step)
            BY <2>1 DEF Remove
        <3> HIDE DEF read
        <3>4. step \in StepType /\ step.at = "remove" /\ step.read = read
            BY <3>1 DEF StepType
        <3> HIDE DEF step
        <3> QED BY <3>2, <3>3, <3>4, BeginTyped DEF Carries
    <2>2. CASE BulkDelete(r, S)
        <3> DEFINE unread == {i \in S : ~Deleted(i)}
                   step == [at |-> "remove", unread |-> unread, read |-> {}]
        <3>1. unread \in SUBSET Id
            BY <1>0
        <3>2. Begin(r, step)
            BY <2>2 DEF BulkDelete
        <3> HIDE DEF unread
        <3>3. step \in StepType /\ step.at = "remove" /\ step.read = {}
            BY <3>1 DEF StepType
        <3> HIDE DEF step
        <3> QED BY <3>2, <3>3, BeginTyped DEF Carries
    <2> QED BY <1>4, <2>1, <2>2
<1>5. ASSUME NEW S \in SUBSET Ids, NEW s \in Status, BulkStatus(r, S, s) PROVE RowsInv'
    <2> DEFINE step == [at |-> "status", ids |-> S, status |-> s]
    <2>1. step \in StepType /\ step.at = "status"
        BY <1>0 DEF StepType
    <2>2. Begin(r, step)
        BY <1>5 DEF BulkStatus
    <2> HIDE DEF step
    <2> QED BY <2>1, <2>2, BeginTyped DEF Carries
<1>6. ASSUME NEW S \in SUBSET Ids, NEW C \in SUBSET S, BulkMove(r, S, C) PROVE RowsInv'
    <2> DEFINE step == [at |-> "move", ids |-> S, status |-> "ACTIVE", activate |-> C]
    <2>1. step \in StepType /\ step.at = "move"
        BY <1>0 DEF StepType, Status
    <2>2. Begin(r, step)
        BY <1>6 DEF BulkMove
    <2> HIDE DEF step
    <2> QED BY <2>1, <2>2, BeginTyped DEF Carries
<1>7. ASSUME SweepRequest(r) PROVE RowsInv'
    <2>1. PICK S \in Listed : Begin(r, [at |-> "sweep", ids |-> S, id |-> NoId])
        BY <1>7 DEF SweepRequest
    <2> DEFINE step == [at |-> "sweep", ids |-> S, id |-> NoId]
    <2>2. S \subseteq Fresh
        BY <1>0 DEF Listed, Due
    <2>3. step \in StepType /\ step.at = "sweep" /\ step.ids = S /\ step.id = NoId
        BY <2>2 DEF StepType, Id
    <2>4. Begin(r, step)
        BY <2>1
    <2> HIDE DEF step
    <2>5. Carries(step, issued)
        BY <2>2, <2>3 DEF Carries
    <2> QED BY <2>3, <2>4, <2>5, BeginTyped
<1>8. ASSUME NEW d \in Device, Unassign(r, d) PROVE RowsInv'
    <2> DEFINE step == [at |-> "unassign", devices |-> {d}, id |-> NoId]
    <2>1. step \in StepType /\ step.at = "unassign"
        BY DEF StepType
    <2>2. Begin(r, step)
        BY <1>8 DEF Unassign
    <2> HIDE DEF step
    <2> QED BY <2>1, <2>2, BeginTyped DEF Carries
<1>9. ASSUME NEW d \in Device, NEW i \in Ids, AssignDevice(r, i, d) \/ AssignToEmployee(r, i, d)
      PROVE  RowsInv'
    <2> DEFINE step == [at |-> "assign", id |-> i, device |-> d]
    <2>1. step \in StepType /\ step.at = "assign"
        BY <1>0 DEF StepType
    <2>2. Begin(r, step)
        BY <1>9 DEF AssignDevice, AssignToEmployee
    <2> HIDE DEF step
    <2> QED BY <2>1, <2>2, BeginTyped DEF Carries
<1> QED BY <1>1, <1>2, <1>3, <1>4, <1>5, <1>6, <1>7, <1>8, <1>9 DEF RequestBegins

\* What is created next, after a row and after an account.
LEMMA CreateSteps ==
    ASSUME EmployeeAssumption, RowsInv, NEW r \in Request, CreateRow(r) \/ CreateAccount(r)
    PROVE  RowsInv'
<1> DEFINE q == task[r]
           rest == q.rest
<1>1. /\ q \in StepType /\ q.at \in {"create", "password"}
      /\ r \in Task /\ issued' = issued
    BY DEF RowsInv, TasksTyped, Task, CreateRow, CreateAccount, rows
<1>2. /\ q \in [at : {"create", "password"}, id : Phone, who : Person,
                rest : SUBSET [id : Phone, who : Person]]
      /\ rest \in SUBSET [id : Phone, who : Person]
    BY <1>1, StepFields
<1>3. CASE NextRow(r, rest)
    BY <1>1, <1>2, <1>3, NextRowTyped, StepTyped, CreateRowTables, CreateAccountTables
       DEF CreateRow, CreateAccount
<1>4. CASE Goto(r, [q EXCEPT !.at = "password"]) /\ CreateRow(r)
    <2> DEFINE step == [q EXCEPT !.at = "password"]
    <2>1. step \in [at : {"create", "password"}, id : Phone, who : Person,
                    rest : SUBSET [id : Phone, who : Person]] /\ step.at = "password"
        BY <1>2
    <2>2. Goto(r, step)
        BY <1>4
    <2> HIDE DEF step
    <2>3. step \in StepType
        BY <2>1 DEF StepType
    <2>4. Carries(step, issued)
        BY <2>1 DEF Carries
    <2>5. TasksTyped' /\ TasksCarry'
        BY <1>1, <2>2, <2>3, <2>4, GotoTyped
    <2> QED BY <1>4, <2>5, CreateRowTables, StepTyped DEF CreateRow
<1> QED BY <1>3, <1>4 DEF CreateRow, CreateAccount

\* What a deletion has read and still has to do.
LEMMA RemoveSteps ==
    ASSUME EmployeeAssumption, RowsInv, NEW r \in Request,
           NEW y, BulkDeleteRead(r, y) \/ RemoveRow(r, y)
    PROVE  RowsInv'
<1> DEFINE q == task[r]
<1>1. /\ q \in StepType /\ q.at = "remove" /\ r \in Task /\ Carries(q, issued)
    BY DEF RowsInv, TasksTyped, TasksCarry, Task, BulkDeleteRead, RemoveRow
<1>2. /\ q \in [at : {"remove"}, unread : SUBSET Id,
                read : SUBSET [id : Id, who : Person \cup {Nobody}]]
      /\ \A x \in q.read : Made(x.id, issued)
    BY <1>1, StepFields DEF Carries
<1>3. CASE BulkDeleteRead(r, y)
    <2> DEFINE read == IF y \in Ids THEN q.read \cup {Read(y)} ELSE q.read
               step == [q EXCEPT !.unread = @ \ {y}, !.read = read]
    <2>1. Goto(r, step)
        BY <1>3 DEF BulkDeleteRead
    <2>2. y \in Ids => /\ Read(y) \in [id : Id, who : Person \cup {Nobody}]
                       /\ Made(Read(y).id, issued)
        BY DEF RowsInv, Tables, Sound, RowsMade, Row, Read, Ids
    <2>3. /\ read \subseteq [id : Id, who : Person \cup {Nobody}]
          /\ \A x \in read : Made(x.id, issued)
        BY <1>2, <2>2
    <2> HIDE DEF read
    <2>4. /\ step \in [at : {"remove"}, unread : SUBSET Id,
                       read : SUBSET [id : Id, who : Person \cup {Nobody}]]
          /\ step.at = "remove" /\ step.read = read
        BY <1>2, <2>3
    <2> HIDE DEF step
    <2>5. step \in StepType
        BY <2>4 DEF StepType
    <2>6. Carries(step, issued)
        BY <2>3, <2>4 DEF Carries
    <2>7. Tables' /\ issued' = issued /\ UNCHANGED <<ranToday, bounds>>
        BY <1>3 DEF BulkDeleteRead, RowsInv, Tables, rows
    <2>8. TasksTyped' /\ TasksCarry'
        BY <1>1, <2>1, <2>5, <2>6, <2>7, GotoTyped
    <2> QED BY <2>7, <2>8, StepTyped
<1>4. CASE RemoveRow(r, y)
    <2> DEFINE step == [q EXCEPT !.read = @ \ {y}]
    <2>1. Goto(r, step)
        BY <1>4 DEF RemoveRow
    <2>2. /\ step \in [at : {"remove"}, unread : SUBSET Id,
                       read : SUBSET [id : Id, who : Person \cup {Nobody}]]
          /\ step.at = "remove" /\ step.read \subseteq q.read
        BY <1>2
    <2> HIDE DEF step
    <2>3. step \in StepType
        BY <2>2 DEF StepType
    <2>4. Carries(step, issued)
        BY <1>2, <2>2 DEF Carries
    <2>5. Tables' /\ UNCHANGED <<ranToday, bounds>> /\ issued' \in {issued, issued + 1}
        BY <1>4, RemoveRowTables DEF RemoveRow, rows
    <2>6. TasksTyped' /\ TasksCarry'
        BY <1>1, <2>1, <2>3, <2>4, <2>5, GotoTyped
    <2> QED BY <2>5, <2>6, StepTyped
<1> QED BY <1>3, <1>4

\* A step that ends its request.
LEMMA EndSteps ==
    ASSUME EmployeeAssumption, RowsInv, NEW r \in Request,
           \/ UpdateStep(r) \/ RemoveDone(r)
           \/ BulkStatusWrite(r) \/ BulkMoveWrite(r) \/ RestoreRow(r)
           \/ AssignWrite(r) \/ UnassignWrite(r)
    PROVE  RowsInv'
<1>0. r \in Task
    BY DEF Task
<1>1. ASSUME End(r), Tables', UNCHANGED <<ranToday, bounds>>, issued' \in {issued, issued + 1}
      PROVE  RowsInv'
    BY <1>0, <1>1, EndTyped, StepTyped
<1>2. CASE UpdateStep(r)
    <2>1. ASSUME NEW status \in Status \cup {"same"}, NEW password \in BOOLEAN,
                 UpdateRow(r, status, password)
          PROVE  RowsInv'
        BY <1>1, <2>1, UpdateRowTables DEF UpdateRow
    <2>2. ASSUME NEW status \in Status \cup {"same"}, NEW password \in BOOLEAN,
                 NEW p \in Phone, NEW named \in BOOLEAN,
                 ChangeId(r, p, named, status, password)
          PROVE  RowsInv'
        BY <1>1, <2>2, ChangeIdTables DEF ChangeId
    <2>3. ASSUME NEW status \in Status \cup {"same"}, NEW password \in BOOLEAN,
                 NEW p \in Phone, NEW named \in BOOLEAN,
                 TakeId(r, p, named, status, password)
          PROVE  RowsInv'
        BY <1>1, <2>3, TakeIdTables DEF TakeId
    <2>4. UpdateLost(r) \/ TakeIdRefused(r) => RowsInv'
        BY <1>0, RejectedTyped DEF UpdateLost, TakeIdRefused
    <2> QED BY <1>2, <2>1, <2>2, <2>3, <2>4 DEF UpdateStep
<1>3. CASE RemoveDone(r)
    BY <1>0, <1>3, RejectedTyped DEF RemoveDone
<1>4. CASE BulkStatusWrite(r) \/ BulkMoveWrite(r)
    BY <1>1, <1>4, StatusTables DEF BulkStatusWrite, BulkMoveWrite
<1>5. CASE RestoreRow(r)
    BY <1>1, <1>5, RestoreRowTables DEF RestoreRow, rows
<1>6. CASE AssignWrite(r) \/ UnassignWrite(r)
    BY <1>1, <1>6, DeviceTables DEF AssignWrite, UnassignWrite
<1> QED BY <1>2, <1>3, <1>4, <1>5, <1>6

\* hardDeleteExpiredDeletedEmployees, by the timer or a request.
LEMMA SweepSteps ==
    ASSUME EmployeeAssumption, RowsInv, NEW t \in Task, Sweep(t)
    PROVE  RowsInv'
<1> DEFINE q == task[t]
<1>1. q \in StepType /\ q.at = "sweep" /\ Carries(q, issued)
    BY DEF RowsInv, TasksTyped, TasksCarry, Sweep, SweepRow, SweepDone, SweepRead
<1>2. /\ q \in [at : {"sweep"}, ids : SUBSET Id, id : Id \cup {NoId}]
      /\ q.ids \subseteq Fresh /\ q.id \in Fresh \cup {NoId}
    BY <1>1, StepFields DEF Carries
<1>3. CASE SweepDone(t)
    BY <1>3, RejectedTyped DEF SweepDone
<1>4. ASSUME NEW id \in Fresh \cup {NoId}, NEW ids \in SUBSET Fresh,
             Goto(t, [q EXCEPT !.ids = ids, !.id = id]),
             Tables', UNCHANGED <<ranToday, bounds>>, issued' \in {issued, issued + 1}
      PROVE  RowsInv'
    <2> DEFINE step == [q EXCEPT !.ids = ids, !.id = id]
    <2>1. /\ step \in [at : {"sweep"}, ids : SUBSET Id, id : Id \cup {NoId}]
          /\ step.at = "sweep" /\ step.ids = ids /\ step.id = id
        BY <1>2 DEF Id
    <2>2. Goto(t, step)
        BY <1>4
    <2> HIDE DEF step
    <2>3. step \in StepType
        BY <2>1 DEF StepType
    <2>4. Carries(step, issued)
        BY <2>1 DEF Carries
    <2>5. TasksTyped' /\ TasksCarry'
        BY <1>4, <2>2, <2>3, <2>4, GotoTyped
    <2> QED BY <1>4, <2>5, StepTyped
<1>5. ASSUME NEW i \in q.ids, SweepRead(t, i) PROVE RowsInv'
    <2> DEFINE id == IF i \in Ids /\ Deleted(i) /\ employee[i].origin # NoId THEN i ELSE NoId
    <2>1. id \in Fresh \cup {NoId} /\ q.ids \ {i} \in SUBSET Fresh
        BY <1>2, <1>5
    <2>2. Goto(t, [q EXCEPT !.ids = q.ids \ {i}, !.id = id])
        BY <1>5 DEF SweepRead
    <2>3. Tables' /\ issued' = issued /\ UNCHANGED <<ranToday, bounds>>
        BY <1>5 DEF SweepRead, RowsInv, Tables, rows
    <2> HIDE DEF id
    <2> QED BY <1>4, <2>1, <2>2, <2>3
<1>6. CASE SweepRow(t)
    <2>1. Goto(t, [q EXCEPT !.ids = q.ids, !.id = NoId])
        BY <1>2, <1>6 DEF SweepRow
    <2>2. Tables' /\ UNCHANGED <<ranToday, bounds>> /\ issued' \in {issued, issued + 1}
        BY <1>6, SweepRowTables DEF SweepRow, rows
    <2> QED BY <1>2, <1>4, <2>1, <2>2
<1> QED BY <1>3, <1>5, <1>6 DEF Sweep

\* The timer, the days and the process.
LEMMA ClockSteps ==
    ASSUME EmployeeAssumption, RowsInv,
           Tick \/ TickFails \/ NextDay \/ Restart \/ (\E i \in Ids : Expire(i))
    PROVE  RowsInv'
<1>1. CASE Tick
    <2>1. PICK S \in Listed : Goto(Scheduler, [at |-> "sweep", ids |-> S, id |-> NoId])
        BY <1>1 DEF Tick
    <2> DEFINE step == [at |-> "sweep", ids |-> S, id |-> NoId]
    <2>2. S \subseteq Fresh
        BY DEF Listed, Due, RowsInv, Tables, Sound, Dated, Ids
    <2>3. step \in StepType /\ step.at = "sweep" /\ step.ids = S /\ step.id = NoId
        BY <2>2 DEF StepType, Id
    <2>4. Goto(Scheduler, step) /\ Scheduler \in Task
        BY <2>1 DEF Task
    <2> HIDE DEF step
    <2>5. Carries(step, issued)
        BY <2>2, <2>3 DEF Carries
    <2>6. UNCHANGED <<rows, bounds>> /\ ranToday' = TRUE
        BY <1>1 DEF Tick
    <2>7. Tables' /\ issued' = issued
        BY <2>6 DEF RowsInv, Tables, rows
    <2>8. TasksTyped' /\ TasksCarry'
        BY <2>3, <2>4, <2>5, <2>7, GotoTyped
    <2> QED BY <2>6, <2>7, <2>8 DEF RowsInv, Bounds, bounds
<1>2. CASE TickFails \/ NextDay
    BY <1>2 DEF TickFails, NextDay, RowsInv, Tables, TasksTyped, TasksCarry, Bounds, rows, bounds
<1>3. CASE Restart
    <2>1. Idle \in StepType /\ Carries(Idle, issued)
        BY DEF Idle, StepType, Carries
    <2>2. TasksTyped' /\ TasksCarry' /\ Tables'
        BY <1>3, <2>1 DEF Restart, RowsInv, Tables, TasksTyped, TasksCarry, rows
    <2>3. Bounds'
        <3>1. MaxRestarts \in Nat
            BY DEF EmployeeAssumption
        <3>2. restarts' \in 0..MaxRestarts /\ requests' \in 0..MaxRequests
            BY <1>3, <3>1 DEF Restart, RowsInv, Bounds
        <3>3. ranToday' \in BOOLEAN
            BY <1>3, Zenon DEF Restart
        <3> QED BY <3>2, <3>3 DEF Bounds
    <2> QED BY <2>2, <2>3 DEF RowsInv
<1>4. ASSUME NEW i \in Ids, Expire(i) PROVE RowsInv'
    <2>1. Tables'
        BY <1>4, ExpireTables
    <2>2. UNCHANGED <<issued, task, ranToday, bounds>>
        BY <1>4 DEF Expire
    <2> QED BY <2>1, <2>2 DEF RowsInv, TasksTyped, TasksCarry, Bounds, bounds
<1> QED BY <1>1, <1>2, <1>3, <1>4

LEMMA RowsStep == ASSUME EmployeeAssumption, RowsInv, [Next]_vars PROVE RowsInv'
<1>1. CASE UNCHANGED vars
    BY <1>1 DEF vars, rows, bounds, RowsInv, Tables, TasksTyped, TasksCarry, Bounds
<1>2. ASSUME NEW r \in Request, RequestSteps(r) PROVE RowsInv'
    BY <1>2, CreateSteps, RemoveSteps, EndSteps DEF RequestSteps
<1> QED BY <1>1, <1>2, BeginStep, SweepSteps, ClockSteps DEF Next

LEMMA RowsInit == ASSUME EmployeeAssumption, Init PROVE RowsInv
<1>1. PICK h \in Person, P \in {{}} \cup {{p} : p \in Phone} :
        /\ employee = [j \in P |-> Live(h, "ACTIVE")]
        /\ account = [j \in P |-> [who |-> h, isActive |-> TRUE]]
        /\ \E i \in P \cup {NoId} :
              /\ owner = [d \in Device |-> i]
              /\ history = [g \in Person |-> IF g = h THEN i ELSE NoId]
        /\ targets = P /\ issued = 0
        /\ task = [t \in Task |-> Idle]
        /\ ranToday = FALSE /\ requests = 0 /\ restarts = 0
    BY DEF Init
<1>2. P \subseteq Phone /\ P \subseteq Id /\ \A j \in P : j \notin Nat
    BY DEF EmployeeAssumption, Id
<1>3. /\ Live(h, "ACTIVE") \in Row /\ Live(h, "ACTIVE").origin = NoId
      /\ \A j \in P : Dated(j, Live(h, "ACTIVE"))
    BY LiveRow DEF Live, Status
<1>4. Sound(employee, account, owner, history, targets)
    BY <1>1, <1>2, <1>3 DEF Sound, AccountRow
<1>5. RowsMade(employee, issued) /\ issued \in Nat
    BY <1>1, <1>2, <1>3 DEF RowsMade, Made, EmployeeAssumption
<1>6. TasksTyped /\ TasksCarry
    BY <1>1 DEF TasksTyped, TasksCarry, Idle, StepType, Carries
<1>7. Bounds
    <2>1. MaxRequests \in Nat /\ MaxRestarts \in Nat
        BY DEF EmployeeAssumption
    <2>2. requests \in 0..MaxRequests /\ restarts \in 0..MaxRestarts
        BY <1>1, <2>1
    <2>3. ranToday \in BOOLEAN
        BY <1>1, Zenon
    <2> QED BY <2>2, <2>3 DEF Bounds
<1> QED BY <1>4, <1>5, <1>6, <1>7 DEF RowsInv, Tables

LEMMA RowsInvariant == ASSUME EmployeeAssumption PROVE Spec => []RowsInv
<1>1. Init => RowsInv
    BY RowsInit
<1>2. RowsInv /\ [Next]_vars => RowsInv'
    BY RowsStep
<1> QED BY <1>1, <1>2, PTL DEF Spec

\* create, update, remove, restore, assign, purge: every table holds what its schema
\* says, and what can be restored has a date of its purge, however requests, the timer
\* and restarts overlap.
THEOREM EmployeeTypes == ASSUME EmployeeAssumption PROVE Spec => []TypeOK
<1>1. RowsInv => TypeOK
    <2> SUFFICES ASSUME RowsInv PROVE TypeOK
        OBVIOUS
    <2>1. \A i \in Ids : i \in Id /\ employee[i] \in Row
        BY DEF RowsInv, Tables, Sound, Ids
    <2>2. \A i \in DOMAIN account :
             i \in Id /\ account[i] \in [who : Person \cup {Nobody}, isActive : BOOLEAN]
        BY DEF RowsInv, Tables, Sound, AccountRow
    <2>3. /\ \A d \in Device : owner[d] \in Id \cup {NoId}
          /\ \A h \in Person : history[h] \in Id \cup {NoId}
        BY DEF RowsInv, Tables, Sound
    <2>4. \A i \in Ids : employee[i].origin = NoId <=> employee[i].purge = "none"
        BY DEF RowsInv, Tables, Sound, Dated, Ids
    <2>5. /\ issued \in Nat
          /\ \A t \in Task : task[t] \in StepType
          /\ ranToday \in BOOLEAN
          /\ requests \in 0..MaxRequests
          /\ restarts \in 0..MaxRestarts
        BY DEF RowsInv, Tables, TasksTyped, Bounds
    <2> QED BY <2>1, <2>2, <2>3, <2>4, <2>5 DEF TypeOK
<1> QED BY <1>1, RowsInvariant, PTL

\* removeEmployeeById, restoreDeletedEmployee, reassignEmployeeId, the purge: whatever
\* belongs to an employee belongs to a row that exists, however they overlap.
THEOREM NothingDangles == ASSUME EmployeeAssumption PROVE Spec => []ReferencesExist
<1>1. RowsInv => ReferencesExist
    BY DEF RowsInv, Tables, Sound, ReferencesExist, Ids
<1> QED BY <1>1, RowsInvariant, PTL

-----------------------------------------------------------------------------
(* What a purge takes.                                                      *)

\* Only a purge leaves an anchor, and it takes an archive.
LEMMA PurgeTakesArchives ==
    ASSUME EmployeeAssumption, RowsInv, Next
    PROVE  Purged \cap Phone = {}
<1>0. /\ employee \in [DOMAIN employee -> Row] /\ Ids = DOMAIN employee
      /\ issued + 1 \in Nat /\ issued + 1 \notin Ids
      /\ NoId \notin Id /\ Phone \cap Fresh = {} /\ Phone \cap Nat = {}
    BY NextIsFree DEF RowsInv, Tables, Sound, Ids, EmployeeAssumption, Id, Fresh
<1>1. ASSUME Ids \subseteq Ids' PROVE Purged = {}
    BY <1>1 DEF Purged
<1>2. ASSUME \A j \in Ids' \ Ids : \/ j \in Phone
                                   \/ employee'[j].status # "DELETE"
                                   \/ employee'[j].origin # NoId
      PROVE  Purged = {}
    BY <1>0, <1>2 DEF Purged, Anchors, Deleted
<1>3. ASSUME (Ids \ Ids') \cap Phone = {} PROVE Purged \cap Phone = {}
    BY <1>3 DEF Purged
<1>4. ASSUME employee' = employee PROVE Purged = {}
    BY <1>1, <1>4 DEF Ids
<1>5. ASSUME NEW r \in Request, RequestBegins(r) PROVE Purged = {}
    BY <1>4, <1>5 DEF RequestBegins, Create, Upload, Update, Restore, UnassignDevice, Remove,
           BulkDelete, BulkStatus, BulkMove, SweepRequest, Unassign, AssignDevice,
           AssignToEmployee, Begin, rows
<1>6. ASSUME NEW r \in Request, CreateRow(r) PROVE Purged = {}
    BY <1>1, <1>6 DEF CreateRow, With, Ids, rows
<1>7. ASSUME NEW r \in Request, CreateAccount(r) PROVE Purged = {}
    BY <1>4, <1>7 DEF CreateAccount
<1>8. ASSUME NEW r \in Request, UpdateStep(r) PROVE Purged = {}
    <2>1. ASSUME NEW status, NEW password, UpdateRow(r, status, password) PROVE Purged = {}
        BY <1>1, <2>1 DEF UpdateRow, Ids
    <2>2. ASSUME NEW p \in Phone, NEW named, NEW status, NEW password,
                 ChangeId(r, p, named, status, password)
          PROVE  Purged = {}
        <3>1. \A j \in Ids' \ Ids : j \in Phone
            BY <2>2 DEF ChangeId, With, Without, Ids
        <3> QED BY <1>2, <3>1
    <2>3. ASSUME NEW p \in Phone, NEW named, NEW status, NEW password,
                 TakeId(r, p, named, status, password)
          PROVE  Purged = {}
        <3> DEFINE old == Archive(employee[p].who, p)
        <3>1. old.origin # NoId
            BY <1>0 DEF Archive, Id
        <3> HIDE DEF old
        <3>2. PICK row : employee' = With(With(Without(employee, task[r].id), issued + 1, old),
                                          p, row)
            BY <2>3 DEF TakeId, old
        <3>3. p \in Ids /\ issued + 1 # p
            BY <1>0, <2>3 DEF TakeId
        <3>4. \A j \in Ids' \ Ids : j = issued + 1
            BY <3>2, <3>3 DEF With, Without, Ids
        <3>5. issued + 1 \in Ids' => employee'[issued + 1] = old
            BY <3>2, <3>3 DEF With, Without, Ids
        <3> QED BY <1>2, <3>1, <3>4, <3>5
    <2>4. ASSUME UpdateLost(r) \/ TakeIdRefused(r) PROVE Purged = {}
        BY <1>4, <2>4 DEF UpdateLost, TakeIdRefused, Rejected, rows
    <2> QED BY <1>8, <2>1, <2>2, <2>3, <2>4 DEF UpdateStep
<1>9. ASSUME NEW r \in Request, NEW x, RemoveRow(r, x) PROVE Purged = {}
    <2>1. x.id \in Id
        <3>1. task[r] \in StepType /\ task[r].at = "remove" /\ x \in task[r].read
            BY <1>9 DEF RowsInv, TasksTyped, Task, RemoveRow
        <3>2. x \in [id : Id, who : Person \cup {Nobody}]
            BY <3>1, StepFields
        <3> QED BY <3>2
    <2>2. CASE x.id \notin Ids
        BY <1>4, <1>9, <2>2 DEF RemoveRow, rows
    <2>3. CASE x.id \in Ids
        <3> DEFINE old == Archive(x.who, x.id)
        <3>1. old.origin # NoId
            BY <1>0, <2>1 DEF Archive
        <3>2. employee' = With(Without(employee, x.id), issued + 1, old)
            BY <1>9, <2>3 DEF RemoveRow
        <3> HIDE DEF old
        <3>3. /\ \A j \in Ids' \ Ids : j = issued + 1
              /\ employee'[issued + 1] = old
            BY <3>2 DEF With, Without, Ids
        <3> QED BY <1>2, <3>1, <3>3
    <2> QED BY <2>2, <2>3
<1>10. ASSUME NEW r \in Request, RestoreRow(r) PROVE Purged = {}
    <2>1. CASE RestoreThrows(task[r].id, task[r].row.origin)
        BY <1>4, <1>10, <2>1 DEF RestoreRow, rows
    <2>2. CASE ~RestoreThrows(task[r].id, task[r].row.origin)
        <3> DEFINE p == task[r].row.origin
        <3>1. PICK s \in {"ACTIVE", "EXCEPTION"} :
                  employee' = With(Without(employee, task[r].id), p, Live(task[r].row.who, s))
            BY <1>10, <2>2 DEF RestoreRow
        <3> DEFINE row == Live(task[r].row.who, s)
        <3>2. row.status # "DELETE"
            BY DEF Live
        <3>3. employee' = With(Without(employee, task[r].id), p, row)
            BY <3>1
        <3> HIDE DEF row, p
        <3>4. (\A j \in Ids' \ Ids : j = p) /\ employee'[p] = row
            BY <3>3 DEF With, Without, Ids
        <3> QED BY <1>2, <3>2, <3>4
    <2> QED BY <2>1, <2>2
<1>11. ASSUME NEW r \in Request, BulkStatusWrite(r) \/ BulkMoveWrite(r) PROVE Purged = {}
    BY <1>1, <1>11 DEF BulkStatusWrite, BulkMoveWrite, StatusWritten, Ids
<1>12. ASSUME NEW r \in Request,
              \/ RemoveDone(r) \/ AssignWrite(r) \/ UnassignWrite(r)
              \/ \E i \in task[r].unread : BulkDeleteRead(r, i)
       PROVE  Purged = {}
    BY <1>4, <1>12 DEF RemoveDone, AssignWrite, UnassignWrite, BulkDeleteRead, Rejected, rows
<1>13. ASSUME NEW t \in Task, Sweep(t) PROVE Purged \cap Phone = {}
    <2>1. CASE SweepRow(t)
        <3>1. task[t].id \in Fresh
            <4>1. task[t].at = "sweep" /\ Carries(task[t], issued) /\ task[t].id # NoId
                BY <2>1 DEF RowsInv, TasksCarry, SweepRow
            <4> QED BY <4>1 DEF Carries
        <3>2. \A j \in Ids \ Ids' : j = task[t].id
            BY <2>1 DEF SweepRow, With, Without, Ids, rows
        <3> QED BY <1>0, <1>3, <3>1, <3>2
    <2>2. CASE SweepDone(t) \/ \E i \in task[t].ids : SweepRead(t, i)
        BY <1>4, <2>2 DEF SweepDone, SweepRead, Rejected, rows
    <2> QED BY <1>13, <2>1, <2>2 DEF Sweep
<1>14. ASSUME Tick \/ TickFails \/ NextDay \/ Restart PROVE Purged = {}
    BY <1>4, <1>14 DEF Tick, TickFails, NextDay, Restart, rows
<1>15. ASSUME NEW i \in Ids, Expire(i) PROVE Purged = {}
    BY <1>1, <1>15 DEF Expire, Ids
<1>16. ASSUME NEW r \in Request, RequestSteps(r) PROVE Purged = {}
    BY <1>6, <1>7, <1>8, <1>9, <1>10, <1>11, <1>12, <1>16 DEF RequestSteps
<1> QED BY <1>5, <1>13, <1>14, <1>15, <1>16 DEF Next

\* hardDeleteExpiredDeletedEmployees: an employee under a phone number is never purged,
\* not one that was restored, or restored and deleted again, while a purge had its
\* archive on its list.
THEOREM NumbersStay == ASSUME EmployeeAssumption PROVE Spec => NumbersNotPurged
<1>1. RowsInv /\ [Next]_vars => [Purged \cap Phone = {}]_vars
    BY PurgeTakesArchives
<1> QED BY <1>1, RowsInvariant, PTL DEF Spec, NumbersNotPurged

-----------------------------------------------------------------------------
(* One request at a time.                                                    *)

\* Requests are made one at a time; the scheduler and restarts come between their steps.
OneAtATime ==
    \A r, s \in Request : task[r] # Idle /\ task[s] # Idle => r = s

\* What a step goes by is still so: whom it creates has no records yet, and the row it
\* has read has the name it had, if it is there.
Holds(q, E, H) ==
    /\ q.at = "create" =>
          H[q.who] = NoId /\ \A x \in q.rest : x.who # q.who
    /\ q.at \in {"create", "password"} =>
          \A x \in q.rest : /\ H[x.who] = NoId
                           /\ \A y \in q.rest : x.who = y.who => x = y
    /\ q.at = "password" /\ q.id \in DOMAIN E => E[q.id].who = q.who
    /\ q.at = "remove" => \A x \in q.read : x.id \in DOMAIN E => E[x.id].who = x.who
    /\ q.at = "restore" /\ q.id \in DOMAIN E => E[q.id].who = q.row.who

ReadIsTrue == \A r \in Request : Holds(task[r], employee, history)

LEMMA IdleHolds == ASSUME NEW E, NEW H PROVE Holds(Idle, E, H)
BY DEF Idle, Holds

\* Only the one request has read anything.
LEMMA OneReads ==
    ASSUME RowsInv, OneAtATime, NEW r \in Request, task[r] # Idle,
           NEW step, Goto(r, step), Holds(step, employee', history')
    PROVE  ReadIsTrue'
<1>1. \A s \in Request : task'[s] = step \/ task'[s] = Idle
    BY DEF RowsInv, TasksTyped, OneAtATime, Goto, Task
<1> QED BY <1>1, IdleHolds DEF ReadIsTrue

\* A request that ends has read nothing.
LEMMA EndReads ==
    ASSUME RowsInv, OneAtATime, NEW r \in Request, task[r] # Idle, End(r)
    PROVE  ReadIsTrue'
<1>1. Goto(r, Idle)
    BY DEF End, Goto
<1> QED BY <1>1, IdleHolds, OneReads

\* A request that begins goes by what it has just read.
LEMMA BeginReads ==
    ASSUME RowsInv, OneAtATime', NEW r \in Request,
           NEW step, step # Idle, Begin(r, step), Holds(step, employee, history)
    PROVE  ReadIsTrue'
<1>1. task' = [task EXCEPT ![r] = step] /\ UNCHANGED <<employee, history>>
    BY DEF Begin, rows
<1>2. \A s \in Request : task'[s] = IF s = r THEN step ELSE task[s]
    BY <1>1 DEF RowsInv, TasksTyped, Task
<1>3. \A s \in Request \ {r} : task'[s] = Idle
    BY <1>2 DEF OneAtATime
<1> QED BY <1>1, <1>2, <1>3, IdleHolds DEF ReadIsTrue

LEMMA BeginOne ==
    ASSUME EmployeeAssumption, RowsInv, OneAtATime', NamedByRecords, ReadIsTrue,
           NEW r \in Request, RequestBegins(r)
    PROVE  NamedByRecords' /\ ReadIsTrue'
<1>0. ASSUME NEW step, Begin(r, step) PROVE NamedByRecords'
    BY <1>0 DEF Begin, rows, NamedByRecords
<1>1. ASSUME NEW step, Begin(r, step),
             step.at \notin {"idle", "create", "password", "remove", "restore"}
      PROVE  NamedByRecords' /\ ReadIsTrue'
    <2>1. step # Idle /\ Holds(step, employee, history)
        BY <1>1 DEF Idle, Holds
    <2> QED BY <1>0, <1>1, <2>1, BeginReads
<1>2. ASSUME NEW p \in Phone, NEW h \in Person, Create(r, p, h)
      PROVE  NamedByRecords' /\ ReadIsTrue'
    <2> DEFINE step == [at |-> "create", id |-> p, who |-> h, rest |-> {}]
    <2>1. Begin(r, step) /\ history[h] = NoId
        BY <1>2 DEF Create, Newcomer, Known
    <2>2. step # Idle /\ Holds(step, employee, history)
        BY <2>1 DEF Idle, Holds
    <2> HIDE DEF step
    <2> QED BY <1>0, <2>1, <2>2, BeginReads
<1>3. ASSUME NEW P \in SUBSET Phone, NEW f \in [P -> Person], NEW p \in P, Upload(r, f, p)
      PROVE  NamedByRecords' /\ ReadIsTrue'
    <2> DEFINE rest == {[id |-> x, who |-> f[x]] : x \in DOMAIN f \ {p}}
               step == [at |-> "create", id |-> p, who |-> f[p], rest |-> rest]
    <2>1. Begin(r, step)
        BY <1>3 DEF Upload
    <2>2. /\ \A x \in P : history[f[x]] = NoId
          /\ \A x, y \in P : f[x] = f[y] => x = y
        BY <1>3 DEF Upload, Newcomer, Known
    <2>3. \A x \in rest : x.id \in P \ {p} /\ x.who = f[x.id] /\ x = [id |-> x.id, who |-> f[x.id]]
        OBVIOUS
    <2>4. \A x \in rest : history[x.who] = NoId /\ x.who # f[p]
        BY <2>2, <2>3
    <2>5. \A x, y \in rest : x.who = y.who => x = y
        BY <2>2, <2>3
    <2>6. step # Idle /\ step.at = "create" /\ step.who = f[p] /\ step.rest = rest
        BY DEF Idle
    <2> HIDE DEF rest, step
    <2>7. Holds(step, employee, history)
        BY <2>2, <2>4, <2>5, <2>6 DEF Holds
    <2> QED BY <1>0, <2>1, <2>6, <2>7, BeginReads
<1>4. ASSUME NEW i \in Ids, Restore(r, i) PROVE NamedByRecords' /\ ReadIsTrue'
    <2> DEFINE step == [at |-> "restore", id |-> i, row |-> employee[i]]
    <2>1. Begin(r, step)
        BY <1>4 DEF Restore
    <2>2. step # Idle /\ Holds(step, employee, history)
        BY DEF Idle, Holds
    <2> HIDE DEF step
    <2> QED BY <1>0, <2>1, <2>2, BeginReads
<1>5. ASSUME NEW S \in SUBSET Ids, Remove(r, S) \/ BulkDelete(r, S)
      PROVE  NamedByRecords' /\ ReadIsTrue'
    <2>1. PICK unread, read : /\ Begin(r, [at |-> "remove", unread |-> unread, read |-> read])
                              /\ read \subseteq {Read(i) : i \in S}
        BY <1>5 DEF Remove, BulkDelete
    <2> DEFINE step == [at |-> "remove", unread |-> unread, read |-> read]
    <2>2. step # Idle /\ step.at = "remove" /\ step.read = read
        BY DEF Idle
    <2>3. Begin(r, step)
        BY <2>1
    <2> HIDE DEF step
    <2>4. Holds(step, employee, history)
        BY <2>1, <2>2 DEF Holds, Read
    <2> QED BY <1>0, <2>2, <2>3, <2>4, BeginReads
<1>6. ASSUME NEW i \in Ids, Update(r, i) \/ UnassignDevice(r, i)
      PROVE  NamedByRecords' /\ ReadIsTrue'
    BY <1>1, <1>6 DEF Update, UnassignDevice
<1>7. ASSUME NEW S, NEW s, BulkStatus(r, S, s) \/ BulkMove(r, S, s)
      PROVE  NamedByRecords' /\ ReadIsTrue'
    BY <1>1, <1>7 DEF BulkStatus, BulkMove
<1>8. ASSUME SweepRequest(r) PROVE NamedByRecords' /\ ReadIsTrue'
    BY <1>1, <1>8 DEF SweepRequest
<1>9. ASSUME NEW d, NEW i, Unassign(r, d) \/ AssignDevice(r, i, d) \/ AssignToEmployee(r, i, d)
      PROVE  NamedByRecords' /\ ReadIsTrue'
    BY <1>1, <1>9 DEF Unassign, AssignDevice, AssignToEmployee
<1> QED BY <1>2, <1>3, <1>4, <1>5, <1>6, <1>7, <1>8, <1>9 DEF RequestBegins

\* A new row names somebody who had no records, and now has them there.
LEMMA CreateRowNamed ==
    ASSUME EmployeeAssumption, RowsInv, NamedByRecords, NEW r \in Request, CreateRow(r),
           task[r].id \notin Ids, history[task[r].who] = NoId, task[r].who \in Person
    PROVE  /\ NamedByRecords'
           /\ employee'[task[r].id].who = task[r].who
           /\ history' = [history EXCEPT ![task[r].who] = task[r].id]
<1> DEFINE i == task[r].id
           h == task[r].who
<1>1. PICK s \in Status : employee' = With(employee, i, Live(h, s))
    BY DEF CreateRow
<1>2. /\ history' = [history EXCEPT ![h] = i]
      /\ account' = account
      /\ i \notin DOMAIN employee /\ h \in Person /\ history[h] = NoId
    BY DEF CreateRow, Ids
<1> HIDE DEF i, h
<1>3. /\ DOMAIN employee' = DOMAIN employee \cup {i}
      /\ employee'[i] = Live(h, s)
      /\ \A j \in DOMAIN employee \ {i} : employee'[j] = employee[j]
    BY <1>1 DEF With
<1>4. Live(h, s).who = h
    BY DEF Live
<1>5. /\ history \in [Person -> DOMAIN employee \cup {NoId}]
      /\ DOMAIN account \subseteq DOMAIN employee
      /\ \A j \in DOMAIN employee : employee[j].who \in Person \cup {Nobody}
      /\ NoId \notin DOMAIN employee
    BY DEF RowsInv, Tables, Sound, Row, EmployeeAssumption, Id, Fresh
<1>6. Names(employee, account, history)
    BY DEF NamedByRecords
<1>7. ASSUME NEW j \in DOMAIN employee', employee'[j].who # Nobody
      PROVE  history'[employee'[j].who] = j
    <2>1. CASE j = i
        BY <1>2, <1>3, <1>4, <1>5, <2>1
    <2>2. CASE j # i
        <3>1. history[employee[j].who] = j /\ employee[j].who \in Person
            BY <1>3, <1>5, <1>6, <1>7, <2>2 DEF Names
        <3>2. employee[j].who # h
            BY <1>2, <1>3, <1>5, <2>2, <3>1
        <3> QED BY <1>2, <1>3, <1>5, <2>2, <3>1, <3>2
    <2> QED BY <2>1, <2>2
<1>8. \A g, k \in Person : history'[g] = history'[k] => g = k \/ history'[g] = NoId
    BY <1>2, <1>5, <1>6 DEF Names
<1>9. ASSUME NEW g \in Person, history'[g] # NoId
      PROVE  employee'[history'[g]].who \in {g, Nobody}
    <2>1. CASE g = h
        BY <1>2, <1>3, <1>4, <1>5, <2>1
    <2>2. CASE g # h
        BY <1>2, <1>3, <1>5, <1>6, <1>9, <2>2 DEF Names
    <2> QED BY <2>1, <2>2
<1>10. ASSUME NEW j \in DOMAIN account' PROVE Fits(account'[j], employee'[j])
    BY <1>2, <1>3, <1>5, <1>6, <1>10 DEF Names
<1> QED BY <1>2, <1>3, <1>4, <1>7, <1>8, <1>9, <1>10 DEF NamedByRecords, Names, i, h

\* A new account is that of the person the row names.
LEMMA CreateAccountNamed ==
    ASSUME RowsInv, NamedByRecords, NEW r \in Request, CreateAccount(r),
           task[r].id \in Ids => employee[task[r].id].who = task[r].who
    PROVE  NamedByRecords'
<1> DEFINE i == task[r].id
           acc == [who |-> task[r].who, isActive |-> TRUE]
<1>1. /\ account' = IF i \in Ids THEN With(account, i, acc) ELSE account
      /\ UNCHANGED <<employee, history>>
    BY DEF CreateAccount
<1>2. acc.who = task[r].who
    OBVIOUS
<1> HIDE DEF acc
<1>3. CASE i \in Ids
    <2>1. /\ DOMAIN account' = DOMAIN account \cup {i}
          /\ account'[i] = acc
          /\ \A j \in DOMAIN account \ {i} : account'[j] = account[j]
        BY <1>1, <1>3 DEF With
    <2> QED BY <1>1, <1>2, <1>3, <2>1 DEF NamedByRecords, Names, Fits
<1>4. CASE i \notin Ids
    BY <1>1, <1>4 DEF NamedByRecords
<1> QED BY <1>3, <1>4

\* The next row of an upload creates somebody who has no records.
LEMMA NextRowReads ==
    ASSUME RowsInv, OneAtATime, NEW r \in Request, task[r] # Idle,
           NEW rest, NextRow(r, rest),
           \A x \in rest : history'[x.who] = NoId /\ \A y \in rest : x.who = y.who => x = y
    PROVE  ReadIsTrue'
<1>1. CASE rest = {}
    BY <1>1, EndReads DEF NextRow
<1>2. CASE rest # {}
    <2>1. PICK x \in rest : Goto(r, [at |-> "create", id |-> x.id, who |-> x.who,
                                     rest |-> rest \ {x}])
        BY <1>2 DEF NextRow
    <2> DEFINE step == [at |-> "create", id |-> x.id, who |-> x.who, rest |-> rest \ {x}]
    <2>2. /\ step.at = "create" /\ step.who = x.who /\ step.rest = rest \ {x}
          /\ Goto(r, step)
        BY <2>1
    <2> HIDE DEF step
    <2>3. Holds(step, employee', history')
        BY <2>2 DEF Holds
    <2> QED BY <2>2, <2>3, OneReads
<1> QED BY <1>1, <1>2

LEMMA CreateOne ==
    ASSUME EmployeeAssumption, RowsInv, OneAtATime, NamedByRecords, ReadIsTrue,
           NEW r \in Request, CreateRow(r) \/ CreateAccount(r)
    PROVE  NamedByRecords' /\ ReadIsTrue'
<1> DEFINE q == task[r]
           rest == q.rest
<1>1. /\ q \in StepType /\ q.at \in {"create", "password"} /\ q # Idle
      /\ Holds(q, employee, history)
    BY DEF RowsInv, TasksTyped, Task, CreateRow, CreateAccount, ReadIsTrue, Idle
<1>2. /\ q \in [at : {"create", "password"}, id : Phone, who : Person,
                rest : SUBSET [id : Phone, who : Person]]
    BY <1>1, StepFields
<1>3. \A x \in rest : history[x.who] = NoId /\ \A y \in rest : x.who = y.who => x = y
    BY <1>1 DEF Holds
<1>4. CASE CreateRow(r)
    <2>1. q.at = "create" /\ history[q.who] = NoId /\ \A x \in rest : x.who # q.who
        BY <1>1, <1>4 DEF CreateRow, Holds
    <2>2. CASE q.id \in Ids
        <3>1. NextRow(r, rest) /\ UNCHANGED <<employee, account, history>>
            BY <1>4, <2>2 DEF CreateRow, rows
        <3>2. NamedByRecords'
            BY <3>1 DEF NamedByRecords
        <3> QED BY <1>1, <1>3, <3>1, <3>2, NextRowReads
    <2>3. CASE q.id \notin Ids
        <3>1. /\ NamedByRecords'
              /\ employee'[q.id].who = q.who
              /\ history' = [history EXCEPT ![q.who] = q.id]
            BY <1>2, <1>4, <2>1, <2>3, CreateRowNamed
        <3>2. \A x \in rest : history'[x.who] = NoId
            BY <1>2, <1>3, <2>1, <3>1 DEF RowsInv, Tables, Sound
        <3>3. CASE NextRow(r, rest)
            BY <1>1, <1>3, <3>1, <3>2, <3>3, NextRowReads
        <3>4. CASE Goto(r, [q EXCEPT !.at = "password"])
            <4> DEFINE step == [q EXCEPT !.at = "password"]
            <4>1. /\ step.at = "password" /\ step.who = q.who /\ step.id = q.id
                  /\ step.rest = rest
                BY <1>2
            <4>2. Goto(r, step)
                BY <3>4
            <4> HIDE DEF step
            <4>3. Holds(step, employee', history')
                BY <1>3, <3>1, <3>2, <4>1 DEF Holds
            <4> QED BY <1>1, <3>1, <4>2, <4>3, OneReads
        <3> QED BY <1>4, <2>3, <3>3, <3>4 DEF CreateRow
    <2> QED BY <2>2, <2>3
<1>5. CASE CreateAccount(r)
    <2>1. q.at = "password" /\ (q.id \in Ids => employee[q.id].who = q.who)
        BY <1>1, <1>5 DEF CreateAccount, Holds, Ids
    <2>2. NamedByRecords'
        BY <1>5, <2>1, CreateAccountNamed
    <2>3. NextRow(r, rest) /\ history' = history
        BY <1>5 DEF CreateAccount
    <2> QED BY <1>1, <1>3, <2>2, <2>3, NextRowReads
<1> QED BY <1>4, <1>5

\* A deletion archives a row under the name it has.
LEMMA RemoveOne ==
    ASSUME EmployeeAssumption, RowsInv, OneAtATime, NamedByRecords, ReadIsTrue,
           NEW r \in Request, NEW y, BulkDeleteRead(r, y) \/ RemoveRow(r, y)
    PROVE  NamedByRecords' /\ ReadIsTrue'
<1> DEFINE q == task[r]
<1>1. /\ q \in StepType /\ q.at = "remove" /\ q # Idle /\ Carries(q, issued)
      /\ Holds(q, employee, history)
    BY DEF RowsInv, TasksTyped, TasksCarry, Task, BulkDeleteRead, RemoveRow, ReadIsTrue, Idle
<1>2. /\ q \in [at : {"remove"}, unread : SUBSET Id,
                read : SUBSET [id : Id, who : Person \cup {Nobody}]]
      /\ \A x \in q.read : /\ Made(x.id, issued)
                           /\ x.id \in DOMAIN employee => employee[x.id].who = x.who
    BY <1>1, StepFields DEF Carries, Holds
<1>3. CASE BulkDeleteRead(r, y)
    <2> DEFINE read == IF y \in Ids THEN q.read \cup {Read(y)} ELSE q.read
               step == [q EXCEPT !.unread = @ \ {y}, !.read = read]
    <2>1. Goto(r, step) /\ UNCHANGED <<employee, account, history>>
        BY <1>3 DEF BulkDeleteRead, rows
    <2>2. \A x \in read : x.id \in DOMAIN employee => employee[x.id].who = x.who
        BY <1>2 DEF Read
    <2> HIDE DEF read
    <2>3. step.at = "remove" /\ step.read = read
        BY <1>2
    <2> HIDE DEF step
    <2>4. Holds(step, employee', history')
        BY <2>1, <2>2, <2>3 DEF Holds
    <2>5. NamedByRecords'
        BY <2>1 DEF NamedByRecords
    <2> QED BY <1>1, <2>1, <2>4, <2>5, OneReads
<1>4. CASE RemoveRow(r, y)
    <2> DEFINE step == [q EXCEPT !.read = @ \ {y}]
    <2>1. Goto(r, step) /\ y \in q.read
        BY <1>4 DEF RemoveRow
    <2>2. step.at = "remove" /\ step.read \subseteq q.read
        BY <1>2
    <2> HIDE DEF step
    <2>3. NamedByRecords'
        BY <1>2, <1>4, <2>1, RemoveRowTables DEF Ids
    <2>4. \A x \in q.read : x.id \in DOMAIN employee' => employee'[x.id].who = x.who
        <3>1. CASE y.id \notin Ids
            BY <1>2, <1>4, <3>1 DEF RemoveRow, rows
        <3>2. CASE y.id \in Ids
            <4> DEFINE old == Archive(y.who, y.id)
            <4>1. employee' = With(Without(employee, y.id), issued + 1, old)
                BY <1>4, <3>2 DEF RemoveRow
            <4> HIDE DEF old
            <4>2. \A j \in DOMAIN employee' \ {issued + 1} :
                     j \in DOMAIN employee /\ employee'[j] = employee[j]
                BY <4>1 DEF With, Without
            <4>3. \A x \in q.read : x.id # issued + 1
                BY <1>2 DEF Made, RowsInv, Tables
            <4> QED BY <1>2, <4>2, <4>3
        <3> QED BY <3>1, <3>2
    <2>5. Holds(step, employee', history')
        BY <2>2, <2>4 DEF Holds
    <2> QED BY <1>1, <2>1, <2>3, <2>5, OneReads
<1> QED BY <1>3, <1>4

\* A step that ends its request.
LEMMA EndOne ==
    ASSUME EmployeeAssumption, RowsInv, OneAtATime, NamedByRecords, ReadIsTrue,
           NEW r \in Request,
           \/ UpdateStep(r) \/ RemoveDone(r)
           \/ BulkStatusWrite(r) \/ BulkMoveWrite(r) \/ RestoreRow(r)
           \/ AssignWrite(r) \/ UnassignWrite(r)
    PROVE  NamedByRecords' /\ ReadIsTrue'
<1>1. ReadIsTrue'
    <2>1. UpdateStep(r) => task[r].at = "update" /\ End(r)
        BY DEF UpdateStep, UpdateRow, ChangeId, TakeId, UpdateLost, TakeIdRefused, Rejected
    <2>2. ~UpdateStep(r) => task[r].at # "idle" /\ End(r)
        BY DEF RemoveDone, BulkStatusWrite, BulkMoveWrite, RestoreRow, AssignWrite,
               UnassignWrite, Rejected
    <2>3. task[r] # Idle /\ End(r)
        BY <2>1, <2>2 DEF Idle
    <2> QED BY <2>3, EndReads
<1>2. CASE UpdateStep(r)
    <2>1. UpdateLost(r) \/ TakeIdRefused(r) => NamedByRecords'
        BY DEF UpdateLost, TakeIdRefused, Rejected, rows, NamedByRecords
    <2> QED BY <1>1, <1>2, <2>1, UpdateRowTables, ChangeIdTables, TakeIdTables DEF UpdateStep
<1>3. CASE RemoveDone(r)
    BY <1>1, <1>3 DEF RemoveDone, Rejected, rows, NamedByRecords
<1>4. CASE RestoreRow(r)
    <2>1. task[r].id \in Ids => employee[task[r].id].who = task[r].row.who
        BY <1>4 DEF ReadIsTrue, Holds, RestoreRow, Ids
    <2> QED BY <1>1, <1>4, <2>1, RestoreRowTables
<1>5. CASE BulkStatusWrite(r) \/ BulkMoveWrite(r) \/ AssignWrite(r) \/ UnassignWrite(r)
    BY <1>1, <1>5, StatusTables, DeviceTables
<1> QED BY <1>1, <1>2, <1>3, <1>4, <1>5

\* A purge leaves the rows that a request has read, or takes them whole.
LEMMA SweepOne ==
    ASSUME EmployeeAssumption, RowsInv, OneAtATime, NamedByRecords, ReadIsTrue,
           NEW t \in Task, Sweep(t)
    PROVE  NamedByRecords' /\ ReadIsTrue'
<1> DEFINE q == task[t]
<1>1. q \in StepType /\ q.at = "sweep" /\ Carries(q, issued)
    BY DEF RowsInv, TasksTyped, TasksCarry, Sweep, SweepRow, SweepDone, SweepRead
<1>2. NamedByRecords'
    <2>1. CASE SweepRow(t)
        BY <2>1, SweepRowTables
    <2>2. CASE SweepDone(t) \/ \E i \in q.ids : SweepRead(t, i)
        BY <2>2 DEF SweepDone, SweepRead, Rejected, rows, NamedByRecords
    <2> QED BY <2>1, <2>2 DEF Sweep
<1>3. PICK step : Goto(t, step) /\ step.at \in {"sweep", "idle"}
    <2>1. q \in [at : {"sweep"}, ids : SUBSET Id, id : Id \cup {NoId}]
        BY <1>1, StepFields
    <2>2. CASE SweepRow(t)
        <3>1. Goto(t, [q EXCEPT !.id = NoId]) /\ [q EXCEPT !.id = NoId].at = "sweep"
            BY <2>1, <2>2 DEF SweepRow
        <3> QED BY <3>1
    <2>3. CASE SweepDone(t)
        <3>1. Goto(t, Idle) /\ Idle.at = "idle"
            BY <2>3 DEF SweepDone, Rejected, End, Goto, Idle
        <3> QED BY <3>1
    <2>4. ASSUME NEW i \in q.ids, SweepRead(t, i)
          PROVE  \E step : Goto(t, step) /\ step.at \in {"sweep", "idle"}
        <3>1. PICK id : Goto(t, [q EXCEPT !.ids = @ \ {i}, !.id = id])
            BY <2>4 DEF SweepRead
        <3>2. [q EXCEPT !.ids = @ \ {i}, !.id = id].at = "sweep"
            BY <2>1
        <3> QED BY <3>1, <3>2
    <2> QED BY <2>2, <2>3, <2>4 DEF Sweep
<1>4. ASSUME NEW r \in Request, r # t PROVE Holds(task[r], employee', history')
    <2> DEFINE k == task[r]
    <2>1. /\ k \in StepType /\ Carries(k, issued) /\ Holds(k, employee, history)
        BY DEF RowsInv, TasksTyped, TasksCarry, Task, ReadIsTrue
    <2>2. CASE UNCHANGED <<employee, history>>
        BY <2>1, <2>2
    <2>3. CASE SweepRow(t) /\ q.id \in Ids
        <3> DEFINE i == q.id
                   n == issued + 1
                   row == Live(employee[i].who, "DELETE")
        <3>1. /\ employee' = With(Without(employee, i), n, row)
              /\ history' = Pointing(history, i, n)
            BY <2>3 DEF SweepRow
        <3>2. /\ i \in Fresh /\ i # NoId /\ n \in Fresh /\ n # NoId
              /\ \A p \in Phone : p # i /\ p # n
              /\ \A j : Made(j, issued) => j # n
            BY <1>1, <2>3 DEF Carries, SweepRow, RowsInv, Tables, Fresh, Made, EmployeeAssumption
        <3> HIDE DEF i, n, row
        <3>3. \A j \in DOMAIN employee' \ {n} : j \in DOMAIN employee /\ employee'[j] = employee[j]
            BY <3>1 DEF With, Without
        <3>4. \A h \in Person : history[h] = NoId => history'[h] = NoId
            BY <3>1, <3>2 DEF Pointing, RowsInv, Tables, Sound
        <3>5. k.at \in {"create", "password"} =>
                 /\ k.id \in Phone /\ k.who \in Person
                 /\ \A x \in k.rest : x.who \in Person
            BY <2>1, StepFields
        <3> HIDE DEF k
        <3>6. k.at = "create" => history'[k.who] = NoId /\ \A x \in k.rest : x.who # k.who
            BY <2>1, <3>4, <3>5 DEF Holds
        <3>7. k.at \in {"create", "password"} =>
                 \A x \in k.rest : history'[x.who] = NoId /\ \A y \in k.rest : x.who = y.who => x = y
            BY <2>1, <3>4, <3>5 DEF Holds
        <3>8. k.at = "password" /\ k.id \in DOMAIN employee' => employee'[k.id].who = k.who
            BY <2>1, <3>2, <3>3, <3>5 DEF Holds
        <3>9. k.at = "remove" =>
                 \A x \in k.read : x.id \in DOMAIN employee' => employee'[x.id].who = x.who
            BY <2>1, <3>2, <3>3 DEF Holds, Carries
        <3>10. k.at = "restore" /\ k.id \in DOMAIN employee' => employee'[k.id].who = k.row.who
            BY <2>1, <3>2, <3>3 DEF Holds, Carries
        <3> QED BY <3>6, <3>7, <3>8, <3>9, <3>10 DEF Holds, k
    <2> QED BY <2>2, <2>3 DEF Sweep, SweepRow, SweepDone, SweepRead, Rejected, rows
<1>5. \A r \in Request : task'[r] = IF r = t THEN step ELSE task[r]
    BY <1>3 DEF Goto, RowsInv, TasksTyped, Task
<1>6. Holds(step, employee', history')
    BY <1>3 DEF Holds
<1>7. ReadIsTrue'
    BY <1>4, <1>5, <1>6 DEF ReadIsTrue
<1> QED BY <1>2, <1>7

\* The timer, the days and a restart change no name and read none.
LEMMA ClockOne ==
    ASSUME EmployeeAssumption, RowsInv, NamedByRecords, ReadIsTrue,
           Tick \/ TickFails \/ NextDay \/ Restart \/ (\E i \in Ids : Expire(i))
    PROVE  NamedByRecords' /\ ReadIsTrue'
<1>1. CASE Tick
    <2>1. \A r \in Request : task'[r] = task[r]
        <3>1. \A r \in Request : r # Scheduler
            BY DEF EmployeeAssumption
        <3>2. PICK step : Goto(Scheduler, step)
            BY <1>1 DEF Tick
        <3> QED BY <3>1, <3>2 DEF Goto, RowsInv, TasksTyped, Task
    <2>2. UNCHANGED <<employee, account, history>>
        BY <1>1 DEF Tick, rows
    <2> QED BY <2>1, <2>2 DEF NamedByRecords, ReadIsTrue
<1>2. CASE TickFails \/ NextDay
    BY <1>2 DEF TickFails, NextDay, rows, NamedByRecords, ReadIsTrue
<1>3. CASE Restart
    <2>1. \A r \in Request : task'[r] = Idle
        BY <1>3 DEF Restart, Task
    <2>2. UNCHANGED <<employee, account, history>>
        BY <1>3 DEF Restart, rows
    <2> QED BY <2>1, <2>2, IdleHolds DEF NamedByRecords, ReadIsTrue
<1>4. ASSUME NEW i \in Ids, Expire(i) PROVE NamedByRecords' /\ ReadIsTrue'
    <2>1. NamedByRecords'
        BY <1>4, ExpireTables
    <2>2. UNCHANGED <<history, task>>
        BY <1>4 DEF Expire
    <2>3. /\ DOMAIN employee' = DOMAIN employee
          /\ \A j \in DOMAIN employee : employee'[j].who = employee[j].who
        BY <1>4 DEF Expire, RowsInv, Tables, Sound, Row
    <2>4. \A r \in Request : Holds(task[r], employee, history) => Holds(task[r], employee', history)
        BY <2>3 DEF Holds
    <2> QED BY <2>1, <2>2, <2>4 DEF ReadIsTrue
<1> QED BY <1>1, <1>2, <1>3, <1>4

LEMMA NamedStep ==
    ASSUME EmployeeAssumption, RowsInv, OneAtATime, OneAtATime', NamedByRecords, ReadIsTrue,
           [Next]_vars
    PROVE  NamedByRecords' /\ ReadIsTrue'
<1>1. CASE UNCHANGED vars
    BY <1>1 DEF vars, rows, NamedByRecords, ReadIsTrue
<1>2. ASSUME NEW r \in Request, RequestSteps(r) PROVE NamedByRecords' /\ ReadIsTrue'
    BY <1>2, CreateOne, RemoveOne, EndOne DEF RequestSteps
<1> QED BY <1>1, <1>2, BeginOne, SweepOne, ClockOne DEF Next

LEMMA NamedInit == ASSUME EmployeeAssumption, Init PROVE NamedByRecords /\ ReadIsTrue
<1>1. PICK h \in Person, P \in {{}} \cup {{p} : p \in Phone} :
        /\ employee = [j \in P |-> Live(h, "ACTIVE")]
        /\ account = [j \in P |-> [who |-> h, isActive |-> TRUE]]
        /\ \E i \in P \cup {NoId} :
              /\ i = NoId => P = {}
              /\ history = [g \in Person |-> IF g = h THEN i ELSE NoId]
        /\ task = [t \in Task |-> Idle]
    BY DEF Init
<1>2. PICK i \in P \cup {NoId} :
        /\ i = NoId => P = {}
        /\ history = [g \in Person |-> IF g = h THEN i ELSE NoId]
    BY <1>1
<1>3. Live(h, "ACTIVE").who = h
    BY DEF Live
<1>4. \A j \in P : j = i
    BY <1>2
<1>5. NamedByRecords
    BY <1>1, <1>2, <1>3, <1>4 DEF NamedByRecords, Names, Fits
<1>6. ReadIsTrue
    BY <1>1, IdleHolds DEF ReadIsTrue, Task
<1> QED BY <1>5, <1>6

LEMMA NamedInvariant ==
    ASSUME EmployeeAssumption PROVE Spec /\ []OneAtATime => []NamedByRecords
<1>1. Init => NamedByRecords /\ ReadIsTrue
    BY NamedInit
<1>2. /\ RowsInv /\ OneAtATime /\ OneAtATime' /\ NamedByRecords /\ ReadIsTrue
      /\ [Next]_vars
      => NamedByRecords' /\ ReadIsTrue'
    BY NamedStep
<1> QED BY <1>1, <1>2, RowsInvariant, PTL DEF Spec

\* removeEmployeeById, restoreDeletedEmployee, reassignEmployeeId, the purge: as long as
\* requests are made one at a time, a person is one row, whatever a purge, the next day or
\* a restart does between their steps.
THEOREM PersonIsOneRow ==
    ASSUME EmployeeAssumption PROVE Spec /\ []OneAtATime => []OneRowPerPerson
<1>1. NamedByRecords => OneRowPerPerson
    BY DEF NamedByRecords, Names, OneRowPerPerson, Ids
<1> QED BY <1>1, NamedInvariant, PTL

\* As long as requests are made one at a time, the records and the account under an id are
\* those of the person it names: updateMany moves no more and no less than one person's.
THEOREM RecordsStayTogether ==
    ASSUME EmployeeAssumption PROVE Spec /\ []OneAtATime => []RecordsOfOne
<1>1. RowsInv /\ NamedByRecords => RecordsOfOne
    BY DEF RowsInv, Tables, Sound, NamedByRecords, Names, Fits, RecordsOfOne, Known
<1> QED BY <1>1, RowsInvariant, NamedInvariant, PTL
================================================================================
