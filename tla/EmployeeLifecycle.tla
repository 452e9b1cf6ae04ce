--------------------------- MODULE EmployeeLifecycle ---------------------------
(***************************************************************************)
(* Employees, their deletion, restoration and purge:                       *)
(* modules/employees/employees.service.ts, the hard-delete scheduler beside *)
(* it, and the device assignments of modules/devices/devices.service.ts.   *)
(*                                                                         *)
(* The id of an employee is a phone number; deletion moves everything the   *)
(* row owns to a new row under an archive id, restoration moves it back,    *)
(* and the purge moves the records to an anchor row and deletes the rest.   *)
(* Archive and anchor ids hold a random UUID: a number that was never used. *)
(* A handler reads outside its transaction, so every read is a step of its  *)
(* own; a transaction is one step, all of it or nothing.  The five tables   *)
(* of records (logs, statistics, sessions) move together and are one        *)
(* `history' per person; policy targets and exclusions are one `targets'.   *)
(* Organisations, push messages and device states are left out.             *)
(***************************************************************************)
EXTENDS Integers, FiniteSets

CONSTANTS
    Phone,        \* phone numbers, the ids of employees that are not deleted
    Person,       \* the people the rows are about
    Device,
    Request,      \* requests in flight at the same time
    Scheduler,    \* the timer of EmployeesHardDeleteScheduler
    Nobody,       \* the name a row gets when its id is changed without a name
    NoId,
    Limit,        \* BATCH_SIZE, the rows one purge takes
    MaxBulk,      \* bound: how many employees a bulk request names
    MaxRequests,  \* bound: how many requests are made
    MaxRestarts   \* bound: how often the process restarts

ASSUME EmployeeAssumption ==
    /\ NoId \notin Phone \cup Nat
    /\ Phone \cap Nat = {}
    /\ Nobody \notin Person
    /\ Scheduler \notin Request
    /\ Limit \in Nat \ {0}
    /\ MaxRequests \in Nat /\ MaxRestarts \in Nat

Task == Request \cup {Scheduler}
Fresh == Nat \ {0}           \* deleted:<id>:<uuid> and hard-deleted:<id>:<uuid>
Id == Phone \cup Fresh

\* EXCEPTION stands for every status but ACTIVE and DELETE.
Status == {"ACTIVE", "EXCEPTION", "DELETE"}

\* origin: the id restoration goes back to, from originalEmployeeId or, in an
\* old archive, from its memo.  purge: purgeAfterAt; "due" once the 30 days
\* have passed.
Row == [who : Person \cup {Nobody}, status : Status, origin : Id \cup {NoId},
        purge : {"none", "pending", "due"}]

VARIABLES
    employee,   \* id -> row, a function on the ids in use
    account,    \* id -> [who, isActive] of the EmployeeAccount
    owner,      \* Device -> employeeId
    history,    \* Person -> the employeeId of the person's records
    targets,    \* the ids that policy targets and exclusions name
    issued,     \* how many archive and anchor ids were made
    task,       \* Task -> what it does next and has read
    ranToday,   \* lastRunDateKey is today
    requests, restarts

rows == <<employee, account, owner, history, targets, issued>>
bounds == <<requests, restarts>>
vars == <<rows, task, ranToday, bounds>>

Idle == [at |-> "idle"]
Ids == DOMAIN employee
Deleted(i) == employee[i].status = "DELETE"
Known == {h \in Person : history[h] # NoId}
Live(h, s) == [who |-> h, status |-> s, origin |-> NoId, purge |-> "none"]

\* Nobody yet, or an active employee with an account and every device.
Init ==
    \E h \in Person : \E P \in {{}} \cup {{p} : p \in Phone} :
        /\ employee = [i \in P |-> Live(h, "ACTIVE")]
        /\ account = [i \in P |-> [who |-> h, isActive |-> TRUE]]
        /\ \E i \in P \cup {NoId} :
              /\ i = NoId => P = {}
              /\ owner = [d \in Device |-> i]
              /\ history = [g \in Person |-> IF g = h THEN i ELSE NoId]
        /\ targets = P
        /\ issued = 0
        /\ task = [t \in Task |-> Idle]
        /\ ranToday = FALSE
        /\ requests = 0
        /\ restarts = 0

-----------------------------------------------------------------------------
(* Tables.  A move is updateMany where employeeId = from.                    *)

Without(f, i) == [j \in DOMAIN f \ {i} |-> f[j]]
With(f, i, v) == [j \in DOMAIN f \cup {i} |-> IF j = i THEN v ELSE f[j]]
Moved(f, from, to) ==
    IF from \notin DOMAIN f THEN f ELSE With(Without(f, from), to, f[from])
Pointing(f, from, to) == [x \in DOMAIN f |-> IF f[x] = from THEN to ELSE f[x]]

\* Mutant: what refers to the row is not repointed.
RenamedNot(S, from, to) == S

Renamed(S, from, to) == IF from \in S THEN (S \ {from}) \cup {to} ELSE S

\* The account that moves to an archive is deactivated.
Sealed(acc, i) == IF i \in DOMAIN acc THEN [acc EXCEPT ![i].isActive = FALSE] ELSE acc

Activated(acc, i) == IF i \in DOMAIN acc THEN [acc EXCEPT ![i].isActive = TRUE] ELSE acc

\* Mutant: the holder is archived after the records have moved.
HandedOverLate(f, i, p, n) == Pointing(Pointing(f, i, p), p, n)

\* The holder of p makes room under n before i moves to p.
HandedOver(f, i, p, n) == Pointing(Pointing(f, p, n), i, p)

\* Mutant: no purgeAfterAt.
ArchiveUndated(h, i) == [who |-> h, status |-> "DELETE", origin |-> i, purge |-> "none"]

\* The row a deletion leaves: named by the reader, to be purged in 30 days.
Archive(h, i) == [who |-> h, status |-> "DELETE", origin |-> i, purge |-> "pending"]

Begin(r, step) ==
    /\ r \in Request
    /\ task[r] = Idle
    /\ requests < MaxRequests
    /\ requests' = requests + 1
    /\ task' = [task EXCEPT ![r] = step]
    /\ UNCHANGED <<rows, ranToday, restarts>>

End(t) == task' = [task EXCEPT ![t] = Idle]
Goto(t, step) == task' = [task EXCEPT ![t] = step]
Rejected(t) == End(t) /\ UNCHANGED <<rows, ranToday, bounds>>

-----------------------------------------------------------------------------
(* create and bulkUploadByCompanyTeam: ids are checked first, an upload's all *)
(* at once; then, row by row, the employee is created and its account, each  *)
(* in a statement of its own.  `rest' are the rows of an upload still to come. *)

\* Somebody who has never been an employee.
Newcomer(h) ==
    /\ h \notin Known
    /\ \A t \in Task : task[t].at = "create" =>
          h # task[t].who /\ \A x \in task[t].rest : h # x.who

Create(r, p, h) ==
    /\ p \notin Ids
    /\ Newcomer(h)
    /\ Begin(r, [at |-> "create", id |-> p, who |-> h, rest |-> {}])

Upload(r, f, p) ==
    /\ DOMAIN f \cap Ids = {}
    /\ \A x \in DOMAIN f : Newcomer(f[x]) /\ \A y \in DOMAIN f \ {x} : f[x] # f[y]
    /\ p \in DOMAIN f
    /\ Begin(r, [at |-> "create", id |-> p, who |-> f[p],
                 rest |-> {[id |-> x, who |-> f[x]] : x \in DOMAIN f \ {p}}])

\* A row that fails is skipped, and with it the creation that is only one row.
NextRow(r, rest) ==
    IF rest = {}
      THEN End(r)
      ELSE \E x \in rest : Goto(r, [at |-> "create", id |-> x.id, who |-> x.who,
                                    rest |-> rest \ {x}])

CreateRow(r) ==
    LET q == task[r] IN
    /\ q.at = "create"
    /\ IF q.id \in Ids
         THEN NextRow(r, q.rest) /\ UNCHANGED rows
         ELSE /\ \E s \in Status : employee' = With(employee, q.id, Live(q.who, s))
              /\ history' = [history EXCEPT ![q.who] = q.id]
              /\ \/ Goto(r, [q EXCEPT !.at = "password"])
                 \/ NextRow(r, q.rest)
              /\ UNCHANGED <<account, owner, targets, issued>>
    /\ UNCHANGED <<ranToday, bounds>>

\* The upsert of the account; the foreign key refuses it when the row is gone.
CreateAccount(r) ==
    LET q == task[r] IN
    /\ q.at = "password"
    /\ NextRow(r, q.rest)
    /\ account' = IF q.id \in Ids
                    THEN With(account, q.id, [who |-> q.who, isActive |-> TRUE])
                    ELSE account
    /\ UNCHANGED <<employee, owner, history, targets, issued, ranToday, bounds>>

-----------------------------------------------------------------------------
(* update.  The status is checked before the transaction.                    *)

Update(r, i) ==
    /\ i \in Ids
    /\ ~Deleted(i)
    /\ Begin(r, [at |-> "update", id |-> i])

\* A password that comes with the update.
PasswordSet(acc, i, h, given) ==
    IF given THEN With(acc, i, [who |-> h, isActive |-> TRUE]) ELSE acc

\* The update of a row that keeps its id; status "same" is a body without one.
UpdateRow(r, status, password) ==
    LET i == task[r].id IN
    /\ task[r].at = "update"
    /\ i \in Ids
    /\ employee' = [employee EXCEPT ![i].status = IF status = "same" THEN @ ELSE status]
    /\ account' = PasswordSet(account, i, employee[i].who, password)
    /\ End(r)
    /\ UNCHANGED <<owner, history, targets, issued, ranToday, bounds>>

\* The row was deleted since it was read: the update throws.
UpdateLost(r) ==
    /\ task[r].at = "update"
    /\ task[r].id \notin Ids
    /\ Rejected(r)

\* reassignEmployeeId onto a free number: a new row with the default status,
\* named only if the body has a name, takes over whatever the old one owned.
ChangeId(r, p, named, status, password) ==
    LET i == task[r].id
        h == IF named THEN employee[i].who ELSE Nobody
        s == IF status = "same" THEN "ACTIVE" ELSE status
    IN
    /\ task[r].at = "update"
    /\ i \in Ids
    /\ p \notin Ids
    /\ employee' = With(Without(employee, i), p, Live(h, s))
    /\ account' = PasswordSet(Moved(account, i, p), p, employee[i].who, password)
    /\ owner' = Pointing(owner, i, p)
    /\ history' = Pointing(history, i, p)
    /\ targets' = Renamed(targets, i, p)
    /\ End(r)
    /\ UNCHANGED <<issued, ranToday, bounds>>

\* The number belongs to another employee: refused, or, once confirmed,
\* moveEmployeeToDeletedArchive archives the holder first.
TakeId(r, p, named, status, password) ==
    LET i == task[r].id
        n == issued + 1
        h == IF named THEN employee[i].who ELSE Nobody
        s == IF status = "same" THEN "ACTIVE" ELSE status
        sealed == Moved(Sealed(account, p), p, n)
    IN
    /\ task[r].at = "update"
    /\ i \in Ids
    /\ p \in Ids \ {i}
    /\ employee' = With(With(Without(employee, i), n, Archive(employee[p].who, p)),
                        p, Live(h, s))
    /\ account' = PasswordSet(Moved(sealed, i, p), p, employee[i].who, password)
    /\ owner' = HandedOver(owner, i, p, n)
    /\ history' = HandedOver(history, i, p, n)
    /\ targets' = Renamed(targets \ {p}, i, p)
    /\ issued' = n
    /\ End(r)
    /\ UNCHANGED <<ranToday, bounds>>

TakeIdRefused(r) ==
    /\ task[r].at = "update"
    /\ \E p \in Phone : p \in Ids \ {task[r].id}
    /\ Rejected(r)

UpdateStep(r) ==
    \/ UpdateLost(r)
    \/ TakeIdRefused(r)
    \/ \E status \in Status \cup {"same"}, password \in BOOLEAN :
          \/ UpdateRow(r, status, password)
          \/ \E p \in Phone, named \in BOOLEAN :
                \/ ChangeId(r, p, named, status, password)
                \/ TakeId(r, p, named, status, password)

-----------------------------------------------------------------------------
(* remove, bulkRemove and bulkUpdateStatus to DELETE.  The name is read and  *)
(* handed to removeEmployeeById; the rows of a bulk request run at once.     *)

Read(i) == [id |-> i, who |-> employee[i].who]

Remove(r, S) ==
    /\ S \subseteq Ids
    /\ Begin(r, [at |-> "remove", unread |-> {}, read |-> {Read(i) : i \in S}])

\* bulkUpdateStatus passes over the rows already deleted and reads the others again.
BulkDelete(r, S) ==
    /\ S \subseteq Ids
    /\ Begin(r, [at |-> "remove", unread |-> {i \in S : ~Deleted(i)}, read |-> {}])

BulkDeleteRead(r, i) ==
    LET q == task[r] IN
    /\ q.at = "remove"
    /\ i \in q.unread
    /\ Goto(r, [q EXCEPT !.unread = @ \ {i},
                         !.read = IF i \in Ids THEN @ \cup {Read(i)} ELSE @])
    /\ UNCHANGED <<rows, ranToday, bounds>>

\* The transaction of removeEmployeeById; it throws at its end, and undoes the
\* rest, when the row is no longer there.
RemoveRow(r, x) ==
    LET q == task[r]
        n == issued + 1
    IN
    /\ q.at = "remove"
    /\ x \in q.read
    /\ Goto(r, [q EXCEPT !.read = @ \ {x}])
    /\ IF x.id \notin Ids
         THEN UNCHANGED rows
         ELSE /\ employee' = With(Without(employee, x.id), n, Archive(x.who, x.id))
              /\ account' = Moved(Sealed(account, x.id), x.id, n)
              /\ owner' = Pointing(owner, x.id, n)
              /\ history' = Pointing(history, x.id, n)
              /\ targets' = targets \ {x.id}
              /\ issued' = n
    /\ UNCHANGED <<ranToday, bounds>>

RemoveDone(r) ==
    /\ task[r].at = "remove"
    /\ task[r].unread \cup task[r].read = {}
    /\ Rejected(r)

-----------------------------------------------------------------------------
(* bulkUpdateStatus to another status, and bulkMoveOrganization, which       *)
(* makes the EXCEPTION employees of a company ACTIVE and drops the targets   *)
(* it was given by number.  Neither asks whether a row is deleted.           *)

BulkStatus(r, S, status) ==
    /\ S \subseteq Ids
    /\ status # "DELETE"
    /\ Begin(r, [at |-> "status", ids |-> S, status |-> status])

BulkMove(r, S, inCompany) ==
    /\ S \subseteq Ids
    /\ inCompany \subseteq {i \in S : employee[i].status = "EXCEPTION"}
    /\ Begin(r, [at |-> "move", ids |-> S, status |-> "ACTIVE", activate |-> inCompany])

StatusWritten(ids, status) ==
    employee' = [i \in Ids |-> IF i \in ids THEN [employee[i] EXCEPT !.status = status]
                               ELSE employee[i]]

BulkStatusWrite(r) ==
    /\ task[r].at = "status"
    /\ StatusWritten(task[r].ids, task[r].status)
    /\ End(r)
    /\ UNCHANGED <<account, owner, history, targets, issued, ranToday, bounds>>

BulkMoveWrite(r) ==
    /\ task[r].at = "move"
    /\ StatusWritten(task[r].activate, "ACTIVE")
    /\ \E byNumber \in SUBSET (task[r].ids \cap Phone) : targets' = targets \ byNumber
    /\ End(r)
    /\ UNCHANGED <<account, owner, history, issued, ranToday, bounds>>

-----------------------------------------------------------------------------
(* restoreDeletedEmployee.  Its three checks come before its transaction.    *)

Restore(r, i) ==
    /\ i \in Ids
    /\ Deleted(i)
    /\ employee[i].origin # NoId
    /\ employee[i].origin \notin Ids
    /\ Begin(r, [at |-> "restore", id |-> i, row |-> employee[i]])

\* Mutant: deleteMany, which does not throw.
RestoreTolerant(i, p) == p \in Ids

\* The creation fails when the number was given away since, the deletion of the
\* archive when it is gone.
RestoreThrows(i, p) == p \in Ids \/ i \notin Ids

\* ACTIVE in a unit, EXCEPTION in a company.
RestoreRow(r) ==
    LET i == task[r].id
        p == task[r].row.origin
    IN
    /\ task[r].at = "restore"
    /\ End(r)
    /\ IF RestoreThrows(i, p)
         THEN UNCHANGED rows
         ELSE /\ \E s \in {"ACTIVE", "EXCEPTION"} :
                    employee' = With(Without(employee, i), p, Live(task[r].row.who, s))
              /\ account' = Activated(Moved(account, i, p), p)
              /\ owner' = Pointing(owner, i, p)
              /\ history' = Pointing(history, i, p)
              /\ targets' = Renamed(targets, i, p)
              /\ UNCHANGED issued
    /\ UNCHANGED <<ranToday, bounds>>

-----------------------------------------------------------------------------
(* The purge: hardDeleteExpiredDeletedEmployees, run by the timer at noon    *)
(* and by a request.  It lists the ids first and then, one by one, reads the *)
(* row and its devices, has the devices disconnected by the app backend and  *)
(* deletes.  An id that fails is skipped until the next purge.               *)

Due(i) ==
    /\ i \in Ids
    /\ Deleted(i)
    /\ employee[i].origin # NoId
    /\ employee[i].purge = "due"

\* What the query may list: `take' of the rows that are due.
Listed == {S \in SUBSET {i \in Ids : Due(i)} :
              \/ Cardinality(S) = Limit
              \/ Cardinality(S) < Limit /\ S = {i \in Ids : Due(i)}}

SweepRequest(r) ==
    \E S \in Listed : Begin(r, [at |-> "sweep", ids |-> S, id |-> NoId])

\* runTick inside its window, on a day on which it has not run.
Tick ==
    /\ ~ranToday
    /\ task[Scheduler] = Idle
    /\ ranToday' = TRUE
    /\ \E S \in Listed : Goto(Scheduler, [at |-> "sweep", ids |-> S, id |-> NoId])
    /\ UNCHANGED <<rows, bounds>>

\* Mutant: isRunning is not cleared.
TickFailsRunning ==
    /\ ~ranToday
    /\ task[Scheduler] = Idle
    /\ ranToday' = TRUE
    /\ Goto(Scheduler, [at |-> "running"])
    /\ UNCHANGED <<rows, bounds>>

\* The query throws: isRunning is cleared by the finally block, the day is lost.
TickFails ==
    /\ ~ranToday
    /\ task[Scheduler] = Idle
    /\ ranToday' = TRUE
    /\ UNCHANGED <<rows, task, bounds>>

NextDay ==
    /\ ranToday
    /\ ranToday' = FALSE
    /\ UNCHANGED <<rows, task, bounds>>

\* Mutant: originalEmployeeId where the id is meant.
SweepReadOriginal(t, i) ==
    LET q == task[t] IN
    /\ q.at = "sweep"
    /\ q.id = NoId
    /\ i \in q.ids
    /\ Goto(t, [q EXCEPT !.ids = @ \ {i},
                         !.id = IF i \in Ids /\ Deleted(i) THEN employee[i].origin ELSE NoId])
    /\ UNCHANGED <<rows, ranToday, bounds>>

\* hardDeleteDeletedEmployeeById up to the calls of the app backend.
SweepRead(t, i) ==
    LET q == task[t] IN
    /\ q.at = "sweep"
    /\ q.id = NoId
    /\ i \in q.ids
    /\ Goto(t, [q EXCEPT !.ids = @ \ {i},
                         !.id = IF i \in Ids /\ Deleted(i) /\ employee[i].origin # NoId
                                  THEN i ELSE NoId])
    /\ UNCHANGED <<rows, ranToday, bounds>>

\* Its transaction.  The anchor has no name; `who' is whose records it keeps.
\* The last statement deletes the row and throws if it is gone.
SweepRow(t) ==
    LET q == task[t]
        i == q.id
        n == issued + 1
    IN
    /\ q.at = "sweep"
    /\ i # NoId
    /\ Goto(t, [q EXCEPT !.id = NoId])
    /\ IF i \notin Ids
         THEN UNCHANGED rows
         ELSE /\ employee' = With(Without(employee, i), n,
                                  Live(employee[i].who, "DELETE"))
              /\ account' = Without(account, i)
              /\ owner' = Pointing(owner, i, NoId)
              /\ history' = Pointing(history, i, n)
              /\ targets' = targets \ {i}
              /\ issued' = n
    /\ UNCHANGED <<ranToday, bounds>>

SweepDone(t) ==
    /\ task[t].at = "sweep"
    /\ task[t].id = NoId
    /\ task[t].ids = {}
    /\ Rejected(t)

-----------------------------------------------------------------------------
(* Devices.  The first way refuses deleted employees and devices of others,  *)
(* the second, of the device service, neither; both write what they read,    *)
(* and the foreign key refuses an employee that is gone.                     *)

AssignDevice(r, i, d) ==
    /\ i \in Ids
    /\ ~Deleted(i)
    /\ owner[d] \in {NoId, i}
    /\ Begin(r, [at |-> "assign", id |-> i, device |-> d])

AssignToEmployee(r, i, d) ==
    /\ i \in Ids
    /\ Begin(r, [at |-> "assign", id |-> i, device |-> d])

AssignWrite(r) ==
    LET q == task[r] IN
    /\ q.at = "assign"
    /\ owner' = IF q.id \in Ids THEN [owner EXCEPT ![q.device] = q.id] ELSE owner
    /\ End(r)
    /\ UNCHANGED <<employee, account, history, targets, issued, ranToday, bounds>>

UnassignDevice(r, i) ==
    /\ i \in Ids
    /\ ~Deleted(i)
    /\ Begin(r, [at |-> "unassign", devices |-> {}, id |-> i])

\* unassign of the device service names the device.
Unassign(r, d) == Begin(r, [at |-> "unassign", devices |-> {d}, id |-> NoId])

UnassignWrite(r) ==
    LET q == task[r] IN
    /\ q.at = "unassign"
    /\ owner' = [d \in Device |-> IF owner[d] = q.id \/ d \in q.devices THEN NoId
                                  ELSE owner[d]]
    /\ End(r)
    /\ UNCHANGED <<employee, account, history, targets, issued, ranToday, bounds>>

-----------------------------------------------------------------------------
(* Thirty days pass; the process restarts and forgets what it was doing.     *)

Expire(i) ==
    /\ i \in Ids
    /\ employee[i].purge = "pending"
    /\ employee' = [employee EXCEPT ![i].purge = "due"]
    /\ UNCHANGED <<account, owner, history, targets, issued, task, ranToday, bounds>>

Restart ==
    /\ restarts < MaxRestarts
    /\ restarts' = restarts + 1
    /\ task' = [t \in Task |-> Idle]
    /\ ranToday' = FALSE
    /\ UNCHANGED <<rows, requests>>

Sweep(t) ==
    \/ SweepRow(t)
    \/ SweepDone(t)
    \/ task[t].at = "sweep" /\ \E i \in task[t].ids : SweepRead(t, i)

RequestBegins(r) ==
    \/ \E p \in Phone, h \in Person : Create(r, p, h)
    \/ \E P \in SUBSET Phone : \E f \in [P -> Person], p \in P : Upload(r, f, p)
    \/ \E i \in Ids : Update(r, i) \/ Restore(r, i) \/ UnassignDevice(r, i)
    \/ \E S \in {B \in SUBSET Ids : Cardinality(B) \in 1..MaxBulk} :
          \/ Remove(r, S) \/ BulkDelete(r, S)
          \/ \E s \in Status : BulkStatus(r, S, s)
          \/ \E C \in SUBSET S : BulkMove(r, S, C)
    \/ SweepRequest(r)
    \/ \E d \in Device :
          Unassign(r, d) \/ \E i \in Ids : AssignDevice(r, i, d) \/ AssignToEmployee(r, i, d)

RequestSteps(r) ==
    \/ CreateRow(r) \/ CreateAccount(r)
    \/ UpdateStep(r)
    \/ RemoveDone(r)
    \/ /\ task[r].at = "remove"
       /\ \/ \E i \in task[r].unread : BulkDeleteRead(r, i)
          \/ \E x \in task[r].read : RemoveRow(r, x)
    \/ BulkStatusWrite(r) \/ BulkMoveWrite(r)
    \/ RestoreRow(r)
    \/ AssignWrite(r) \/ UnassignWrite(r)

Next ==
    \/ \E r \in Request : RequestBegins(r) \/ RequestSteps(r)
    \/ \E t \in Task : Sweep(t)
    \/ Tick \/ TickFails \/ NextDay
    \/ \E i \in Ids : Expire(i)
    \/ Restart

\* Days pass, the timer ticks in the window of a day without its query failing
\* every day, and what a process is doing goes on.
Fairness ==
    /\ WF_vars(NextDay)
    /\ SF_vars(Tick)
    /\ WF_vars(Sweep(Scheduler))

Spec == Init /\ [][Next]_vars /\ Fairness

-----------------------------------------------------------------------------
(* Properties.                                                               *)

StepType ==
    [at : {"idle"}]
    \cup [at : {"create", "password"}, id : Phone, who : Person,
          rest : SUBSET [id : Phone, who : Person]]
    \cup [at : {"update"}, id : Id]
    \cup [at : {"remove"}, unread : SUBSET Id,
          read : SUBSET [id : Id, who : Person \cup {Nobody}]]
    \cup [at : {"status"}, ids : SUBSET Id, status : Status]
    \cup [at : {"move"}, ids : SUBSET Id, status : Status, activate : SUBSET Id]
    \cup [at : {"restore"}, id : Id, row : Row]
    \cup [at : {"sweep"}, ids : SUBSET Id, id : Id \cup {NoId}]
    \cup [at : {"assign"}, id : Id, device : Device]
    \cup [at : {"unassign"}, devices : SUBSET Device, id : Id \cup {NoId}]

\* Every table holds what its schema says, and what is deleted and can be
\* restored has a date of its purge.
TypeOK ==
    /\ \A i \in Ids : i \in Id /\ employee[i] \in Row
    /\ \A i \in DOMAIN account :
          i \in Id /\ account[i] \in [who : Person \cup {Nobody}, isActive : BOOLEAN]
    /\ \A d \in Device : owner[d] \in Id \cup {NoId}
    /\ \A h \in Person : history[h] \in Id \cup {NoId}
    /\ \A i \in Ids : employee[i].origin = NoId <=> employee[i].purge = "none"
    /\ issued \in Nat
    /\ \A t \in Task : task[t] \in StepType
    /\ ranToday \in BOOLEAN
    /\ requests \in 0..MaxRequests
    /\ restarts \in 0..MaxRestarts

\* Deleting, restoring, purging and giving a number away leave nothing behind:
\* whatever belongs to an employee belongs to a row that exists.
ReferencesExist ==
    /\ DOMAIN account \cup targets \subseteq Ids
    /\ \A d \in Device : owner[d] \in Ids \cup {NoId}
    /\ \A h \in Person : history[h] \in Ids \cup {NoId}

\* A person is one row, however deletions, restorations and purges of it meet.
OneRowPerPerson ==
    \A i, j \in Ids : employee[i].who = employee[j].who => i = j \/ employee[i].who = Nobody

\* The records and the account under an id are those of the person it names.
RecordsOfOne ==
    /\ \A g, h \in Person : history[g] = history[h] => g = h \/ history[g] = NoId
    /\ \A h \in Known : employee[history[h]].who \in {h, Nobody}
    /\ \A i \in DOMAIN account : account[i].who \in {employee[i].who, Nobody}
                                \/ employee[i].who = Nobody

\* The employees a step purges: their rows make way for an anchor.
Anchors == {i \in Ids \cap Fresh : Deleted(i) /\ employee[i].origin = NoId}
Purged == {i \in Ids \ Ids' : \E j \in Anchors' \ Ids : employee'[j].who = employee[i].who}

\* An employee under a phone number is never purged: not one that was restored,
\* or restored and deleted again, while a purge had its archive on its list.
NumbersNotPurged == [][Purged \cap Phone = {}]_vars

\* A purge takes deleted employees whose 30 days have passed
\* (employees.controller.ts:162).
ExpiredPurged == [][\A i \in Purged : Deleted(i) /\ employee[i].purge = "due"]_vars

\* A deleted employee whose 30 days have passed is purged in the end, unless a
\* request brings it back.
Expired(h) == \E i \in Ids : Due(i) /\ employee[i].who = h
DueIsPurged == \A h \in Person : Expired(h) ~> ~Expired(h)
================================================================================
