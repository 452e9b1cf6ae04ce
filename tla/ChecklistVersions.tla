--------------------------- MODULE ChecklistVersions ---------------------------
(***************************************************************************)
(* The rows of modules/safety-checklists/: the checklists with their          *)
(* versions, and the templates of their items with names that are unique      *)
(* within an organization.  Each request reads its row, and the name it       *)
(* checks, before it writes; none of the reads is repeated or locked.         *)
(***************************************************************************)
EXTENDS Integers, FiniteSets

CONSTANTS
    Sheet,       \* the ids of checklists
    Template,    \* the ids of the templates of one organization
    Name,        \* the names of templates
    Writer,      \* requests in flight at the same time
    MaxVersion,  \* bound: the versions of a checklist
    MaxWrites    \* bound: the writes of template names

\* What is assumed of the constants.
VersionAssumption == MaxVersion \in Nat \ {0} /\ MaxWrites \in Nat

Status == {"DRAFT", "ACTIVE", "ARCHIVED"}
\* No row.
Absent == [status |-> "none", name |-> "none", at |-> 0]

VARIABLES
    sheet,     \* Sheet -> Absent, or the row with its versions
    template,  \* Template -> Absent, or the row
    writer,    \* Writer -> what it has read
    writes     \* ghost: how many template names have been written

rowVars == <<sheet, template, writer, writes>>

Free == [at |-> "free"]

Init ==
    /\ sheet = [s \in Sheet |-> Absent]
    /\ template = [t \in Template |-> Absent]
    /\ writer = [w \in Writer |-> Free]
    /\ writes = 0

Live(s) == sheet[s] # Absent /\ ~ sheet[s].deleted

-----------------------------------------------------------------------------
(* Checklists. *)

Create(s, status) ==
    /\ sheet[s] = Absent
    /\ sheet' = [sheet EXCEPT ![s] =
          [status |-> status, version |-> 1, current |-> 1, deleted |-> FALSE]]
    /\ UNCHANGED <<template, writer, writes>>

\* update and deploy read the row and its versions before their transactions.
Read(w, s, at) ==
    /\ writer[w] = Free
    /\ Live(s)
    /\ at = "deploy" => sheet[s].status # "ARCHIVED"
    /\ writer' = [writer EXCEPT ![w] = [at |-> at, id |-> s, row |-> sheet[s]]]
    /\ UNCHANGED <<sheet, template, writes>>

\* The newest of the versions that were read.
LatestVersion(row) == row.version

\* Mutant: the first of versions that are read in ascending order.
CurrentVersionOldest(row) == 1

\* The current version that was read.
CurrentVersion(row) == row.current

\* New sections make a version; what the request does not give is written back
\* as it was read.
Update(w, status, sections) ==
    /\ writer[w].at = "update"
    /\ LET row == writer[w].row
           next == LatestVersion(row) + 1
           s == writer[w].id
       IN  /\ sections => next <= MaxVersion
           /\ sheet' = [sheet EXCEPT
                 ![s].status = IF status = "kept" THEN row.status ELSE status,
                 ![s].version = IF sections /\ next > @ THEN next ELSE @,
                 ![s].current = IF sections THEN next ELSE CurrentVersion(row)]
    /\ writer' = [writer EXCEPT ![w] = Free]
    /\ UNCHANGED <<template, writes>>

\* The first deployment of a draft activates it.
Deploy(w) ==
    /\ writer[w].at = "deploy"
    /\ sheet' = [sheet EXCEPT ![writer[w].id].status =
          IF writer[w].row.status = "DRAFT" THEN "ACTIVE" ELSE @]
    /\ writer' = [writer EXCEPT ![w] = Free]
    /\ UNCHANGED <<template, writes>>

Remove(s) ==
    /\ Live(s)
    /\ sheet' = [sheet EXCEPT ![s].deleted = TRUE, ![s].status = "ARCHIVED"]
    /\ UNCHANGED <<template, writer, writes>>

\* pickCurrentVersion: what a detail shows and a deployment is made of.
Shown(s) ==
    IF sheet[s].current \in 1..sheet[s].version THEN sheet[s].current
    ELSE sheet[s].version

-----------------------------------------------------------------------------
(* Templates. *)

\* Mutant: the name is looked up among the templates that were written last.
NameTakenByNewest(name, t) ==
    \E u \in Template \ {t} :
        template[u] # Absent /\ template[u].name = name /\ template[u].at = writes

\* assertItemTemplateNameAvailable
NameTaken(name, t) ==
    \E u \in Template \ {t} : template[u] # Absent /\ template[u].name = name

\* A name that an update does not change is not looked up: `seen' is when the name
\* was looked up that is going to be written.
CheckName(w, t, name) ==
    LET same == template[t] # Absent /\ template[t].name = name
    IN  /\ writer[w] = Free
        /\ same \/ ~ NameTaken(name, t)
        /\ writer' = [writer EXCEPT ![w] =
              [at |-> IF template[t] = Absent THEN "create" ELSE "rename", id |-> t,
               name |-> name, seen |-> IF same THEN template[t].seen ELSE writes]]
        /\ UNCHANGED <<sheet, template, writes>>

WriteName(w) ==
    /\ writer[w].at \in {"create", "rename"}
    /\ writes < MaxWrites
    /\ LET q == writer[w]
       IN  /\ (q.at = "create") = (template[q.id] = Absent)
           /\ template' = [template EXCEPT ![q.id] =
                 [name |-> q.name, at |-> writes + 1, seen |-> q.seen]]
    /\ writes' = writes + 1
    /\ writer' = [writer EXCEPT ![w] = Free]
    /\ UNCHANGED sheet

RemoveTemplate(t) ==
    /\ template[t] # Absent
    /\ template' = [template EXCEPT ![t] = Absent]
    /\ UNCHANGED <<sheet, writer, writes>>

\* A row that is gone, sections that are not valid, targets that are refused.
Fail(w) ==
    /\ writer[w] # Free
    /\ writer' = [writer EXCEPT ![w] = Free]
    /\ UNCHANGED <<sheet, template, writes>>

Next ==
    \/ \E s \in Sheet :
          \/ \E status \in Status : Create(s, status)
          \/ Remove(s)
          \/ \E w \in Writer, at \in {"update", "deploy"} : Read(w, s, at)
    \/ \E w \in Writer :
          \/ \E status \in Status \cup {"kept"}, sections \in BOOLEAN :
                Update(w, status, sections)
          \/ Deploy(w)
          \/ WriteName(w)
          \/ Fail(w)
    \/ \E t \in Template :
          \/ RemoveTemplate(t)
          \/ \E w \in Writer, name \in Name : CheckName(w, t, name)

Spec == Init /\ [][Next]_rowVars

-----------------------------------------------------------------------------
(* Properties. *)

TypeOK ==
    /\ \A s \in Sheet : sheet[s] # Absent =>
          /\ sheet[s].status \in Status
          /\ sheet[s].version \in 1..MaxVersion
          /\ sheet[s].current \in 1..sheet[s].version
    /\ \A t \in Template : template[t] # Absent =>
          template[t].name \in Name /\ template[t].at \in 1..writes
    /\ writes \in 0..MaxWrites

\* A version stops being the current one only for a newer one, unless the request
\* that replaces it had read a row that was changed meanwhile: no sequence of
\* updates, deployments and removals that do not overlap brings an old version
\* back.
CurrentOnlyGrows ==
    [][\A s \in Sheet :
          (Live(s) /\ sheet'[s].current < sheet[s].current) =>
              \E w \in Writer : /\ writer[w].at = "update" /\ writer'[w] = Free
                               /\ writer[w].row # sheet[s]]_rowVars

\* Of two templates with the same name, the one that was written later was
\* checked before the other one was written.
NamesUnlessConcurrent ==
    \A t, u \in Template :
        (/\ t # u /\ template[t] # Absent /\ template[u] # Absent
         /\ template[t].name = template[u].name
         /\ template[t].at < template[u].at)
            => template[u].seen < template[t].at
===============================================================================
