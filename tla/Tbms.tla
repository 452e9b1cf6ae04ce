--------------------------------- MODULE Tbms ---------------------------------
(***************************************************************************)
(* The records of tool box meetings: modules/tbms/.  A record has a status    *)
(* with the times it started and ended, participants, an audio file and       *)
(* attachments.  Every request loads the row, checks it and writes it later;  *)
(* files are on disk before a request starts and are removed after its        *)
(* transaction.  The files of a row are its attachments; the audio is one     *)
(* that a row has at most once.                                             *)
(*                                                                         *)
(* An organization is a company or a unit of one; units may be moved.         *)
(***************************************************************************)
EXTENDS Integers, FiniteSets

CONSTANTS
    Tbm,
    Person,        \* the employees that may be selected
    Company,
    Unit,
    At,            \* [Person -> Unit], where an employee works
    Speaks,        \* [Person -> Language], the language of an employee
    Korean,        \* the language of every record
    File,
    NoFile,
    Caller,        \* requests in flight at the same time
    MaxContent,    \* bound: the writes of a record's content
    MaxFiles,      \* bound: the files of a request
    MaxCalls       \* bound: the requests

\* What is assumed of the constants.
TbmAssumption ==
    /\ IsFiniteSet(Person) /\ At \in [Person -> Unit]
    /\ NoFile \notin File
    /\ Company # {} /\ Company \cap Unit = {}
    /\ MaxContent \in Nat \ {0}
    /\ MaxFiles \in Nat /\ MaxCalls \in Nat

Workplace == Company \cup Unit
Language == {Speaks[p] : p \in Person}
TbmStatus == {"CREATED", "ACTIVE", "ENDED"}

VARIABLES
    companyOf,  \* Unit -> the company it is under
    session,    \* Tbm -> the row
    confirmed,  \* Tbm -> the participants that confirmed
    disk,       \* the files that are stored
    made,       \* ghost: the files there ever were: a stored name has a random UUID
    queued,     \* Tbm -> Language -> the newest content queued for translation
    calls,      \* how many requests have arrived
    caller,     \* Caller -> what it does next and has read
    overtaken   \* ghost: the records written by a request that read another row

tbmVars == <<companyOf, session, confirmed, disk, made, queued, calls, caller,
            overtaken>>

Idle == [at |-> "idle"]
NoRow == [status |-> "none", started |-> FALSE, ended |-> FALSE,
          deleted |-> FALSE, company |-> NoFile, author |-> NoFile, content |-> 0,
          people |-> {}, audio |-> NoFile, files |-> {}]

Init ==
    /\ companyOf \in [Unit -> {CHOOSE c \in Company : TRUE}]
    /\ session = [t \in Tbm |-> NoRow]
    /\ confirmed = [t \in Tbm |-> {}]
    /\ disk = {} /\ made = {}
    /\ queued = [t \in Tbm |-> [l \in Language |-> 0]]
    /\ calls = 0
    /\ caller = [r \in Caller |-> Idle]
    /\ overtaken = {}

Live(t) == session[t].status # "none" /\ ~ session[t].deleted
Named(row) == row.files \cup ({row.audio} \ {NoFile})

-----------------------------------------------------------------------------
(* Organizations. *)

\* collectDescendantOrganizationIds
Subtree(o) == {o} \cup {u \in Unit : companyOf[u] = o}

\* resolveOrganizationPath
CompanyOf(o) == IF o \in Company THEN o ELSE companyOf[o]

\* filterParticipantsInAuthorCompany
Visible(row) == {p \in row.people : At[p] \in Subtree(row.company)}

\* assertEmployeeInAuthorCompany
InCompany(people, company) == \A p \in people : At[p] \in Subtree(company)

-----------------------------------------------------------------------------
(* Requests. *)

To(r, next) == caller' = [caller EXCEPT ![r] = next]

\* The row is replaced by a request that has read `row'.
Write(t, row, new) ==
    /\ session' = [session EXCEPT ![t] = new]
    /\ overtaken' = IF session[t] = row THEN overtaken ELSE overtaken \cup {t}

\* What queueTbmTranslations adds for the languages of the people.
Queue(t, people, content) ==
    queued' = [queued EXCEPT ![t] =
        [l \in Language |->
            IF /\ l # Korean /\ \E p \in people : Speaks[p] = l
               /\ content > queued[t][l]
            THEN content ELSE queued[t][l]]]

\* A request arrives; its files are stored first, and the row is loaded.
Arrive(r, t, at, audio, files) ==
    /\ caller[r] = Idle /\ calls < MaxCalls
    /\ calls' = calls + 1
    /\ audio = NoFile \/ audio \notin files
    /\ LET new == files \cup ({audio} \ {NoFile})
       IN  /\ new \cap made = {} /\ Cardinality(new) <= MaxFiles
           /\ disk' = disk \cup new /\ made' = made \cup new
    /\ IF at = "create" THEN session[t].status = "none" ELSE Live(t)
    /\ To(r, [at |-> at, t |-> t, audio |-> audio, files |-> files,
              row |-> session[t]])
    /\ UNCHANGED <<companyOf, session, confirmed, queued, overtaken>>

Uploaded(q) == q.files \cup ({q.audio} \ {NoFile})

Create(r) ==
    /\ caller[r].at = "create"
    /\ session[caller[r].t].status = "none"
    /\ \E author \in Person, people \in SUBSET Person \ {{}} :
          LET q == caller[r]
              owner == CompanyOf(At[author])
          IN  /\ InCompany(people, owner)
              /\ session' = [session EXCEPT ![q.t] =
                    [NoRow EXCEPT !.status = "CREATED", !.company = owner,
                       !.author = At[author], !.content = 1, !.people = people,
                       !.audio = q.audio, !.files = q.files]]
              /\ Queue(q.t, people, 1)
              /\ To(r, Idle)
    /\ UNCHANGED <<made, companyOf, confirmed, disk, overtaken, calls>>

\* Mutant: the old audio is removed from disk whatever replaces it in the row.
RemovedByAnyUpdate(q, gone, replacing) == gone \cup ({q.row.audio} \ {NoFile})

\* The files that an update removes from disk when its transaction is over.
RemovedByUpdate(q, gone, replacing) ==
    gone \cup IF replacing THEN {q.row.audio} \ {NoFile} ELSE {}

\* Mutant: the languages of the participants that were read are queued.
NextPeopleAsRead(q, people) == q.row.people

\* The participants whose languages are queued.
NextPeople(q, people) == people

\* The transaction of update, and what follows it: files that were replaced are
\* removed and translations queued, which no other request can tell from one
\* step.  The participants that were read and are not named
\* are deleted, those that are new are added; the audio row is deleted by the id
\* of the record, whoever stored it, and a second one is refused.
Update(r) ==
    /\ caller[r].at = "update"
    /\ \E people \in SUBSET Person \ {{}}, gone \in SUBSET caller[r].row.files,
          removeAudio \in BOOLEAN :
          LET q == caller[r]
              now == session[q.t]
              replacing == q.audio # NoFile \/ removeAudio
              kept == IF replacing /\ q.row.audio # NoFile THEN NoFile ELSE now.audio
              added == people \ q.row.people
          IN  /\ now.content < MaxContent
              /\ InCompany(people, q.row.company)
              /\ replacing /\ q.row.audio # NoFile => now.audio # NoFile
              /\ q.audio = NoFile \/ kept = NoFile
              /\ Write(q.t, q.row,
                   [now EXCEPT
                      !.content = now.content + 1,
                      !.people = (now.people \ (q.row.people \ people)) \cup added,
                      !.files = (now.files \ gone) \cup q.files,
                      !.audio = IF q.audio # NoFile THEN q.audio ELSE kept])
              /\ confirmed' = [confirmed EXCEPT ![q.t] =
                                 @ \ (q.row.people \ people)]
              /\ disk' = disk \ RemovedByUpdate(q, gone, replacing)
              /\ Queue(q.t, NextPeople(q, people), now.content + 1)
              /\ To(r, Idle)
    /\ UNCHANGED <<made, companyOf, calls>>

Remove(r) ==
    /\ caller[r].at = "remove"
    /\ LET q == caller[r]
       IN  /\ Write(q.t, q.row, [session[q.t] EXCEPT !.deleted = TRUE])
           /\ disk' = disk \ Named(q.row)
           /\ To(r, Idle)
    /\ UNCHANGED <<made, companyOf, confirmed, queued, calls>>

\* A check that fails, a transaction that is refused.  What fails after the commit,
\* in findOne, is returned and not awaited: its rejection is not caught.
Fail(r) ==
    /\ caller[r].at \in {"create", "update", "remove", "start", "end", "set"}
    /\ disk' = disk \ Uploaded(caller[r])
    /\ To(r, Idle)
    /\ UNCHANGED <<made, companyOf, session, confirmed, queued, overtaken, calls>>

-----------------------------------------------------------------------------
(* The status. *)

Stored(r, new) ==
    /\ Write(caller[r].t, caller[r].row, new)
    /\ To(r, Idle)

\* A record that is ACTIVE is left as it is.
Start(r) ==
    /\ caller[r].at = "start"
    /\ caller[r].row.status = "CREATED"
    /\ Stored(r, [session[caller[r].t] EXCEPT !.status = "ACTIVE", !.started = TRUE])
    /\ UNCHANGED <<made, companyOf, confirmed, disk, queued, calls>>

End(r) ==
    /\ caller[r].at = "end"
    /\ caller[r].row.status = "ACTIVE"
    /\ Stored(r, [session[caller[r].t] EXCEPT !.status = "ENDED", !.ended = TRUE])
    /\ UNCHANGED <<made, companyOf, confirmed, disk, queued, calls>>

\* Mutant: a record that goes back before its start keeps the end.
TimesKeepingEnd(row, status) ==
    [row EXCEPT !.status = status, !.started = status # "CREATED",
                !.ended = status = "ENDED" \/ row.ended]

\* The times that changeStatus writes with a status.
Times(row, status) ==
    [row EXCEPT !.status = status, !.started = status # "CREATED",
                !.ended = status = "ENDED"]

ChangeStatus(r, status, reset) ==
    /\ caller[r].at = "set"
    /\ Stored(r, Times(session[caller[r].t], status))
    /\ confirmed' = IF status = "CREATED" /\ reset
                    THEN [confirmed EXCEPT ![caller[r].t] = {}]
                    ELSE confirmed
    /\ UNCHANGED <<made, companyOf, disk, queued, calls>>

-----------------------------------------------------------------------------
(* The app back end and the organizations service. *)

Confirm(t, p) ==
    /\ Live(t) /\ p \in session[t].people \ confirmed[t]
    /\ confirmed' = [confirmed EXCEPT ![t] = @ \cup {p}]
    /\ UNCHANGED <<made, companyOf, session, disk, queued, caller, overtaken, calls>>

MoveUnit(u, c) ==
    /\ companyOf[u] # c
    /\ companyOf' = [companyOf EXCEPT ![u] = c]
    /\ UNCHANGED <<made, session, confirmed, disk, queued, caller, overtaken, calls>>

Next ==
    \/ \E r \in Caller, t \in Tbm :
          \/ \E at \in {"create", "update"}, audio \in File \cup {NoFile},
                files \in SUBSET File : Arrive(r, t, at, audio, files)
          \/ \E at \in {"remove", "start", "end", "set"} :
                Arrive(r, t, at, NoFile, {})
    \/ \E r \in Caller :
          \/ Create(r) \/ Update(r) \/ Remove(r) \/ Fail(r)
          \/ Start(r) \/ End(r)
          \/ \E status \in TbmStatus, reset \in BOOLEAN :
                ChangeStatus(r, status, reset)
    \/ \E t \in Tbm, p \in Person : Confirm(t, p)
    \/ \E u \in Unit, c \in Company : MoveUnit(u, c)

Spec == Init /\ [][Next]_tbmVars

-----------------------------------------------------------------------------
(* What an administrator sees whose scope is the organizations S. *)

\* resolveQueryOrganizationIds
QueryScope(S, o) == IF o \in S THEN Subtree(o) \cap S ELSE {}

\* buildScopeWhere: what the query takes.
ScopeWhere(row, S) ==
    \/ row.company \in S
    \/ row.author \in S
    \/ \E p \in row.people : At[p] \in S

\* isTbmVisibleInOrganizationIds: what findAll keeps of it.
VisibleIn(row, S) ==
    \/ row.company \in S \/ row.author \in S
    \/ \E p \in Visible(row) : At[p] \in S

\* assertTbmInScope
InScope(row, S) ==
    LET authorInScope == row.company \in S \/ row.author \in S
        attendeeInScope == {At[p] : p \in Visible(row)} \cap S # {}
    IN  authorInScope \/ attendeeInScope

\* buildAttendeeSummary
Summary(t) ==
    [total |-> Cardinality(Visible(session[t])),
     confirmed |-> Cardinality(Visible(session[t]) \cap confirmed[t])]

\* matchesConfirmFilter
Matches(t, filter) ==
    CASE filter = "HAS_PENDING" -> Visible(session[t]) \ confirmed[t] # {}
      [] filter = "ALL_CONFIRMED" -> Visible(session[t]) \subseteq confirmed[t]
      [] OTHER -> TRUE

FindAll(S, filter) ==
    {t \in Tbm : /\ Live(t) /\ ScopeWhere(session[t], S)
                 /\ VisibleIn(session[t], S) /\ Matches(t, filter)}

\* getDateRange takes the same rows as findAll, of which it returns the ends.
DateRows(S, filter) ==
    {t \in Tbm : /\ Live(t) /\ ScopeWhere(session[t], S)
                 /\ VisibleIn(session[t], S) /\ Matches(t, filter)}

\* findOne: the attendees of buildDetail.
FindOne(t, S) ==
    IF Live(t) /\ InScope(session[t], S) THEN Visible(session[t]) ELSE {}

\* findCandidates for an author, create takes no others.
Candidates(author, S) ==
    {p \in Person : At[p] \in S \cap Subtree(CompanyOf(At[author]))}

\* dispatchTbmPushToAttendees: who is told of a start.
Recipients(t) == Visible(session[t])

\* The languages of the attendees that the newest content is not queued for.
NotQueued(t) ==
    {l \in {Speaks[p] : p \in Visible(session[t])} \ {Korean} :
        queued[t][l] < session[t].content}

-----------------------------------------------------------------------------
(* Properties. *)

TypeOK ==
    /\ companyOf \in [Unit -> Company]
    /\ \A t \in Tbm :
          /\ session[t].status \in TbmStatus \cup {"none"}
          /\ session[t].people \subseteq Person
          /\ session[t].files \subseteq File
          /\ session[t].audio \in File \cup {NoFile}
          /\ session[t].content \in 0..MaxContent
          /\ confirmed[t] \subseteq session[t].people
    /\ disk \subseteq File
    /\ queued \in [Tbm -> [Language -> 0..MaxContent]]

\* A record that is open can be downloaded from: whatever requests replace and
\* remove at the same time, each file it names is on disk.
NamedFilesExist ==
    \A t \in Tbm : Live(t) => Named(session[t]) \subseteq disk

\* Nothing is left on disk: a file is named by a record or a request will remove
\* or store it, as long as no request was overtaken by another one.
NoFileLeft ==
    overtaken = {} =>
        \A f \in disk :
            \/ \E t \in Tbm : Live(t) /\ f \in Named(session[t])
            \/ \E r \in Caller :
                  caller[r].at \in {"create", "update"} /\ f \in Uploaded(caller[r])

\* The times fit the status through starts, ends and changes back and forth.
TimesFit ==
    \A t \in Tbm \ overtaken : Live(t) =>
        /\ session[t].started <=> session[t].status # "CREATED"
        /\ session[t].ended <=> session[t].status = "ENDED"

\* The content of a record is queued for the languages of all its participants,
\* those who were added by the update and those who were kept.
LanguagesQueued ==
    \A t \in Tbm \ overtaken : Live(t) => NotQueued(t) = {}

\* An administrator opens exactly what the list shows, with the attendees that
\* it counts; the two filters divide the list; only attendees are told of it.
ListsAgree ==
    \A o \in Workplace :
        LET S == QueryScope(Subtree(o), o)
            all == FindAll(S, "ALL")
        IN  /\ all = {t \in Tbm : Live(t) /\ InScope(session[t], S)}
            /\ DateRows(S, "HAS_PENDING") = all \ FindAll(S, "ALL_CONFIRMED")
            /\ \A t \in all :
                  /\ Summary(t).total = Cardinality(FindOne(t, S))
                  /\ Summary(t).confirmed <= Summary(t).total
                  /\ Recipients(t) = FindOne(t, S)
            /\ \A p \in Person : At[p] \in S =>
                  InCompany(Candidates(p, S), CompanyOf(At[p]))
===============================================================================
