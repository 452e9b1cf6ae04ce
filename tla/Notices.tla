------------------------------- MODULE Notices -------------------------------
(***************************************************************************)
(* Notices and their templates: modules/notices/.  A file is uploaded before  *)
(* the notice that will name it is saved; a request checks that it is there,  *)
(* saves the notice, removes the files that were dropped, and then stores the *)
(* Korean text for translation when no newer one is stored.  The clean-up of  *)
(* uploads removes a file that no notice named when it looked.               *)
(*                                                                         *)
(* The organizations do not change here; what an account may do follows from  *)
(* its place among them.                                                    *)
(***************************************************************************)
EXTENDS Integers, FiniteSets

CONSTANTS
    Notice, Template, File, Caller,
    Org, NoOrg, Kind, Active,        \* the organizations and the accounts of
    Account, Super, Of,              \* OrganizationScope, with what it makes
    Descendants, GuardScope,         \* of them: functions on organizations
    Manageable, Readable,            \* and on accounts
    MaxContent,   \* bound: the saves of a notice
    MaxCalls      \* bound: the requests

\* What is assumed of the constants.
NoticeAssumption == MaxContent \in Nat \ {0} /\ MaxCalls \in Nat

VARIABLES
    notice,    \* Notice -> the row with its attachments
    template,  \* Template -> its organization, NoOrg when there is none
    stored,    \* the files on disk
    korean,    \* Notice -> the content stored for translation, 0 when none is
    desk,      \* Caller -> what it does next and has read
    served,    \* how many requests have arrived
    torn,      \* ghost: the notices of which two texts were stored at a time
    known,     \* ghost: the files that requests have named
    shared     \* ghost: those that two have named

noticeVars == <<notice, template, stored, korean, desk, served, torn, known,
                shared>>

Free == [at |-> "free"]
NoNotice == [org |-> NoOrg, by |-> NoOrg, template |-> NoOrg, content |-> 0,
             files |-> {}]

Init ==
    /\ notice = [n \in Notice |-> NoNotice]
    /\ template = [t \in Template |-> NoOrg]
    /\ stored = {}
    /\ korean = [n \in Notice |-> 0]
    /\ desk = [r \in Caller |-> Free]
    /\ served = 0
    /\ torn = {} /\ known = {} /\ shared = {}

Posted(n) == notice[n].org # NoOrg
New(n) == notice[n].content = 0

-----------------------------------------------------------------------------
(* What an account reads and edits. *)

\* resolveActorAccessContext
EditsScoped(a) == a \in Super \/ Kind[Of[a]] = "COMPANY"

CanRead(row, orgs) == row.org \in orgs
CanAccess(row, a, orgs) == row.by = a \/ CanRead(row, orgs)

\* Mutant: who manages a group edits its notices as a company does.
CanEditInScope(row, a) == a \in Super \/ CanRead(row, Manageable[a]) \/ row.by = a

CanEdit(row, a) ==
    \/ a \in Super
    \/ EditsScoped(a) /\ CanRead(row, Manageable[a])
    \/ row.by = a

\* ensureActiveNoticeTargetOrganizationExists
Target == {o \in Active : Kind[o] \in {"COMPANY", "GROUP"}}

\* What an account may name as the organization of a notice or a template: the
\* guard and the service both look at it.
MayTarget(a, o) == o \in GuardScope[a] \cap Manageable[a] \cap Target

\* findAll, with the organization that is asked for or NoOrg.
FindAll(a, filter) ==
    {n \in Notice :
        /\ Posted(n)
        /\ CanAccess(notice[n], a, Readable[a])
        /\ filter = NoOrg \/ notice[n].org \in Descendants[filter] \cap Readable[a]}

\* findOne refuses the others.
MayOpen(n, a) == Posted(n) /\ CanAccess(notice[n], a, Readable[a])

\* toResponseDto
IsEditableByMe(n, a) == CanEdit(notice[n], a)

\* findTemplates
FindTemplates(a) == {t \in Template : template[t] \in Manageable[a]}

\* dispatchNoticeCreatedPush: where the devices are that are told of a notice.
PushedTo(n) == Descendants[notice[n].org]

-----------------------------------------------------------------------------
(* Uploads. *)

Goes(r, next) == desk' = [desk EXCEPT ![r] = next]

\* The files of the requests that are at one of the points.
FilesAt(points) == UNION {desk[r].files : r \in {q \in Caller : desk[q].at \in points}}

Naming(files) ==
    /\ known' = known \cup files
    /\ shared' = shared \cup (files \cap (known \cup FilesAt({"sweep"})))

\* Every file that is uploaded has a name of its own.
Upload(f) ==
    /\ served < MaxCalls
    /\ f \notin stored
    /\ f \notin known \cup FilesAt({"create", "update", "sweep"})
    /\ stored' = stored \cup {f}
    /\ UNCHANGED <<notice, template, korean, desk, served, torn, known, shared>>

\* Mutant: the file is removed whoever names it.
UnreferencedAny(f) == TRUE

\* removeUnreferencedUploadFile: what it looks up before it removes a file.
Unreferenced(f) == \A n \in Notice : f \notin notice[n].files

CheckCleanup(r, f) ==
    /\ desk[r] = Free /\ served < MaxCalls
    /\ served' = served + 1
    /\ Unreferenced(f)
    /\ Goes(r, [at |-> "sweep", files |-> {f}])
    /\ shared' = shared \cup ({f} \cap FilesAt({"create", "update"}))
    /\ UNCHANGED <<notice, template, stored, korean, torn, known>>

Cleanup(r) ==
    /\ desk[r].at = "sweep"
    /\ stored' = stored \ desk[r].files
    /\ Goes(r, Free)
    /\ UNCHANGED <<notice, template, korean, served, torn, known, shared>>

-----------------------------------------------------------------------------
(* Notices. *)

\* resolveNoticeTemplateId
FitsTarget(t, o, a) ==
    t = NoOrg \/ (t \in Template /\ template[t] = o /\ o \in Manageable[a])

\* resolveNewAttachmentData looks for each new file on disk.
OnDisk(files) == files \subseteq stored

\* normalizeAttachments: what is kept is the notice's, what is new is not.
Attachments(n, keep, files) ==
    /\ keep \subseteq notice[n].files
    /\ files \cap notice[n].files = {} /\ OnDisk(files)

CheckCreate(r, n, a, o, t, files) ==
    /\ desk[r] = Free /\ served < MaxCalls
    /\ served' = served + 1
    /\ New(n)
    /\ MayTarget(a, o)
    /\ OnDisk(files)
    /\ FitsTarget(t, o, a)
    /\ Naming(files)
    /\ Goes(r, [at |-> "create", n |-> n, a |-> a, org |-> o, template |-> t,
                files |-> files])
    /\ UNCHANGED <<notice, template, stored, korean, torn>>

\* The caller of a write then removes `gone' and stores the Korean text.
Then(r, n, content, gone) ==
    Goes(r, [at |-> "after", n |-> n, content |-> content, gone |-> gone])

Create(r) ==
    /\ desk[r].at = "create"
    /\ New(desk[r].n)
    /\ LET q == desk[r]
       IN  /\ q.template # NoOrg => template[q.template] # NoOrg
           /\ notice' = [notice EXCEPT ![q.n] =
                [org |-> q.org, by |-> q.a, template |-> q.template,
                 content |-> 1, files |-> q.files]]
           /\ Then(r, q.n, 1, {})
    /\ UNCHANGED <<template, stored, korean, served, torn, known, shared>>

\* The row is read and checked; `keep' are the attachments that stay, `files' are
\* new.  A template that is not named is the one of the row, unchecked.
CheckUpdate(r, n, a, o, named, t, keep, files) ==
    /\ desk[r] = Free /\ served < MaxCalls
    /\ served' = served + 1
    /\ Posted(n)
    /\ CanAccess(notice[n], a, Manageable[a]) /\ CanEdit(notice[n], a)
    /\ o = notice[n].org \/ MayTarget(a, o)
    /\ o \in Target
    /\ Attachments(n, keep, files)
    /\ IF named THEN FitsTarget(t, o, a) ELSE t = notice[n].template
    /\ Naming(files)
    /\ Goes(r, [at |-> "update", n |-> n, a |-> a, org |-> o, template |-> t,
                files |-> files, gone |-> notice[n].files \ keep])
    /\ UNCHANGED <<notice, template, stored, korean, torn>>

\* The files that an update removes from disk.
DroppedByUpdate(q) == q.gone

\* The transaction of update; the database refuses a notice or a template that is
\* not there any more.
Update(r) ==
    /\ desk[r].at = "update"
    /\ Posted(desk[r].n)
    /\ LET q == desk[r]
           now == notice[q.n]
       IN  /\ now.content < MaxContent
           /\ q.template # NoOrg => template[q.template] # NoOrg
           /\ notice' = [notice EXCEPT ![q.n] =
                [org |-> q.org, by |-> now.by, template |-> q.template,
                 content |-> now.content + 1,
                 files |-> (now.files \ q.gone) \cup q.files]]
           /\ Then(r, q.n, now.content + 1, DroppedByUpdate(q))
    /\ UNCHANGED <<template, stored, korean, served, torn, known, shared>>

CheckRemove(r, n, a) ==
    /\ desk[r] = Free /\ served < MaxCalls
    /\ served' = served + 1
    /\ Posted(n)
    /\ CanAccess(notice[n], a, Manageable[a]) /\ CanEdit(notice[n], a)
    /\ Goes(r, [at |-> "remove", n |-> n, gone |-> notice[n].files])
    /\ UNCHANGED <<notice, template, stored, korean, torn, known, shared>>

Remove(r) ==
    /\ desk[r].at = "remove"
    /\ Posted(desk[r].n)
    /\ notice' = [notice EXCEPT ![desk[r].n] =
                    [NoNotice EXCEPT !.content = notice[desk[r].n].content]]
    /\ Goes(r, [at |-> "unbundle", n |-> desk[r].n, gone |-> desk[r].gone])
    /\ UNCHANGED <<template, stored, korean, served, torn, known, shared>>

\* deleteEntityTranslationBundle, then removePhysicalFiles.
RemoveBundle(r) ==
    /\ desk[r].at = "unbundle"
    /\ korean' = [korean EXCEPT ![desk[r].n] = 0]
    /\ stored' = stored \ desk[r].gone
    /\ Goes(r, Free)
    /\ UNCHANGED <<notice, template, served, torn, known, shared>>

\* removePhysicalFiles; storeEntityTranslations reads what is stored.
After(r) ==
    /\ desk[r].at = "after"
    /\ stored' = stored \ desk[r].gone
    /\ torn' = IF \E q \in Caller : desk[q].at = "store" /\ desk[q].n = desk[r].n
               THEN torn \cup {desk[r].n} ELSE torn
    /\ Goes(r, [at |-> "store", n |-> desk[r].n, content |-> desk[r].content,
                found |-> korean[desk[r].n]])
    /\ UNCHANGED <<notice, template, korean, served, known, shared>>

\* Mutant: a text is stored whatever was found.
NewerThanAny(q) == TRUE

\* storeEntityTranslations skips a text when a newer one was found.
NewerThanFound(q) == q.found <= q.content

StoreKorean(r) ==
    /\ desk[r].at = "store"
    /\ korean' = IF NewerThanFound(desk[r])
                 THEN [korean EXCEPT ![desk[r].n] = desk[r].content] ELSE korean
    /\ Goes(r, Free)
    /\ UNCHANGED <<notice, template, stored, served, torn, known, shared>>

\* The database refuses, or a check of what was read fails.
Refuse(r) ==
    /\ desk[r].at \in {"create", "update", "remove"}
    /\ Goes(r, Free)
    /\ UNCHANGED <<notice, template, stored, korean, served, torn, known, shared>>

-----------------------------------------------------------------------------
(* Templates: one write each. *)

CreateTemplate(t, a, o) ==
    /\ template[t] = NoOrg
    /\ MayTarget(a, o)
    /\ template' = [template EXCEPT ![t] = o]
    /\ UNCHANGED <<notice, stored, korean, desk, served, torn, known, shared>>

UpdateTemplate(t, a, o) ==
    /\ template[t] # NoOrg /\ template[t] \in Manageable[a]
    /\ MayTarget(a, o)
    /\ template' = [template EXCEPT ![t] = o]
    /\ UNCHANGED <<notice, stored, korean, desk, served, torn, known, shared>>

\* Mutant: the notices keep the template.
RemoveTemplateRowOnly(t, a) ==
    /\ template[t] # NoOrg /\ template[t] \in Manageable[a]
    /\ template' = [template EXCEPT ![t] = NoOrg]
    /\ UNCHANGED <<notice, stored, korean, desk, served, torn, known, shared>>

\* The notices that were made from it stay, without a template: the reference is
\* optional, and the database clears it.
RemoveTemplate(t, a) ==
    /\ template[t] # NoOrg /\ template[t] \in Manageable[a]
    /\ template' = [template EXCEPT ![t] = NoOrg]
    /\ notice' = [n \in Notice |-> IF notice[n].template = t
                                   THEN [notice[n] EXCEPT !.template = NoOrg]
                                   ELSE notice[n]]
    /\ UNCHANGED <<stored, korean, desk, served, torn, known, shared>>

Next ==
    \/ \E f \in File : Upload(f)
    \/ \E r \in {q \in Caller : desk[q] = Free} :
          \/ \E f \in File : CheckCleanup(r, f)
          \/ \E n \in Notice, a \in Account :
                \/ CheckRemove(r, n, a)
                \/ \E o \in Target, t \in Template \cup {NoOrg}, files \in SUBSET stored :
                      \/ CheckCreate(r, n, a, o, t, files)
                      \/ \E named \in BOOLEAN, keep \in SUBSET notice[n].files :
                            CheckUpdate(r, n, a, o, named, t, keep, files)
    \/ \E r \in Caller :
          \/ Cleanup(r)
          \/ Create(r) \/ Update(r) \/ Remove(r) \/ RemoveBundle(r)
          \/ After(r) \/ StoreKorean(r) \/ Refuse(r)
    \/ \E t \in Template, a \in Account :
          \/ \E o \in Org : CreateTemplate(t, a, o) \/ UpdateTemplate(t, a, o)
          \/ RemoveTemplate(t, a)

Spec == Init /\ [][Next]_noticeVars

-----------------------------------------------------------------------------
(* Properties. *)

TypeOK ==
    /\ \A n \in Notice :
          /\ notice[n].org \in Org \cup {NoOrg}
          /\ notice[n].files \subseteq File
          /\ notice[n].content \in 0..MaxContent
          \* the database's reference, which no request leaves dangling
          /\ notice[n].template # NoOrg => template[notice[n].template] # NoOrg
    /\ template \in [Template -> Org \cup {NoOrg}]
    /\ stored \subseteq File /\ shared \subseteq File
    /\ korean \in [Notice -> 0..MaxContent]

\* Each file that a notice names is on disk, whatever updates, removals and the
\* clean-up of uploads do at the same time, unless two requests named the file.
NamedFilesExist ==
    \A n \in Notice : notice[n].files \subseteq stored \cup shared

\* Once the requests on a notice have ended, the Korean text that is translated is
\* the one of its last save, in whatever order they stored it, unless one
\* looked for a newer text while another was storing its own.
LastSaveIsTranslated ==
    \A n \in Notice \ torn :
        \/ ~ Posted(n)
        \/ \E r \in Caller : desk[r].at \in {"after", "store"} /\ desk[r].n = n
        \/ korean[n] = notice[n].content

\* An organization and everything above it is active.
InForce(o) == \A above \in Org \ Active : o \notin Descendants[above]

\* An account opens what it is listed; it is listed what it may edit, unless the
\* organization of the notice or one above it is inactive; who manages the place
\* of a device that is told of a notice can read the notice; and who manages a
\* group edits only its own notices.
ReadersAgree ==
    \A n \in Notice, a \in Account :
        /\ n \in FindAll(a, NoOrg) <=> MayOpen(n, a)
        /\ Posted(n) /\ IsEditableByMe(n, a) /\ InForce(notice[n].org) => n \in FindAll(a, NoOrg)
        /\ Posted(n) /\ Of[a] \in PushedTo(n) => MayOpen(n, a)
        /\ IsEditableByMe(n, a) /\ ~ EditsScoped(a) => notice[n].by = a
=============================================================================
