---------------------------- MODULE SafetyDocuments -----------------------------
(***************************************************************************)
(* The safety documents: checklists, TBM records, notices, incident reports   *)
(* and issued documents.  The services share no rows, so that a behaviour is   *)
(* one of a single service, chosen by `part'.                               *)
(***************************************************************************)
EXTENDS OrganizationScope, Sequences

CONSTANTS
    Request,                \* requests in flight at the same time, of any service
    File, NoFile,
    Checklist, Employee, MaxDay, MaxDeployments, MaxSubmissions,
    ItemTemplate, Name, MaxVersion, MaxWrites,
    Tbm, Person, Company, Unit, At, Speaks, Korean, MaxFiles, MaxTbmCalls,
    Notice, NoticeTemplate, MaxNoticeCalls,
    MaxContent,             \* of a TBM record or a notice
    Report, Admin, NoAdmin, MaxHistory, MaxText,
    MaxDate, MaxIssues

VARIABLES
    part,
    keyed, deployments, open, submitted, request,
    sheet, template, writer, writes,
    companyOf, session, confirmed, disk, made, queued, calls, caller, overtaken,
    notice, layout, stored, korean, desk, served, torn, known, shared,
    report, history, summary, hand, outdated, crossed,
    today, removed, sequence, issues, issuer

deploymentVars == <<keyed, deployments, open, submitted, request>>
versionVars == <<sheet, template, writer, writes>>
sessionVars == <<companyOf, session, confirmed, disk, made, queued, calls, caller,
                overtaken>>
noticeVars == <<notice, layout, stored, korean, desk, served, torn, known, shared>>
reportVars == <<report, history, summary, hand, outdated, crossed>>
issueVars == <<today, removed, sequence, issues, issuer>>

Deployments == INSTANCE ChecklistDeployments

Versions == INSTANCE ChecklistVersions
    WITH Sheet <- Checklist, Template <- ItemTemplate, Writer <- Request

Tbms == INSTANCE Tbms WITH Caller <- Request, MaxCalls <- MaxTbmCalls

Notices == INSTANCE Notices
    WITH Template <- NoticeTemplate, template <- layout, Caller <- Request,
         MaxCalls <- MaxNoticeCalls

Reports == INSTANCE IncidentReports WITH Writer <- Request

Issues == INSTANCE DocumentIssues WITH Source <- Tbm, Issuer <- Request

ASSUME DocumentsAssumption ==
    /\ Deployments!ChecklistAssumption /\ Versions!VersionAssumption
    /\ Tbms!TbmAssumption /\ Notices!NoticeAssumption
    /\ Reports!ReportAssumption /\ Issues!IssueAssumption

Init ==
    /\ part \in {"deployments", "versions", "tbms", "notices", "reports", "issues"}
    /\ Deployments!Init /\ Versions!Init /\ Tbms!Init
    /\ Notices!Init /\ Reports!Init /\ Issues!Init
    /\ part # "deployments" => keyed

Next ==
    /\ UNCHANGED part
    /\ \/ /\ part = "deployments" /\ Deployments!Next
          /\ UNCHANGED <<versionVars, sessionVars, noticeVars, reportVars, issueVars>>
       \/ /\ part = "versions" /\ Versions!Next
          /\ UNCHANGED <<deploymentVars, sessionVars, noticeVars, reportVars, issueVars>>
       \/ /\ part = "tbms" /\ Tbms!Next
          /\ UNCHANGED <<deploymentVars, versionVars, noticeVars, reportVars, issueVars>>
       \/ /\ part = "notices" /\ Notices!Next
          /\ UNCHANGED <<deploymentVars, versionVars, sessionVars, reportVars, issueVars>>
       \/ /\ part = "reports" /\ Reports!Next
          /\ UNCHANGED <<deploymentVars, versionVars, sessionVars, noticeVars, issueVars>>
       \/ /\ part = "issues" /\ Issues!Next
          /\ UNCHANGED <<deploymentVars, versionVars, sessionVars, noticeVars, reportVars>>

vars == <<part, deploymentVars, versionVars, sessionVars, noticeVars, reportVars,
          issueVars>>

Spec == Init /\ [][Next]_vars

-----------------------------------------------------------------------------
(* Properties: each of the conjuncts is stated in its module. *)

\* The type of every row of the six services, with the part of it that is a
\* relation: what was confirmed was asked, a current version exists, ...
TypeOK ==
    /\ (part = "deployments" => Deployments!TypeOK) /\ (part = "versions" => Versions!TypeOK) /\ (part = "tbms" => Tbms!TypeOK)
    /\ (part = "notices" => Notices!TypeOK) /\ (part = "reports" => Reports!TypeOK) /\ (part = "issues" => Issues!TypeOK)

\* createDeploymentAndAssignments: a worker is asked once a day, unless two
\* deployments were made at the same time, and everybody a deployment is made for
\* is asked.
AskedOncePerDay == (part = "deployments" => Deployments!AskedOnce) /\ (part = "deployments" => Deployments!EveryDayCovered)

\* Lists, details, counts, filters and rights of the same rows agree, in the
\* checklists, the TBM records and the notices.
ReportsAgree ==
    (part = "deployments" => Deployments!ReportsAgree) /\ (part = "tbms" => Tbms!ListsAgree) /\ (part = "notices" => Notices!ReadersAgree)

\* A file that a TBM record or a notice names is on disk while requests replace,
\* remove and clean up files, and TBM records leave none behind.
NamedFilesExist ==
    (part = "tbms" => Tbms!NamedFilesExist) /\ (part = "tbms" => Tbms!NoFileLeft) /\ (part = "notices" => Notices!NamedFilesExist)

\* An old version of a checklist comes back only through overlapping updates.
CurrentOnlyGrows == Versions!CurrentOnlyGrows

\* The text that is translated is the text that was saved last: of TBM records in
\* the languages of their attendees, of notices and of resolutions of reports.
SourceIsTranslated ==
    /\ (part = "tbms" => Tbms!LanguagesQueued)
    /\ (part = "notices" => Notices!LastSaveIsTranslated)
    /\ (part = "reports" => Reports!ResolutionIsTranslated)

\* The status of a TBM record fits its times and that of an incident report its
\* assignee, its resolution and its history, unless requests overtook each other.
StatusFits == (part = "tbms" => Tbms!TimesFit) /\ (part = "reports" => Reports!StatusFits)

\* Names and numbers are given once: the names of item templates unless two
\* requests checked them together, the numbers of documents always.
NumbersAndNamesUnique ==
    (part = "versions" => Versions!NamesUnlessConcurrent) /\ (part = "issues" => Issues!NumbersUnbroken)
===============================================================================
