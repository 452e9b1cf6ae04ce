---------------------------- MODULE IncidentReports ----------------------------
(***************************************************************************)
(* The reports of incidents that workers send: modules/incident-reports/.     *)
(* Administrators assign, progress and resolve them; each of these requests   *)
(* reads the report and later writes it together with an entry of its         *)
(* history.  The Korean text of a resolution is stored for translation after  *)
(* the write, and cleared when the report is opened again.                   *)
(***************************************************************************)
EXTENDS Integers, Sequences

CONSTANTS
    Report, Admin, NoAdmin, Writer,
    MaxHistory,   \* bound: the entries of a history
    MaxText       \* bound: the resolutions of a report

\* What is assumed of the constants.
ReportAssumption ==
    /\ NoAdmin \notin Admin
    /\ MaxHistory \in Nat /\ MaxText \in Nat

ReportStatus == {"RECEIVED", "ASSIGNED", "IN_PROGRESS", "RESOLVED"}
Severity == {"HIGH", "EMERGENCY"}

VARIABLES
    report,    \* Report -> the row
    history,   \* Report -> its entries that change the status, oldest first
    summary,   \* Report -> the text stored for translation, 0 when none is
    hand,      \* Writer -> what it does next and has read
    outdated,  \* ghost: the reports written by a request that had read another row
    crossed    \* ghost: those whose texts were stored or cleared by two at a time

reportVars == <<report, history, summary, hand, outdated, crossed>>

NoHand == [at |-> "none"]

Init ==
    /\ report = [i \in Report |->
          [status |-> "RECEIVED", assignee |-> NoAdmin, severity |-> "HIGH",
           emergency |-> FALSE, text |-> 0, texts |-> 0, resolvedAt |-> FALSE]]
    /\ history = [i \in Report |-> <<>>]
    /\ summary = [i \in Report |-> 0]
    /\ hand = [w \in Writer |-> NoHand]
    /\ outdated = {} /\ crossed = {}

\* getReportInScope, as each request begins.
Read(w, i, at) ==
    /\ hand[w] = NoHand
    /\ hand' = [hand EXCEPT ![w] = [at |-> at, i |-> i, row |-> report[i]]]
    /\ UNCHANGED <<report, history, summary, outdated, crossed>>

\* The request writes the row and, when the status is one it sets, the entry.
Save(w, new, changes) ==
    LET i == hand[w].i
    IN  /\ Len(history[i]) < MaxHistory
        /\ report' = [report EXCEPT ![i] = new]
        /\ history' = IF changes
             THEN [history EXCEPT ![i] = Append(@, [from |-> hand[w].row.status,
                                                    to |-> new.status])]
             ELSE history
        /\ outdated' = IF report[i] = hand[w].row THEN outdated
                       ELSE outdated \cup {i}

Texts(w, next) ==
    /\ hand' = [hand EXCEPT ![w] = next]
    /\ UNCHANGED <<summary, crossed>>

\* Mutant: only a report that was resolved loses the time.
ResolutionStateKeepingTime(now, previous, next) ==
    IF next = "RESOLVED" THEN [now EXCEPT !.resolvedAt = TRUE]
    ELSE IF previous = "RESOLVED"
         THEN [now EXCEPT !.resolvedAt = FALSE, !.text = 0] ELSE now

\* buildResolutionStateForStatusChange, with the status that was read.
ResolutionState(now, previous, next) ==
    IF next = "RESOLVED" THEN [now EXCEPT !.resolvedAt = TRUE]
    ELSE [now EXCEPT !.resolvedAt = FALSE,
                     !.text = IF previous = "RESOLVED" THEN 0 ELSE now.text]

\* What a request does after it has written: a report that was resolved is open
\* again, its text is cleared.
AfterReopen(w, next) ==
    IF hand[w].row.status = "RESOLVED" /\ next # "RESOLVED"
    THEN [at |-> "clear", i |-> hand[w].i] ELSE NoHand

UpdateStatus(w, next) ==
    /\ hand[w].at = "status"
    /\ LET row == hand[w].row
           now == report[hand[w].i]
           reset == next = "RECEIVED"
       IN  /\ next # "ASSIGNED"
           /\ next = "IN_PROGRESS" => row.assignee # NoAdmin
           /\ row.status # next \/ (reset /\ row.assignee # NoAdmin)
           /\ Save(w, [ResolutionState(now, row.status, next) EXCEPT
                          !.status = next,
                          !.assignee = IF reset THEN NoAdmin ELSE now.assignee], TRUE)
           /\ Texts(w, AfterReopen(w, next))

UpdateAssignee(w, admin) ==
    /\ hand[w].at = "assignee"
    /\ LET row == hand[w].row
           next == IF admin # NoAdmin THEN "ASSIGNED" ELSE "RECEIVED"
       IN  /\ row.assignee # admin \/ row.status = "RESOLVED"
           /\ Save(w, [ResolutionState(report[hand[w].i], row.status, next) EXCEPT
                          !.status = next, !.assignee = admin], TRUE)
           /\ Texts(w, AfterReopen(w, next))

UpdateSeverity(w, severity) ==
    /\ hand[w].at = "severity"
    /\ hand[w].row.severity # severity
    /\ Save(w, [report[hand[w].i] EXCEPT !.severity = severity,
                          !.emergency = severity = "EMERGENCY"], FALSE)
    /\ Texts(w, NoHand)

Resolve(w) ==
    /\ hand[w].at = "resolve"
    /\ LET i == hand[w].i
           text == report[i].texts + 1
       IN  /\ text <= MaxText
           /\ Save(w, [report[i] EXCEPT !.status = "RESOLVED", !.text = text,
                          !.texts = text, !.resolvedAt = TRUE], TRUE)
           /\ Texts(w, [at |-> "sync", i |-> i, text |-> text])

\* Nothing changes, or the request is refused.
Leave(w) ==
    /\ hand[w].at \in {"status", "assignee", "severity", "resolve"}
    /\ hand' = [hand EXCEPT ![w] = NoHand]
    /\ UNCHANGED <<report, history, summary, outdated, crossed>>

\* Another request has its text still to store or to clear.
Crossing(w) ==
    crossed' = IF \E v \in Writer \ {w} : /\ hand[v].at \in {"sync", "clear"}
                                          /\ hand[v].i = hand[w].i
               THEN crossed \cup {hand[w].i} ELSE crossed

\* syncIncidentReportResolutionTranslation
SyncResolution(w) ==
    /\ hand[w].at = "sync"
    /\ summary' = [summary EXCEPT ![hand[w].i] =
                      IF @ > hand[w].text THEN @ ELSE hand[w].text]
    /\ Crossing(w)
    /\ hand' = [hand EXCEPT ![w] = NoHand]
    /\ UNCHANGED <<report, history, outdated>>

\* Mutant: what is stored stays.
ClearedNever(i) == summary[i]

\* clearIncidentReportResolutionTranslations
Cleared(i) == 0

ClearResolution(w) ==
    /\ hand[w].at = "clear"
    /\ summary' = [summary EXCEPT ![hand[w].i] = Cleared(hand[w].i)]
    /\ Crossing(w)
    /\ hand' = [hand EXCEPT ![w] = NoHand]
    /\ UNCHANGED <<report, history, outdated>>

Next ==
    \E w \in Writer :
        \/ \E i \in Report, at \in {"status", "assignee", "severity", "resolve"} :
              Read(w, i, at)
        \/ \E next \in ReportStatus : UpdateStatus(w, next)
        \/ \E admin \in Admin \cup {NoAdmin} : UpdateAssignee(w, admin)
        \/ \E severity \in Severity : UpdateSeverity(w, severity)
        \/ Resolve(w) \/ Leave(w) \/ SyncResolution(w) \/ ClearResolution(w)

Spec == Init /\ [][Next]_reportVars

-----------------------------------------------------------------------------
(* Properties. *)

TypeOK ==
    /\ \A i \in Report :
          /\ report[i].status \in ReportStatus
          /\ report[i].assignee \in Admin \cup {NoAdmin}
          /\ report[i].text \in 0..report[i].texts
    /\ summary \in [Report -> 0..MaxText]

\* Whatever requests cross, the fields fit the status: the time of the resolution,
\* the emergency, nobody on a report that is received, somebody on one that is
\* assigned, and its history ends in its status.  When none was overtaken, one
\* in progress has somebody too and its history has no gap.
StatusFits ==
    \A i \in Report :
        LET row == report[i]
            last == Len(history[i])
        IN  /\ row.resolvedAt <=> row.status = "RESOLVED"
            /\ row.emergency <=> row.severity = "EMERGENCY"
            /\ row.status = "RECEIVED" => row.assignee = NoAdmin
            /\ row.status = "ASSIGNED" => row.assignee # NoAdmin
            /\ row.status = IF last = 0 THEN "RECEIVED" ELSE history[i][last].to
            /\ i \notin outdated =>
                  /\ row.status = "IN_PROGRESS" => row.assignee # NoAdmin
                  /\ row.text # 0 => row.status = "RESOLVED"
                  /\ \A k \in 1..last : history[i][k].from =
                        IF k = 1 THEN "RECEIVED" ELSE history[i][k-1].to

\* The text that is translated is the resolution that a report has, and none is
\* once it has been opened again, when no request was overtaken.
ResolutionIsTranslated ==
    \A i \in Report \ (outdated \cup crossed) :
        \/ \E w \in Writer : hand[w].at \in {"sync", "clear"} /\ hand[w].i = i
        \/ summary[i] = report[i].text
=============================================================================
