------------------------- MODULE ChecklistDeployments -------------------------
(***************************************************************************)
(* The deployments of the safety checklists: modules/safety-checklists/.  A  *)
(* deployment gives each of its targets an assignment for each of its days,  *)
(* which the worker answers in another program.  Answers are reviewed,       *)
(* listed and counted.  The rows of the checklists are in ChecklistVersions. *)
(*                                                                         *)
(* A submission is what the reports tell apart: whether an answer was "X"    *)
(* and how it was reviewed.  The order of `deployments' is that of           *)
(* `createdAt'.  The schema of the database is not in the repository:        *)
(* `keyed' says whether the unique key that makes createMany skip            *)
(* duplicates spans a checklist or only a deployment, and both are checked.  *)
(***************************************************************************)
EXTENDS Integers, FiniteSets, Sequences

CONSTANTS
    Checklist,
    Employee,
    Request,        \* requests in flight at the same time
    MaxDay,         \* bound: the days that have inspections
    MaxDeployments, \* bound: the deployments of all checklists
    MaxSubmissions  \* bound: the submissions of all workers

\* What is assumed of the constants.
ChecklistAssumption ==
    /\ IsFiniteSet(Employee)
    /\ MaxDay \in Nat \ {0}
    /\ MaxDeployments \in Nat \ {0}
    /\ MaxSubmissions \in Nat

Day == 1..MaxDay
Deployment == 1..MaxDeployments
Review == {"PENDING", "CONFIRMED", "ACTION_REQUIRED", "ACTION_COMPLETED"}

\* An assignment is known by what createMany gives it.
Assignment == [deployment : Deployment, employee : Employee, day : Day]
Submission == [x : {0, 1}, review : Review]

VARIABLES
    keyed,        \* one assignment per checklist, employee and day, or not
    deployments,  \* the deployments in the order of createdAt
    open,         \* the assignments that are not submitted
    submitted,    \* the assignments that are, with their submissions
    request       \* Request -> the deployment it is making, as it has read it

work == <<deployments, open, submitted>>
vars == <<keyed, work, request>>

Rows == open \cup DOMAIN submitted

Idle == [at |-> "idle"]

Init ==
    /\ keyed \in BOOLEAN
    /\ deployments = <<>>
    /\ open = {}
    /\ submitted = [a \in {} |-> {}]
    /\ request = [r \in Request |-> Idle]

RowsOf(c, rows) == {a \in rows : deployments[a.deployment].checklist = c}

-----------------------------------------------------------------------------
(* createDeploymentAndAssignments, the end of three transactions.  *)

\* A valid order: some days, some targets.
Order == {o \in [from : Day, to : Day, targets : SUBSET Employee \ {{}}] :
            o.from <= o.to}

\* Mutant: assignments of other days are left alone only after the last one.
OverlappingToFirstDay(c, o) ==
    {a \in RowsOf(c, open) : a.employee \in o.targets /\ a.day = o.from}

\* What removeOverlappingOpenAssignments reads, and deletes by id later.
Overlapping(c, o) ==
    {a \in RowsOf(c, open) : a.employee \in o.targets /\ a.day \in o.from .. o.to}

\* Mutant: the assignments of the last day are not created.
NewRowsButLast(c, o, kept) ==
    {a \in Assignment :
        /\ a.deployment = Len(deployments) + 1
        /\ a.employee \in o.targets
        /\ a.day \in o.from .. o.to - 1
        /\ ~ keyed \/ \A b \in RowsOf(c, kept) :
                        b.employee # a.employee \/ b.day # a.day}

\* createMany with skipDuplicates
NewRows(c, o, kept) ==
    {a \in Assignment :
        /\ a.deployment = Len(deployments) + 1
        /\ a.employee \in o.targets
        /\ a.day \in o.from .. o.to
        /\ ~ keyed \/ \A b \in RowsOf(c, kept) :
                        b.employee # a.employee \/ b.day # a.day}

\* The deletion is refused if a worker submitted one of the rows meanwhile.
MayDelete(rows) == rows \subseteq open

\* The deployments that lost their last assignment are ended.
Deploy(c, o, old, seen) ==
    LET left == open \ old
        ended == {d \in DOMAIN deployments :
                    /\ \E a \in old : a.deployment = d
                    /\ \A a \in left \cup DOMAIN submitted : a.deployment # d}
    IN  /\ deployments' = Append(
              [d \in DOMAIN deployments |->
                  IF d \in ended THEN [deployments[d] EXCEPT !.ended = TRUE]
                  ELSE deployments[d]],
              [checklist |-> c, order |-> o, ended |-> FALSE,
               seen |-> seen])
        /\ open' = left \cup NewRows(c, o, left \cup DOMAIN submitted)
        /\ UNCHANGED submitted

MoreDeployments == Len(deployments) < MaxDeployments

-----------------------------------------------------------------------------
(* The requests of the administrators. *)

\* A new checklist has no assignments to remove: r need not wait.
CreateAndDeploy(c, o) ==
    /\ \A d \in DOMAIN deployments : deployments[d].checklist # c
    /\ MoreDeployments
    /\ Deploy(c, o, {}, Len(deployments))
    /\ UNCHANGED <<keyed, request>>

\* The transaction of an update or of a deployment reads the overlapping rows.
DeployOpen(r, c, o) ==
    /\ request[r] = Idle
    /\ request' = [request EXCEPT ![r] =
          [at |-> "deploying", c |-> c, order |-> o, old |-> Overlapping(c, o),
           seen |-> Len(deployments)]]
    /\ UNCHANGED <<keyed, work>>

\* It deletes those that are still there and ends.
DeployCommit(r) ==
    /\ request[r].at = "deploying"
    /\ MoreDeployments
    /\ LET q == request[r]
       IN  MayDelete(q.old \cap Rows) /\ Deploy(q.c, q.order, q.old, q.seen)
    /\ request' = [request EXCEPT ![r] = Idle]
    /\ UNCHANGED keyed

\* findAssignableEmployees finds no target, or not each of them ACTIVE; or a
\* deletion is refused.
DeployFails(r) ==
    /\ request[r] # Idle
    /\ request' = [request EXCEPT ![r] = Idle]
    /\ UNCHANGED <<keyed, work>>

\* normalizeSubmittedReviewStatus
Normalized(x, review) ==
    IF x = 0 THEN "CONFIRMED"
    ELSE IF review = "ACTION_COMPLETED" THEN review
    ELSE "ACTION_REQUIRED"

\* Mutant: the status the reviewer sent is stored.
ReviewSubmissionAsSent(a, review) ==
    /\ a \in DOMAIN submitted
    /\ submitted' = [submitted EXCEPT ![a].review = review]
    /\ UNCHANGED <<keyed, deployments, open, request>>

ReviewSubmission(a, review) ==
    /\ a \in DOMAIN submitted
    /\ submitted' = [submitted EXCEPT ![a].review = Normalized(submitted[a].x, review)]
    /\ UNCHANGED <<keyed, deployments, open, request>>

-----------------------------------------------------------------------------
(* The app back end. *)

Submit(a, x) ==
    /\ a \in open
    /\ Cardinality(DOMAIN submitted) < MaxSubmissions
    /\ open' = open \ {a}
    /\ submitted' = [b \in DOMAIN submitted \cup {a} |->
                       IF b = a THEN [x |-> x, review |-> "PENDING"]
                       ELSE submitted[b]]
    /\ UNCHANGED <<keyed, deployments, request>>

Next ==
    \/ \E c \in Checklist, o \in Order :
          CreateAndDeploy(c, o) \/ \E r \in Request : DeployOpen(r, c, o)
    \/ \E r \in Request : DeployCommit(r) \/ DeployFails(r)
    \/ \E a \in DOMAIN submitted, review \in Review : ReviewSubmission(a, review)
    \/ \E a \in open, x \in {0, 1} : Submit(a, x)

Spec == Init /\ [][Next]_vars

-----------------------------------------------------------------------------
(* What the lists and the statistics show. *)

DeploymentsOf(c) == {d \in DOMAIN deployments : deployments[d].checklist = c}
Latest(c) == CHOOSE d \in DeploymentsOf(c) : \A n \in DeploymentsOf(c) : n <= d

\* The employees of the latest deployment, as far as it has assignments.
CurrentTargets(c) ==
    IF DeploymentsOf(c) = {} THEN {}
    ELSE {a.employee : a \in {b \in Rows : b.deployment = Latest(c)}}

\* The assignments a report on a checklist takes.
Reported(c, days) ==
    {a \in RowsOf(c, Rows) : a.day \in days /\ a.employee \in CurrentTargets(c)}

IsSubmitted(a) == a \in DOMAIN submitted
Count(rows) == Cardinality(rows)

\* The assignments of a day that findAll and findOne count.
TodayRows(c, day) == Reported(c, {day})

\* buildTodaySummary
TodaySummary(c, day) ==
    LET rows == TodayRows(c, day)
        done == {a \in rows : IsSubmitted(a)}
        x == {a \in done : submitted[a].x > 0}
        completed == {a \in x : submitted[a].review = "ACTION_COMPLETED"}
    IN  [target |-> Count(rows), submitted |-> Count(done),
         normal |-> Count(done \ x), needed |-> Count(x \ completed),
         completed |-> Count(completed)]

\* buildChecklistListItem
ListItem(c, day) ==
    [target |-> Count(TodayRows(c, day)),
     submitted |-> Count({a \in TodayRows(c, day) : IsSubmitted(a)}),
     deployments |-> Count(DeploymentsOf(c)),
     assignments |-> Count(RowsOf(c, Rows)),
     submissions |-> Count(RowsOf(c, DOMAIN submitted))]

\* findOne: the targets that the form of a redeployment starts from.
Detail(c, day) ==
    [targets |-> CurrentTargets(c), summary |-> TodaySummary(c, day),
     deployments |-> [d \in DeploymentsOf(c) |->
                        Count({a \in Rows : a.deployment = d})]]

\* getStatistics: the summary of any days, ...
Statistics(c, days) ==
    LET rows == Reported(c, days)
        x == {a \in rows : IsSubmitted(a) /\ submitted[a].x > 0}
    IN  [target |-> Count(rows),
         submitted |-> Count({a \in rows : IsSubmitted(a)}),
         required |-> Count({a \in x : submitted[a].review
                                         \in {"PENDING", "ACTION_REQUIRED"}}),
         completed |-> Count({a \in x : submitted[a].review = "ACTION_COMPLETED"})]

\* ... and the same of each of them.
Trend(c, days) == [day \in days |-> Statistics(c, {day})]

\* getPatterns: the answers X, ...
XItems(c, days) ==
    LET x == {a \in Reported(c, days) : IsSubmitted(a) /\ submitted[a].x > 0}
        done == {a \in x : submitted[a].review = "ACTION_COMPLETED"}
    IN  [required |-> Count(x) - Count(done), completed |-> Count(done),
         affected |-> {a.employee : a \in x}]

\* ... and who missed how many inspections.
NonSubmitters(c, days) ==
    LET missed(e) == {a \in Reported(c, days) : a.employee = e /\ ~ IsSubmitted(a)}
    IN  [e \in {a.employee : a \in Reported(c, days)} |-> Count(missed(e))]

\* getDateRange
DateRange(c) ==
    LET days == {a.day : a \in Reported(c, Day)}
    IN  {day \in Day : /\ \E d \in days : d <= day
                      /\ \E d \in days : d >= day}

\* sendAssignmentPushMessage
MayRemind(a, day) == a \in Rows /\ a.day = day /\ ~ IsSubmitted(a)

\* buildActionStatusSubmissionWhere
WithAction(rows, action) ==
    CASE action = "NOT_SUBMITTED" -> {a \in rows : ~ IsSubmitted(a)}
      [] action = "NORMAL" -> {a \in rows : IsSubmitted(a) /\ submitted[a].x = 0}
      [] action = "ACTION_REQUIRED" ->
            {a \in rows : /\ IsSubmitted(a) /\ submitted[a].x > 0
                          /\ submitted[a].review # "ACTION_COMPLETED"}
      [] action = "ACTION_COMPLETED" ->
            {a \in rows : /\ IsSubmitted(a) /\ submitted[a].x > 0
                          /\ submitted[a].review = "ACTION_COMPLETED"}

\* buildReviewStatusWhere
WithReview(rows, review) ==
    {a \in rows :
        /\ IsSubmitted(a)
        /\ \/ submitted[a].review = review
           \/ /\ review = "ACTION_REQUIRED" /\ submitted[a].review = "PENDING"
              /\ submitted[a].x > 0
           \/ /\ review = "CONFIRMED" /\ submitted[a].review = "PENDING"
              /\ submitted[a].x = 0}

\* What a list shows of a submission: buildSubmissionListItem and the like.
Shown(a) == Normalized(submitted[a].x, submitted[a].review)

-----------------------------------------------------------------------------
(* Properties. *)

TypeOK ==
    /\ keyed \in BOOLEAN
    /\ Len(deployments) <= MaxDeployments
    /\ open \subseteq Assignment
    /\ DOMAIN submitted \subseteq Assignment \ open
    /\ \A a \in Rows : a.deployment \in DOMAIN deployments
    /\ \A a \in DOMAIN submitted : submitted[a] \in Submission

\* A worker is asked once a day: of two open assignments of an employee for the
\* same checklist and day, the later deployment was made without seeing the
\* earlier one; whatever was reordered, submitted or skipped in between.
AskedOnce ==
    \A a, b \in open :
        (/\ a.employee = b.employee /\ a.day = b.day
         /\ a.deployment < b.deployment
         /\ deployments[a.deployment].checklist = deployments[b.deployment].checklist)
            => deployments[b.deployment].seen < a.deployment

\* The latest deployment reaches everybody it was made for: each of its targets
\* has an assignment, new or already submitted, on each of its days.
EveryDayCovered ==
    \A c \in Checklist : DeploymentsOf(c) # {} =>
        LET o == deployments[Latest(c)].order
        IN  \A e \in o.targets, day \in o.from .. o.to :
                \E a \in RowsOf(c, Rows) : a.employee = e /\ a.day = day

\* The sum of the counts f[day].k of the days in S.
Total(f, k) ==
    LET g[S \in SUBSET DOMAIN f] ==
          IF S = {} THEN 0
          ELSE LET d == CHOOSE d \in S : TRUE IN f[d][k] + g[S \ {d}]
    IN  g[DOMAIN f]

\* The list, the detail, the summary of a day, the statistics, their trend, the
\* patterns and the filtered lists count the same submissions, each of them once;
\* whoever may be reminded is listed as not submitted; and a list that is
\* filtered by the review it shows of a submission contains it.
ReportsAgree ==
    \A c \in Checklist :
        /\ \A day \in Day :
              LET t == Detail(c, day).summary
                  s == Statistics(c, {day})
                  Listed(action) == WithAction(Reported(c, {day}), action)
              IN  /\ t.needed = s.required
                  /\ t.needed = Count(Listed("ACTION_REQUIRED"))
                  /\ t.completed = s.completed
                  /\ t.completed = Count(Listed("ACTION_COMPLETED"))
                  /\ t.normal = Count(Listed("NORMAL"))
                  /\ t.submitted = t.normal + t.needed + t.completed
                  /\ t.target = s.submitted + Count(Listed("NOT_SUBMITTED"))
                  /\ ListItem(c, day).target = t.target
                  /\ ListItem(c, day).submitted = t.submitted
                  /\ \A a \in Reported(c, Day) :
                        MayRemind(a, day) <=> a \in Listed("NOT_SUBMITTED")
        /\ LET s == Statistics(c, Day)
               x == XItems(c, Day)
               missed == NonSubmitters(c, Day)
           IN  /\ x.required = s.required /\ x.completed = s.completed
               /\ Total(Trend(c, Day), "submitted") = s.submitted
               /\ Total(Trend(c, DateRange(c)), "target") = s.target
               /\ Total([e \in DOMAIN missed |-> [n |-> missed[e]]], "n")
                    = s.target - s.submitted
               /\ x.affected \subseteq CurrentTargets(c)
               /\ Total([d \in DeploymentsOf(c) |->
                           [n |-> Detail(c, 1).deployments[d]]], "n")
                    = ListItem(c, 1).assignments
        /\ \A a \in RowsOf(c, DOMAIN submitted) :
              a \in WithReview(RowsOf(c, Rows), Shown(a))
===============================================================================
