------------------------------ MODULE DailyStats -------------------------------
(***************************************************************************)
(* The daily statistics (src/modules/dashboard): rows per organization, hour    *)
(* and employee that the app backend counts along with the raw control logs,     *)
(* and their reaggregation from the logs, every night and on request.           *)
(***************************************************************************)
EXTENDS Integers, FiniteSets, FiniteSetsExt

CONSTANTS
    Employee,
    Org,            \* active organizations
    NoOrg,          \* of a log without one: its device's organization counts
    Hour,
    Act,            \* subset of {"app", "behavior", "allowed"}
    MaxDay,         \* bound: days
    MaxEvents       \* bound: logs, transfers and removals of employees,
                    \* reaggregations on request, failures and restarts, together

StatsAssumption ==
    /\ NoOrg \notin Org /\ Act \subseteq {"app", "behavior", "allowed"}
    /\ {MaxDay, MaxEvents} \subseteq Nat /\ MaxDay > 0
    /\ IsFiniteSet(Org) /\ IsFiniteSet(Hour)

Day == 0..MaxDay
Job == {"night", "request"}
Cell == [employee : Employee, org : Org \cup {NoOrg}, day : Day, hour : Hour, act : Act]

VARIABLES
    today, window,  \* the night of today: "before" 03:00, "open", "after" 03:05
    up, lastRun,    \* the scheduler's process, and its memory
    logs,           \* the raw logs, each a cell with a number
    at, gone,       \* where employees are, and who was removed
    orgRow, hourRow, employeeRow,
    job,            \* [Job -> the reaggregation under way]
    events,         \* how many there were of the bounded ones
    \* what the properties remember
    dirty,          \* days that changed since their last nightly reaggregation began
    covered,        \* [Day -> the days its night has reaggregated]
    excused         \* nights with a restart, a failure or the one before still at work

clockVars == <<today, window>>
processVars == <<up, lastRun>>
factVars == <<logs, at, gone>>
rowVars == <<orgRow, hourRow, employeeRow>>
ghostVars == <<dirty, covered, excused>>
vars == <<clockVars, processVars, factVars, rowVars, job, events, ghostVars>>

None == -1
Idle == [pc |-> "idle", night |-> 0, days |-> {}, day |-> 0, orgs |-> {},
         left |-> {}, org |-> NoOrg, count |-> [h \in Hour |-> 0], blocks |-> 0,
         rows |-> {}]

-----------------------------------------------------------------------------
(* The logs as the queries count them. *)

Blocked(l) == l.cell.act # "allowed"

\* buildControlLogOrganizationIdsCondition
InOrganizations(l, S) ==
    IF l.cell.org = NoOrg THEN at[l.cell.employee] \in S ELSE l.cell.org \in S

\* The logs of employees who were not removed.
LogsOf(S, d) ==
    {l \in logs : l.cell.day = d /\ ~gone[l.cell.employee] /\ InOrganizations(l, S)}

BlocksOf(S, d) == {l \in LogsOf(S, d) : Blocked(l)}
AtHour(L, h) == Cardinality({l \in L : l.cell.hour = h})
OfEmployee(L, e) == {l \in L : l.cell.employee = e}

-----------------------------------------------------------------------------
Init ==
    /\ today = 1 /\ window = "before" /\ up = TRUE /\ lastRun = 0
    /\ logs = {}
    /\ at \in [Employee -> Org] /\ gone = [e \in Employee |-> FALSE]
    /\ orgRow = [o \in Org |-> [d \in Day |-> None]]
    /\ hourRow = [o \in Org |-> [d \in Day |-> [h \in Hour |-> None]]]
    /\ employeeRow = [e \in Employee |-> [d \in Day |-> [org |-> NoOrg, blocks |-> None]]]
    /\ job = [j \in Job |-> Idle]
    /\ events = 0
    /\ dirty = Day /\ covered = [d \in Day |-> {}] /\ excused = {}

Counted(n, k) == IF n = None THEN k ELSE n + k

\* The app backend stores a log, of today or late, and counts it in the tables; what
\* fails there is not counted.
Ingest(c, tables) ==
    LET o == IF c.org = NoOrg THEN at[c.employee] ELSE c.org
        k == IF c.act = "allowed" THEN 0 ELSE 1
    IN  /\ events < MaxEvents
        /\ c.day \in 1..today /\ ~gone[c.employee]
        /\ events' = events + 1
        /\ logs' = logs \cup {[id |-> Cardinality({l \in logs : l.cell = c}), cell |-> c]}
        /\ orgRow' = IF "org" \in tables
                     THEN [orgRow EXCEPT ![o][c.day] = Counted(@, k)] ELSE orgRow
        /\ hourRow' = IF "hour" \in tables
                      THEN [hourRow EXCEPT ![o][c.day][c.hour] = Counted(@, k)] ELSE hourRow
        /\ employeeRow' =
             IF "employee" \in tables
             THEN [employeeRow EXCEPT ![c.employee][c.day] =
                    [org |-> at[c.employee], blocks |-> Counted(@.blocks, k)]]
             ELSE employeeRow
        /\ dirty' = dirty \cup {c.day}
        /\ UNCHANGED <<clockVars, processVars, at, gone, job, covered, excused>>

\* An employee, and the device, moves to another organization.
Move(e, o) ==
    /\ events < MaxEvents /\ at[e] # o /\ ~gone[e]
    /\ events' = events + 1
    /\ at' = [at EXCEPT ![e] = o]
    /\ dirty' = Day
    /\ UNCHANGED <<clockVars, processVars, logs, gone, rowVars, job,
                   covered, excused>>

\* An employee is removed: deletedAt.
Remove(e) ==
    /\ events < MaxEvents /\ ~gone[e]
    /\ events' = events + 1
    /\ gone' = [gone EXCEPT ![e] = TRUE]
    /\ dirty' = Day
    /\ UNCHANGED <<clockVars, processVars, logs, at, rowVars, job,
                   covered, excused>>

-----------------------------------------------------------------------------
(* reaggregateDay: one organization after the other, then the employees. *)

\* parseKstDateInput, the target organizations, findCurrentValues
Started(night, d, days, S) ==
    [Idle EXCEPT !.pc = "orgs", !.night = night, !.day = d, !.days = days,
                 !.orgs = S, !.left = S]

\* The reads of an organization: its logs, the employees and devices to count.
ReadOrganization(j, o) ==
    LET r == job[j]
    IN  /\ r.pc = "orgs" /\ o \in r.left
        /\ job' = [job EXCEPT ![j] =
             [r EXCEPT !.pc = "org", !.org = o, !.left = @ \ {o},
                       !.blocks = Cardinality(BlocksOf({o}, r.day)),
                       !.count = [h \in Hour |-> AtHour(BlocksOf({o}, r.day), h)]]]
        /\ UNCHANGED <<clockVars, processVars, factVars, rowVars, events,
                       ghostVars>>

\* The transaction: the day's row, and the hours deleted and made again.
WriteOrganization(j) ==
    LET r == job[j]
    IN  /\ r.pc = "org"
        /\ orgRow' = [orgRow EXCEPT ![r.org][r.day] = r.blocks]
        /\ hourRow' = [hourRow EXCEPT ![r.org][r.day] = r.count]
        /\ job' = [job EXCEPT ![j] = [r EXCEPT !.pc = "orgs", !.org = NoOrg, !.blocks = 0,
                                              !.count = Idle.count]]
        /\ dirty' = IF j = "request" THEN dirty \cup {r.day} ELSE dirty
        /\ UNCHANGED <<clockVars, processVars, factVars, employeeRow, events,
                       covered, excused>>

\* Mutant: rows without a log are left as they are.
CountedRowsOnly(S, d) ==
    {[employee |-> e, org |-> at[e],
      blocks |-> Cardinality(OfEmployee(BlocksOf(S, d), e))] :
     e \in {e \in Employee : OfEmployee(LogsOf(S, d), e) # {}}}

\* reaggregateEmployeeDailyStats, its reads: the logs of the target organizations,
\* and the rows of the day there, of which those without a log become 0.
EmployeeRows(S, d) ==
    LET counted == {e \in Employee : OfEmployee(LogsOf(S, d), e) # {}}
        existing == {e \in Employee : /\ employeeRow[e][d].blocks # None
                                      /\ employeeRow[e][d].org \in S}
    IN  {[employee |-> e, org |-> at[e],
          blocks |-> Cardinality(OfEmployee(BlocksOf(S, d), e))] :
         e \in counted \cup existing}

ReadEmployees(j) ==
    LET r == job[j]
    IN  /\ r.pc = "orgs" /\ r.left = {}
        /\ job' = [job EXCEPT ![j] =
             [r EXCEPT !.pc = "employees", !.rows = EmployeeRows(r.orgs, r.day)]]
        /\ UNCHANGED <<clockVars, processVars, factVars, rowVars, events,
                       ghostVars>>

\* Its upserts, one employee after the other.
WriteEmployee(j) ==
    LET r == job[j]
    IN  /\ r.pc = "employees"
        /\ \E w \in r.rows :
             /\ employeeRow' = [employeeRow EXCEPT ![w.employee][r.day] =
                                  [org |-> w.org, blocks |-> w.blocks]]
             /\ job' = [job EXCEPT ![j].rows = @ \ {w}]
        /\ dirty' = IF j = "request" THEN dirty \cup {r.day} ELSE dirty
        /\ UNCHANGED <<clockVars, processVars, factVars, orgRow, hourRow, events, covered, excused>>

\* The days of a night: RECENT_DAYS = 2
RecentDays(n) == {n, n - 1}

\* A day is through: the nightly run goes on to the next one.
EndDay(j) ==
    LET r == job[j]
        rest == r.days \ {r.day}
    IN  /\ r.pc = "employees" /\ r.rows = {}
        /\ IF j = "night"
           THEN /\ job' = [job EXCEPT ![j] =
                     IF rest = {} THEN Idle ELSE Started(r.night, Max(rest), rest, Org)]
                /\ covered' = [covered EXCEPT ![r.night] = @ \cup {r.day}]
                /\ dirty' = dirty \ (IF rest = {} THEN {} ELSE {Max(rest)})
           ELSE /\ job' = [job EXCEPT ![j] = Idle]
                /\ UNCHANGED <<covered, dirty>>
        /\ UNCHANGED <<clockVars, processVars, factVars, rowVars, events, excused>>

\* POST reaggregate-day, for the organizations of the caller.
ReaggregateDay(d, S) ==
    /\ up /\ events < MaxEvents /\ job["request"].pc = "idle"
    /\ events' = events + 1
    /\ job' = [job EXCEPT !["request"] = Started(0, d, {d}, S)]
    /\ UNCHANGED <<clockVars, processVars, factVars, rowVars, ghostVars>>

-----------------------------------------------------------------------------
(* DashboardReaggregateScheduler *)

InRunWindow == window = "open" /\ lastRun # today

\* runTick, reaggregateRecentDays
RunTick ==
    /\ up /\ InRunWindow /\ job["night"].pc = "idle"
    /\ lastRun' = today
    /\ job' = [job EXCEPT !["night"] =
         Started(today, Max(RecentDays(today)), RecentDays(today), Org)]
    /\ dirty' = dirty \ {today}
    /\ UNCHANGED <<clockVars, up, factVars, rowVars, events, covered, excused>>

\* The night's clock.  A tick every minute finds a window of five, unless the process
\* was not up, or the night before was still at work.
Clock ==
    \/ /\ window = "before" /\ window' = "open"
       /\ excused' = IF up THEN excused ELSE excused \cup {today}
       /\ UNCHANGED today
    \/ /\ window = "open" /\ window' = "after"
       /\ (up /\ InRunWindow) => today \in excused \/ job["night"].pc # "idle"
       /\ excused' = IF up /\ InRunWindow THEN excused \cup {today} ELSE excused
       /\ UNCHANGED today
    \/ /\ window = "after" /\ window' = "before"
       /\ today < MaxDay /\ today' = today + 1
       /\ UNCHANGED excused

Tick ==
    /\ Clock
    /\ UNCHANGED <<processVars, factVars, rowVars, job, events, dirty, covered>>

\* What the nightly run has not done: of an error, reaggregateRecentDays goes on with
\* the next day.
FailDay ==
    LET r == job["night"]
        rest == r.days \ {r.day}
    IN  /\ events < MaxEvents /\ r.pc \in {"orgs", "org", "employees"}
        /\ events' = events + 1
        /\ job' = [job EXCEPT !["night"] =
             IF rest = {} THEN Idle ELSE Started(r.night, Max(rest), rest, Org)]
        /\ dirty' = (dirty \cup {r.day}) \ (IF rest = {} THEN {} ELSE {Max(rest)})
        /\ excused' = excused \cup {r.night}
        /\ UNCHANGED <<clockVars, processVars, factVars, rowVars, covered>>

\* The process stops: the jobs and the scheduler's memory are gone.
Stop ==
    /\ up /\ events < MaxEvents
    /\ events' = events + 1 /\ up' = FALSE /\ lastRun' = 0
    /\ job' = [j \in Job |-> Idle]
    /\ dirty' = dirty \cup job["night"].days
    /\ excused' = excused
         \cup (IF window = "open" THEN {today} ELSE {})
         \cup (IF job["night"].pc = "idle" THEN {} ELSE {job["night"].night})
    /\ UNCHANGED <<clockVars, factVars, rowVars, covered>>

Start ==
    /\ ~up /\ up' = TRUE
    /\ UNCHANGED <<clockVars, lastRun, factVars, rowVars, job, events, ghostVars>>

Next ==
    \/ \E c \in Cell : \E tables \in {{}, {"org", "hour", "employee"}} : Ingest(c, tables)
    \/ \E e \in Employee : Remove(e) \/ \E o \in Org : Move(e, o)
    \/ \E d \in {today, today - 1} \ {0}, S \in SUBSET Org \ {{}} : ReaggregateDay(d, S)
    \/ \E j \in Job :
         \/ \E o \in Org : ReadOrganization(j, o)
         \/ WriteOrganization(j) \/ ReadEmployees(j) \/ WriteEmployee(j) \/ EndDay(j)
    \/ RunTick \/ Tick \/ FailDay \/ Stop \/ Start

Spec == Init /\ [][Next]_vars

-----------------------------------------------------------------------------
(* What the screens read. *)

SumOver(f, S) == MapThenSumSet(LAMBDA x : f[x], S)
Value(n) == IF n = None THEN 0 ELSE n

\* getStats: today's card counts the logs themselves.
TodayViolations(S) == Cardinality(BlocksOf(S, today))

\* Mutant: the hour rows wherever there are some.
HourlyRows(S, d) ==
    LET rows == [h \in Hour |-> SumOver([o \in S |-> Value(hourRow[o][d][h])], S)]
        found == \E o \in S, h \in Hour : hourRow[o][d][h] # None
    IN  IF found THEN rows ELSE [h \in Hour |-> AtHour(BlocksOf(S, d), h)]

\* getHourlyData: the hour rows, unless they do not add up to the logs.
HourlyData(S, d) ==
    LET rows == [h \in Hour |-> SumOver([o \in S |-> Value(hourRow[o][d][h])], S)]
        found == \E o \in S, h \in Hour : hourRow[o][d][h] # None
    IN  IF found /\ SumOver(rows, Hour) = Cardinality(BlocksOf(S, d))
        THEN rows ELSE [h \in Hour |-> AtHour(BlocksOf(S, d), h)]

\* getOrganizationDailyStats: a series of days, over a subtree.
OrganizationSeries(S) ==
    [d \in Day |-> SumOver([o \in S |-> Value(orgRow[o][d])], S)]

\* getSiteReports: a log belongs to the first of its organization, its device's and
\* its employee's that the viewer sees.
EffectiveOrganization(l, R) ==
    IF l.cell.org \in R THEN l.cell.org
    ELSE IF at[l.cell.employee] \in R THEN at[l.cell.employee] ELSE NoOrg

\* getSiteReports: the violations of a site, for a viewer of R, over one day.
SiteViolations(o, R) ==
    Cardinality({l \in logs : /\ l.cell.day = today /\ Blocked(l)
                              /\ EffectiveOrganization(l, R) = o})

\* getEmployeeDailyStats: the day rows of an employee of the list.
EmployeeBlocks(e, d) == Value(employeeRow[e][d].blocks)

-----------------------------------------------------------------------------
\* Days, rows and jobs; an organization's day and its hours appear together.
TypeOK ==
    /\ today \in 1..MaxDay /\ window \in {"before", "open", "after"}
    /\ lastRun \in 0..today /\ up \in BOOLEAN
    /\ \A l \in logs : l.cell \in Cell
    /\ at \in [Employee -> Org]
    /\ \A o \in Org, d \in Day :
         orgRow[o][d] = None => \A h \in Hour : hourRow[o][d][h] = None
    /\ \A j \in Job : job[j].left \subseteq job[j].orgs

\* The rows of a day are what its logs say, organization by organization and employee
\* by employee.
Agrees(d) ==
    /\ \A o \in Org :
         /\ OrganizationSeries({o})[d] = Cardinality(BlocksOf({o}, d))
         /\ SumOver(HourlyData({o}, d), Hour) = OrganizationSeries({o})[d]
         /\ \A h \in Hour : Value(hourRow[o][d][h]) = AtHour(BlocksOf({o}, d), h)
    /\ \A e \in Employee :
         EmployeeBlocks(e, d) = Cardinality(OfEmployee(BlocksOf(Org, d), e))

\* dashboard-reaggregate.scheduler.ts, reaggregateDay: whatever was counted wrong or
\* not at all, a day agrees with its logs once its night has run, until something
\* changes it; and a night that is over has reaggregated its day and the one before,
\* unless the process stopped, the job failed or the last night's was still at work.
NightSettles ==
    /\ \A d \in Day \ dirty : d \in job["night"].days \/ Agrees(d)
    /\ \A n \in 1..today - 1 :
         \/ n \in excused \/ {n, n - 1} \subseteq covered[n]
         \/ job["night"].pc # "idle" /\ job["night"].night = n

\* getStats, getHourlyData, getSiteReports: whatever the tables hold, today's card, the
\* chart and the site reports of a full view show the same number; a report shows at
\* least the card's when employees were removed or moved, or the viewer sees less.
ScreensAgree ==
    \A S \in SUBSET Org \ {{}} :
        /\ SumOver(HourlyData(S, today), Hour) = TodayViolations(S)
        /\ \A o \in S : SiteViolations(o, S) >= TodayViolations({o})
        /\ (\A e \in Employee : ~gone[e]) =>
             TodayViolations(Org) = SumOver([o \in Org |-> SiteViolations(o, Org)], Org)

================================================================================
