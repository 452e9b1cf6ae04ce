----------------------------- MODULE ReportMetrics -----------------------------
(***************************************************************************)
(* The thresholds of the reports (src/modules/report-metric-settings), one row   *)
(* of system_settings, and the scores the dashboard computes with them.  Rates    *)
(* and scores are in tenths, violations per employee in hundredths.             *)
(***************************************************************************)
EXTENDS Integers

CONSTANTS
    Writer,
    Setting,     \* the settings people send
    Site,        \* counts of a site: [employees, apps, behaviors, events]; the day rows
                 \* count the events, the logs the blocks, so that they may disagree
    MaxSaves     \* bound

NoSetting == [none |-> TRUE]

\* DEFAULT_REPORT_METRIC_SETTINGS
Defaults ==
    [appWeight |-> 1, behaviorWeight |-> 1,
     complianceDanger |-> 800, complianceWarning |-> 900,
     violationsDanger |-> 150, violationsWarning |-> 70,
     complianceWeight |-> 1, violationsWeight |-> 1,
     dangerMin |-> 600, warningMin |-> 200]

\* ensureLogicalThresholds; the ranges are the DTO's.
Logical(s) ==
    /\ s.appWeight > 0 \/ s.behaviorWeight > 0
    /\ s.complianceDanger < s.complianceWarning
    /\ s.violationsDanger > s.violationsWarning
    /\ s.dangerMin > s.warningMin
    /\ s.complianceWeight > 0 \/ s.violationsWeight > 0

Weight == 0..10
Tenths == 0..1000         \* of a percentage or a score
Hundredths == 0..10000    \* of violations per employee
Values ==
    [appWeight : Weight, behaviorWeight : Weight,
     complianceDanger : Tenths, complianceWarning : Tenths,
     violationsDanger : Hundredths, violationsWarning : Hundredths,
     complianceWeight : Weight, violationsWeight : Weight,
     dangerMin : Tenths, warningMin : Tenths]

MetricsAssumption ==
    /\ Setting \subseteq Values
    /\ Site \subseteq [employees : {0, 1, 2, 4, 5}, apps : Nat, behaviors : Nat, events : Nat]
    /\ MaxSaves \in Nat

VARIABLES
    setting,     \* the row, or NoSetting
    save,        \* [Writer -> [pc, value]]
    saves

metricVars == <<setting, save, saves>>

None == [pc |-> "none", value |-> Defaults]

Init ==
    /\ setting = NoSetting /\ saves = 0
    /\ save = [w \in Writer |-> None]

\* update: the checks
Check(w, s) ==
    /\ save[w].pc = "none" /\ saves < MaxSaves
    /\ Logical(s)
    /\ save' = [save EXCEPT ![w] = [pc |-> "update", value |-> s]]
    /\ saves' = saves + 1
    /\ UNCHANGED setting

\* UPDATE ... WHERE key
UpdateRow(w) ==
    /\ save[w].pc = "update"
    /\ IF setting = NoSetting
       THEN /\ save' = [save EXCEPT ![w].pc = "insert"]
            /\ UNCHANGED setting
       ELSE /\ setting' = save[w].value
            /\ save' = [save EXCEPT ![w] = None]
    /\ UNCHANGED saves

\* INSERT when there was no row: when there is one by now the key refuses it.
InsertRow(w) ==
    /\ save[w].pc = "insert"
    /\ setting' = IF setting = NoSetting THEN save[w].value ELSE setting
    /\ save' = [save EXCEPT ![w] = None]
    /\ UNCHANGED saves

Next == \E w \in Writer :
    (\E s \in Setting : Check(w, s)) \/ UpdateRow(w) \/ InsertRow(w)

Spec == Init /\ [][Next]_metricVars

\* findCurrentValues, normalizeValues
CurrentValues == IF setting = NoSetting THEN Defaults ELSE setting

-----------------------------------------------------------------------------
(* The scores. *)

NoRate == -1

\* Math.round(n / d)
Round(n, d) == (2 * n + d) \div (2 * d)
Clamp(n) == IF n < 0 THEN 0 ELSE IF n > 1000 THEN 1000 ELSE n

\* calculateComplianceRate, not rounded: no rate without events.
ComplianceRate(n, s) ==
    IF n.events = 0 THEN NoRate
    ELSE LET blocks == n.apps * s.appWeight + n.behaviors * s.behaviorWeight
         IN  IF blocks >= n.events THEN 0
             ELSE Clamp(Round(1000 * (n.events - blocks), n.events))

Violations(n) == n.apps + n.behaviors
ViolationsPerEmployee(n) ==
    (100 * Violations(n)) \div (IF n.employees > 0 THEN n.employees ELSE 1)

\* calculateRiskScoreForBelowThreshold
ScoreBelow(value, warning, danger) ==
    IF value >= warning THEN 0
    ELSE IF value <= danger THEN 1000
    ELSE 600 + Round(400 * (warning - value), warning - danger)

\* calculateRiskScoreForAboveThreshold
ScoreAbove(value, warning, danger) ==
    IF value <= warning THEN 0
    ELSE IF value >= danger THEN 1000
    ELSE 600 + Round(400 * (value - warning), danger - warning)

\* calculateSiteRiskAssessment, its score: without a rate the violations alone count.
RiskScore(n, s) ==
    LET rate == ComplianceRate(n, s)
        weight == IF rate = NoRate THEN 0 ELSE s.complianceWeight
        compliance == IF rate = NoRate THEN 0
                      ELSE ScoreBelow(rate, s.complianceWarning, s.complianceDanger)
        violations == ScoreAbove(ViolationsPerEmployee(n), s.violationsWarning,
                                 s.violationsDanger)
        total == weight + s.violationsWeight
    IN  IF total = 0 THEN 0
        ELSE Clamp(Round(compliance * weight + violations * s.violationsWeight, total))

\* calculateSiteRiskAssessment, its level
RiskLevel(n, s) ==
    IF RiskScore(n, s) >= s.dangerMin THEN "danger"
    ELSE IF RiskScore(n, s) >= s.warningMin THEN "warning" ELSE "stable"

\* calculateChangeRate, in percent
ChangeRate(current, previous) ==
    IF previous > 0
    THEN IF current >= previous THEN Round(100 * (current - previous), previous)
         ELSE -((2 * 100 * (previous - current) + previous - 1) \div (2 * previous))
    ELSE IF current > 0 THEN NoRate ELSE 0

\* resolveTrendDirection
Trend(current, previous) ==
    IF current > previous THEN "up" ELSE IF current < previous THEN "down" ELSE "stable"

-----------------------------------------------------------------------------
\* Only settings that were accepted are stored, and only writers that found no row
\* insert one.
TypeOK ==
    /\ setting \in Setting \cup {NoSetting} /\ saves \in 0..MaxSaves
    /\ \A w \in Writer : save[w].pc = "insert" => saves > 0

\* Site n is at least as bad as m: as many people and events, more of them blocked.
AtLeastAsBad(n, m) ==
    /\ n.employees = m.employees /\ n.events = m.events
    /\ n.apps >= m.apps /\ n.behaviors >= m.behaviors

\* calculateSiteRiskAssessment under the settings in force: a site that is past both of
\* the danger thresholds is in danger, one within both of the warning thresholds has
\* no score, and more violations never make a site look better.
RisksOrdered ==
    LET s == CurrentValues IN
    \A n \in Site :
        /\ (/\ n.events > 0 /\ ComplianceRate(n, s) <= s.complianceDanger
            /\ ViolationsPerEmployee(n) >= s.violationsDanger)
             => RiskLevel(n, s) = "danger"
        /\ (/\ ComplianceRate(n, s) = NoRate \/ ComplianceRate(n, s) >= s.complianceWarning
            /\ ViolationsPerEmployee(n) <= s.violationsWarning) => RiskScore(n, s) = 0
        /\ \A m \in Site : AtLeastAsBad(n, m) => RiskScore(n, s) >= RiskScore(m, s)

\* calculateChangeRate, resolveTrendDirection: an arrow never points against the number
\* beside it.
TrendsAgree ==
    \A n \in Site, m \in Site :
        LET rate == ChangeRate(Violations(n), Violations(m))
        IN  /\ Trend(Violations(n), Violations(m)) = "up" => rate = NoRate \/ rate >= 0
            /\ Trend(Violations(n), Violations(m)) = "down" => rate <= 0

================================================================================
