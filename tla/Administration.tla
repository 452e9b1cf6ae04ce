---------------------------- MODULE Administration -----------------------------
(***************************************************************************)
(* What administrators share: the request board, the daily statistics and the  *)
(* reports made of them, permissions, accounts and sessions, the catalogue of   *)
(* apps, and the policies on the phones.  The services share no rows, so that a *)
(* behaviour is one of a single service, chosen by `part'.                     *)
(***************************************************************************)
EXTENDS Integers, FiniteSets

CONSTANTS
    Client,                 \* of the board, writers and requests of any service
    Content, Normal, Empty, MaxSaves,
    Employee, Org, NoOrg, Hour, Act, MaxDay, MaxEvents,
    Setting, SiteCounts, MaxSettings,
    Company, Group, CompanyOf, Code, NonDelegable, Role, Administrator, Nobody,
    MaxEdits,
    Account, Master, AccessLife, RefreshLife, Inactivity, Absolute, MaxTime, MaxLogins,
    Site, Unit, Policy, OwnerOf, Behaves, PhoneApp, NoPolicy, Keep, Wants, Unset,
    MaxRequests,
    App, Preset, Package, Folded, NoPackage, Icon, NoIcon, Worker, MaxCalls

VARIABLES
    part,
    row, known, request,
    today, window, up, lastRun, logs, at, gone, orgRow, hourRow, employeeRow,
    job, events, dirty, covered, excused,
    setting, save, saves,
    company, group, roles, accounts, edit, mine, calls, watch, strayed,
    now, state, access, refresh, logins,
    policy, chosen, preset, app, device, shown, task, asked, excepted,
    listing, bundle, normalized, clerk, served, outrun

boardVars == <<row, known, request>>
statVars == <<today, window, up, lastRun, logs, at, gone, orgRow, hourRow, employeeRow,
              job, events, dirty, covered, excused>>
metricVars == <<setting, save, saves>>
accessVars == <<company, group, roles, accounts, edit, mine, calls, watch, strayed>>
sessionVars == <<now, state, access, refresh, logins>>
phoneVars == <<policy, chosen, preset, app, device, shown, task, asked, excepted>>
appVars == <<listing, bundle, normalized, clerk, served, outrun>>

Board == INSTANCE RequestBoard

Stats == INSTANCE DailyStats

Metrics == INSTANCE ReportMetrics
    WITH Writer <- Client, Site <- SiteCounts, MaxSaves <- MaxSettings

Authority == INSTANCE Access
    WITH Account <- Administrator, Request <- Client, MaxCalls <- MaxEdits

Sessions == INSTANCE Sessions

Delivery == INSTANCE PolicyDelivery
    WITH Group <- Site, App <- PhoneApp, Request <- Client, MaxCalls <- MaxRequests,
         job <- task, calls <- asked, excused <- excepted

Apps == INSTANCE AppCatalogue

ASSUME AdministrationAssumption ==
    /\ Board!BoardAssumption /\ Stats!StatsAssumption /\ Metrics!MetricsAssumption
    /\ Authority!AccessAssumption /\ Sessions!SessionAssumption
    /\ Delivery!DeliveryAssumption /\ Apps!CatalogueAssumption

\* The services that stand still do so in a state of one form.
Init ==
    /\ part \in {"board", "stats", "metrics", "access", "sessions", "phones",
                 "apps"}
    /\ Board!Init /\ Stats!Init /\ Metrics!Init /\ Authority!Init /\ Sessions!Init
    /\ Delivery!Init /\ Apps!Init
    /\ part # "apps" =>
         /\ \A a \in App : ~ Apps!Exists(a)
         /\ \A s \in Preset : bundle[s].state = "none"
    /\ part # "phones" =>
         /\ \A p \in Policy : policy[p].active /\ policy[p].targets \in {{}, Unit}
         /\ chosen[Site] = NoPolicy

Next ==
    /\ UNCHANGED part
    /\ \/ /\ part = "board" /\ Board!Next
          /\ UNCHANGED <<statVars, metricVars, accessVars, sessionVars, phoneVars,
                         appVars>>
       \/ /\ part = "stats" /\ Stats!Next
          /\ UNCHANGED <<boardVars, metricVars, accessVars, sessionVars, phoneVars,
                         appVars>>
       \/ /\ part = "metrics" /\ Metrics!Next
          /\ UNCHANGED <<boardVars, statVars, accessVars, sessionVars, phoneVars,
                         appVars>>
       \/ /\ part = "access" /\ Authority!Next
          /\ UNCHANGED <<boardVars, statVars, metricVars, sessionVars, phoneVars,
                         appVars>>
       \/ /\ part = "sessions" /\ Sessions!Next
          /\ UNCHANGED <<boardVars, statVars, metricVars, accessVars, phoneVars,
                         appVars>>
       \/ /\ part = "phones" /\ Delivery!Next
          /\ UNCHANGED <<boardVars, statVars, metricVars, accessVars, sessionVars,
                         appVars>>
       \/ /\ part = "apps" /\ Apps!Next
          /\ UNCHANGED <<boardVars, statVars, metricVars, accessVars, sessionVars,
                         phoneVars>>

vars == <<part, boardVars, statVars, metricVars, accessVars, sessionVars,
          phoneVars, appVars>>

Spec == Init /\ [][Next]_vars

-----------------------------------------------------------------------------
(* Properties: each of the conjuncts is stated in its module. *)

\* The type of what each of the services keeps, with what of it relates rows: a row's
\* time and what clients know of it, an organization's day and its hours, a role and
\* the accounts that hold it, a token and the login it comes from.
TypeOK ==
    /\ (part = "board" => Board!TypeOK) /\ (part = "stats" => Stats!TypeOK)
    /\ (part = "metrics" => Metrics!TypeOK) /\ (part = "access" => Authority!TypeOK)
    /\ (part = "sessions" => Sessions!TypeOK)
    /\ (part = "phones" => Delivery!TypeOK) /\ (part = "apps" => Apps!TypeOK)

\* The request board implements BoardRegister: a save replaces the board its writer saw.
ImplementsRegister == Board!ImplementsRegister

\* dashboard-reaggregate.scheduler.ts: every day is reaggregated in its night and the
\* next one, and agrees with its logs until something changes it.
NightSettles == part = "stats" => Stats!NightSettles

\* getStats, getHourlyData, getSiteReports: the same number on every screen whatever
\* the tables hold, and scores that follow it under whatever settings are in force;
\* findByPackageName, findAll and refreshIcons of the allowed apps: what they answer
\* is what the catalogue holds.
ScreensAgree ==
    /\ (part = "stats" => Stats!ScreensAgree)
    /\ (part = "metrics" => Metrics!RisksOrdered /\ Metrics!TrendsAgree)
    /\ (part = "apps" =>
          Apps!PackagesUnique /\ Apps!FiltersAgree /\ Apps!ReportedOnce)

\* findMine, accounts.update, refresh: nobody may more than the company's managers hold,
\* roles are held in groups, and sessions end, whatever requests overlap.
AuthorityHolds ==
    /\ (part = "access" =>
          Authority!CodesWithinCeiling /\ Authority!RolesFit /\ Authority!ListsAgree)
    /\ (part = "sessions" => Sessions!SessionsEnd)

\* control-policies, allowed-apps, organizations, employees: when the requests are done
\* every phone shows the policy that applies, in whatever order they wrote and pushed.
DevicesTold == part = "phones" => Delivery!DevicesTold

===============================================================================
