---------------------------- MODULE PolicyDelivery ----------------------------
(***************************************************************************)
(* What reaches the phones: every handler that changes the policy in force     *)
(* somewhere also pushes policy_changed to the devices there, after its write   *)
(* and out of its transaction, and a phone that is told fetches what applies.   *)
(* modules/control-policies, allowed-apps, organizations.service.ts (the         *)
(* selection of a policy), employees.service.ts (status) and the dashboard's      *)
(* resolveAppliedPolicyForEmployee for what applies.                           *)
(*                                                                         *)
(* One group with its units, a person with a phone in each.  Every policy has   *)
(* a zone and a time condition (module ControlPolicies is about those); `rules'  *)
(* stands for what they say.  One app preset.  Policies assigned to a person     *)
(* are left out.                                                             *)
(***************************************************************************)
EXTENDS Naturals, FiniteSets

CONSTANTS
    Group, Unit,    \* a group and the units below it
    Policy,         \* policies, one of each owner
    OwnerOf,        \* Policy -> the group or a unit
    Behaves,        \* the policies that have a behavior condition
    App,            \* allowed apps
    NoPolicy,       \* no policy is selected
    Keep,           \* a field that the request does not name
    Wants,          \* what updates of a policy ask for
    Unset,          \* units whose devices have no pushTokenStatus at first
    Request,        \* requests in flight
    MaxCalls        \* bound on requests, failed pushes and new tokens together

Place == Unit \cup {Group}

DeliveryAssumption ==
    /\ Group \notin Unit /\ OwnerOf \in [Policy -> Place] /\ Behaves \subseteq Policy
    /\ {NoPolicy, Keep} \cap Policy = {} /\ MaxCalls \in Nat
    /\ \A p, q \in Policy : OwnerOf[p] = OwnerOf[q] => p = q
    /\ Wants \subseteq
         [targets : SUBSET Unit, active : BOOLEAN \cup {Keep}, draft : BOOLEAN \cup {Keep},
          rules : Nat, link : BOOLEAN \cup {Keep}]

VARIABLES
    policy,     \* Policy -> its row; `link': it uses the preset
    chosen,     \* Place -> appliedControlPolicyId
    preset,     \* [gone, items]
    app,        \* App -> isGlobal, for all that an update of an app changes
    device,     \* Unit -> token, pushTokenStatus and whether its user is ACTIVE
    shown,      \* Unit -> what the phone fetched last
    job,        \* Request -> where it is
    calls,      \* requests, failed pushes and new tokens so far
    excused     \* units that a named limit leaves out (history)

rows == <<policy, chosen, preset, app, device>>
vars == <<rows, shown, job, calls, excused>>

-----------------------------------------------------------------------------
(* What applies. *)

Chain(o) == {o, Group}
UnitsOf(o) == IF o = Group THEN Unit ELSE {o}

\* resolvePolicyDispatchTargetOrganizationIds: the configured units, else the owner's.
DispatchTargets(row, p) == IF row.targets # {} THEN row.targets ELSE UnitsOf(OwnerOf[p])

\* The nearest selection, if it is live and published, whoever it targets.
Explicit(u) ==
    LET selected == IF chosen[u] # NoPolicy THEN chosen[u] ELSE chosen[Group]
    IN {p \in Policy : /\ p = selected /\ OwnerOf[p] \in Chain(u)
                       /\ ~ policy[p].gone /\ ~ policy[p].draft}

\* Of the active policies that target the unit those of its nearest owner.
Fallback(u) ==
    LET of(o) == {p \in Policy :
                    /\ OwnerOf[p] = o /\ ~ policy[p].gone /\ policy[p].active
                    /\ policy[p].targets = {} \/ u \in policy[p].targets}
    IN IF of(u) # {} THEN of(u) ELSE of(Group)

ContentOf(p) ==
    [policy |-> p, active |-> policy[p].active, rules |-> policy[p].rules,
     apps |-> IF policy[p].link /\ ~ preset.gone
              THEN {<<a, app[a]>> : a \in preset.items} ELSE {}]

\* resolveAppliedPolicyForEmployee; a user who is not ACTIVE has none.
Applied(u) ==
    IF ~ device[u].working THEN {}
    ELSE {ContentOf(p) : p \in IF Explicit(u) # {} THEN Explicit(u) ELSE Fallback(u)}

\* deactivatePoliciesWithoutConditions: nothing but zones and times is left.
Bare(row, p) == p \notin Behaves /\ ~ row.link

-----------------------------------------------------------------------------
(* Requests. *)

Idle == [step |-> "idle"]
Go(k, j) == job' = [job EXCEPT ![k] = j]
Count == calls < MaxCalls /\ calls' = calls + 1
Begin(k) == job[k].step = "idle" /\ Count

\* A request that owes pushes: `due' holds pairs of a policy and the units to tell, {}
\* for those the policy has when its push is prepared.
Pushing(due) ==
    IF due = {} THEN Idle
    ELSE [step |-> "push", due |-> due, todo |-> {}, failed |-> {}, marks |-> TRUE]
Own(ps) == {<<p, {}>> : p \in ps}

Of(u) == {c.policy : c \in Applied(u)}
Changed == {u \in Unit : Applied(u)' # Applied(u)}

\* The limits of a write to the rows of ps, read as `seen': units that change or that the
\* other writer had to tell, when someone else wrote the row in between; and units that
\* have the policy by selection though they are not among its targets.
Limits(ps, seen) ==
    {u \in Unit : \E p \in ps :
        \/ /\ policy[p] # seen[p]
           /\ u \in Changed \cup DispatchTargets(policy[p], p)
        \/ /\ u \in Changed /\ p \in Of(u) \cup Of(u)'
           /\ u \notin DispatchTargets(policy[p], p)
                         \cup DispatchTargets(policy'[p], p)}

\* update: reads its policy, and units come from the request or are all of the owner's.
UpdateRead(k, p, w) ==
    /\ Begin(k)
    /\ ~ policy[p].gone
    /\ w.link = TRUE => ~ preset.gone
    /\ OwnerOf[p] \in Unit => w.targets \subseteq {OwnerOf[p]}
    /\ Go(k, [step |-> "update", who |-> p, want |-> w, seen |-> policy[p],
              targets |-> IF OwnerOf[p] \in Unit THEN {}
                          ELSE IF w.targets = {} THEN Unit ELSE w.targets,
              draft |-> IF w.draft = Keep THEN policy[p].draft ELSE w.draft])
    /\ UNCHANGED <<rows, shown, excused>>

UpdateWrite(k) ==
    /\ job[k].step = "update"
    /\ LET j == job[k]
           p == j.who
           given(value, old) == IF value = Keep THEN old ELSE value
       IN
       /\ policy' = [policy EXCEPT
            ![p].targets = j.targets,
            ![p].draft = j.draft,
            ![p].active = IF j.draft THEN FALSE ELSE given(j.want.active, @),
            ![p].rules = j.want.rules,
            ![p].link = given(j.want.link, @)]
       /\ Go(k, [step |-> "updated", who |-> p, seen |-> j.seen])
       /\ UNCHANGED <<chosen, preset, app, device, shown, calls>>
       /\ excused' = excused \cup Limits({p}, [q \in {p} |-> j.seen])

\* Mutant: the units that are no longer targets are not told.
UpdateTellNext(k) ==
    /\ job[k].step = "updated"
    /\ LET p == job[k].who
       IN /\ Go(k, Pushing(IF policy[p].draft THEN {}
                           ELSE {<<p, DispatchTargets(policy[p], p)>>}))
          /\ excused' = IF policy[p].draft
                        THEN excused \cup DispatchTargets(policy[p], p)
                                     \cup DispatchTargets(job[k].seen, p)
                        ELSE excused
    /\ UNCHANGED <<rows, shown, calls>>

\* The units it had and those it has, told in one or two pushes; nobody (a limit) when
\* it is a draft by now.
UpdateTell(k) ==
    /\ job[k].step = "updated"
    /\ LET p == job[k].who
           next == DispatchTargets(policy[p], p)
           previous == DispatchTargets(job[k].seen, p)
           due == IF policy[p].draft THEN {}
                  ELSE IF policy[p].active THEN {<<p, next>>, <<p, previous \ next>>}
                  ELSE {<<p, next \cup previous>>}
       IN /\ Go(k, Pushing({d \in due : d[2] # {}}))
          /\ excused' = IF policy[p].draft THEN excused \cup next \cup previous
                        ELSE excused
    /\ UNCHANGED <<rows, shown, calls>>

\* toggleActive of one policy, bulkSetActive of those that are not yet what is asked; what
\* is written to a policy removed meanwhile has no effect.
SwitchRead(k, ps, on) ==
    /\ Begin(k)
    /\ ps # {}
    /\ \A p \in ps : ~ policy[p].gone /\ ~ policy[p].draft /\ policy[p].active # on
    /\ Go(k, [step |-> "switch", who |-> ps, on |-> on, found |-> policy])
    /\ UNCHANGED <<rows, shown, excused>>

SwitchWrite(k) ==
    /\ job[k].step = "switch"
    /\ policy' = [p \in Policy |-> IF p \in job[k].who /\ ~ policy[p].gone
                                   THEN [policy[p] EXCEPT !.active = job[k].on]
                                   ELSE policy[p]]
    /\ Go(k, Pushing(Own(job[k].who)))
    /\ UNCHANGED <<chosen, preset, app, device, shown, calls>>
    /\ excused' = excused \cup Limits(job[k].who, job[k].found)

\* The units that have one of the policies.
Having(ps) == {u \in Unit : ps \cap Of(u) # {}}

\* remove, bulkRemove: what was a draft when it was read is removed in silence; where it
\* was in force, since a switch was written after the update that made it one, that is a
\* limit.
RemoveRead(k, ps) ==
    /\ Begin(k)
    /\ ps # {} /\ \A p \in ps : ~ policy[p].gone
    /\ Go(k, [step |-> "remove", who |-> ps, found |-> policy])
    /\ UNCHANGED <<rows, shown, excused>>

RemoveWrite(k) ==
    /\ job[k].step = "remove"
    /\ LET ps == job[k].who
           drafts == {p \in ps : job[k].found[p].draft}
       IN /\ policy' = [p \in Policy |->
                IF p \in ps THEN [policy[p] EXCEPT !.gone = TRUE, !.active = FALSE,
                                                   !.link = FALSE]
                ELSE policy[p]]
          /\ Go(k, Pushing(Own(ps \ drafts)))
          /\ UNCHANGED <<chosen, preset, app, device, shown, calls>>
          /\ excused' = excused \cup Limits(ps, job[k].found) \cup Having(drafts)

\* assignZones and the others write the relations of a policy and push nothing: the units
\* that have it are a limit.
Assign(k, p, link) ==
    /\ Begin(k)
    /\ ~ policy[p].gone /\ (link => ~ preset.gone)
    /\ policy' = [policy EXCEPT ![p].link = link]
    /\ UNCHANGED <<chosen, preset, app, device, shown, job>>
    /\ excused' = excused \cup Having({p})

\* dispatch-policy-changed: pushes again for active policies, or for all that are kept.
Force(k, ps, all) ==
    /\ Begin(k)
    /\ LET found == {p \in ps : ~ policy[p].gone /\ (all \/ policy[p].active)}
       IN found # {} /\ Go(k, Pushing(Own(found)))
    /\ UNCHANGED <<rows, shown, excused>>

\* organizations.update: the selection named, or the one read before the transaction.
SelectRead(k, o, x) ==
    /\ Begin(k)
    /\ Go(k, [step |-> "select", who |-> o, seen |-> chosen[o],
              next |-> IF x = Keep THEN chosen[o] ELSE x])
    /\ UNCHANGED <<rows, shown, excused>>

SelectWrite(k) ==
    /\ job[k].step = "select"
    /\ LET j == job[k]
           valid == \/ j.next = NoPolicy
                    \/ /\ ~ policy[j.next].gone /\ ~ policy[j.next].draft
                       /\ OwnerOf[j.next] \in Chain(j.who)
           named == IF j.next = NoPolicy THEN j.seen ELSE j.next
       IN
       /\ chosen' = [chosen EXCEPT ![j.who] = IF valid THEN j.next ELSE @]
       /\ Go(k, Pushing(IF valid /\ j.next # j.seen THEN {<<named, UnitsOf(j.who)>>}
                        ELSE {}))
       /\ UNCHANGED <<policy, preset, app, device, shown, calls>>
       /\ excused' = excused \cup (IF chosen[j.who] # j.seen THEN Changed ELSE {})

-----------------------------------------------------------------------------
(* Presets and apps. *)

\* The policies that use the preset.
Users == {p \in Policy : policy[p].link}

\* update of a preset, addApps, removeApps: check, then write.
ItemsRead(k, items, how) ==
    /\ Begin(k)
    /\ ~ preset.gone /\ (items = {} => how = "replaceApps")
    /\ Go(k, [step |-> how, items |-> items])
    /\ UNCHANGED <<rows, shown, excused>>

ItemsWrite(k, how, items) ==
    /\ job[k].step = how
    /\ preset' = [preset EXCEPT !.items = items]
    /\ Go(k, [step |-> "tellPreset"])
    /\ UNCHANGED <<policy, chosen, app, device, shown, calls>>
    /\ excused' = excused \cup Limits(Users, policy)

ReplaceApps(k) == ItemsWrite(k, "replaceApps", job[k].items)
AddApps(k) == ItemsWrite(k, "addApps", preset.items \cup job[k].items)
RemoveApps(k) == ItemsWrite(k, "removeApps", preset.items \ job[k].items)

\* remove of a preset finds the policies that use it, then takes it from all of them (a
\* policy that came to use it in between is a limit).
DropRead(k) ==
    /\ Begin(k)
    /\ ~ preset.gone
    /\ Go(k, [step |-> "drop", who |-> Users])
    /\ UNCHANGED <<rows, shown, excused>>

DropWrite(k) ==
    /\ job[k].step = "drop"
    /\ LET found == job[k].who
           bare(p) == p \in found /\ Bare([policy[p] EXCEPT !.link = FALSE], p)
       IN
       /\ policy' = [p \in Policy |->
            [policy[p] EXCEPT !.link = FALSE, !.active = @ /\ ~ bare(p)]]
       /\ preset' = [preset EXCEPT !.gone = TRUE]
       /\ Go(k, Pushing(Own(found)))
       /\ UNCHANGED <<chosen, app, device, shown, calls>>
       /\ excused' = excused \cup Limits(Policy, policy) \cup Having(Users \ found)

\* update of an app writes what it is asked; toggleGlobal the opposite of what it read.
UpdateApp(k, a, value) ==
    /\ Begin(k)
    /\ Go(k, [step |-> "app", who |-> a, next |-> value])
    /\ UNCHANGED <<rows, shown, excused>>

ToggleGlobal(k, a) == UpdateApp(k, a, ~ app[a])

AppWrite(k) ==
    /\ job[k].step = "app"
    /\ app' = [app EXCEPT ![job[k].who] = job[k].next]
    /\ Go(k, [step |-> "tellApp", who |-> job[k].who])
    /\ UNCHANGED <<policy, chosen, preset, device, shown, calls>>
    /\ excused' = excused \cup Limits(Users, policy)

\* notifyPoliciesByPreset: the policies that use the preset by now.
TellUsers(k) ==
    /\ job[k].step = "tellPreset"
    /\ Go(k, Pushing(Own(Users)))
    /\ UNCHANGED <<rows, shown, calls, excused>>

\* notifyPoliciesByAllowedApp: those that use a preset which has the app by now.
TellUsersOfApp(k) ==
    /\ job[k].step = "tellApp"
    /\ Go(k, Pushing(Own(IF job[k].who \in preset.items THEN Users ELSE {})))
    /\ UNCHANGED <<rows, shown, calls, excused>>

-----------------------------------------------------------------------------
(* Pushes. *)

\* The devices of ACTIVE users in the targets whose token has not failed.
Load(k) ==
    /\ job[k].step = "push"
    /\ \E d \in job[k].due :
         LET to == IF d[2] = {} THEN DispatchTargets(policy[d[1]], d[1]) ELSE d[2]
         IN Go(k, [job[k] EXCEPT
              !.due = @ \ {d},
              !.todo = @ \cup {<<u, device[u].token>> : u \in
                         {v \in to : device[v].working /\ device[v].status # "error"}}])
    /\ UNCHANGED <<rows, shown, calls, excused>>

\* A phone that is told fetches what applies.
Deliver(k, u) ==
    /\ job[k].step = "push"
    /\ <<u, device[u].token>> \in job[k].todo
    /\ Go(k, [job[k] EXCEPT !.todo = @ \ {<<u, device[u].token>>}])
    /\ shown' = [shown EXCEPT ![u] = Applied(u)]
    /\ excused' = excused \ {u}
    /\ UNCHANGED <<rows, calls>>

\* The app back end refuses the token: the device will be marked.
Refuse(k, u) ==
    /\ job[k].step = "push"
    /\ \E t \in job[k].todo :
         /\ t[1] = u
         /\ Go(k, [job[k] EXCEPT !.todo = @ \ {t}, !.failed = @ \cup {u}])
         /\ IF t[2] = device[u].token THEN Count ELSE calls' = calls
    /\ UNCHANGED <<rows, shown, excused>>

\* A timeout, or any other failure: nobody tries again (a limit).
Lose(k, u) ==
    /\ job[k].step = "push"
    /\ \E t \in job[k].todo :
         /\ t[1] = u
         /\ Go(k, [job[k] EXCEPT !.todo = @ \ {t}])
    /\ Count
    /\ excused' = excused \cup {u}
    /\ UNCHANGED <<rows, shown>>

\* The devices are marked by id: also one that has registered another token since.
Mark(k) ==
    /\ job[k].step = "push" /\ job[k].due = {} /\ job[k].todo = {}
    /\ device' = [u \in Unit |-> IF job[k].marks /\ u \in job[k].failed
                                 THEN [device[u] EXCEPT !.status = "error"]
                                 ELSE device[u]]
    /\ excused' = IF job[k].marks THEN excused ELSE excused \cup job[k].failed
    /\ Go(k, Idle)
    /\ UNCHANGED <<policy, chosen, preset, app, shown, calls>>

\* employees.update, bulkUpdateStatus: a user who is no longer ACTIVE is told after it,
\* and so is one who was removed.
Leave(k, u, step) ==
    /\ Begin(k)
    /\ device[u].working
    /\ device' = [device EXCEPT ![u].working = FALSE]
    /\ Go(k, [step |-> step, who |-> u])
    /\ UNCHANGED <<policy, chosen, preset, app, shown, excused>>
Dismiss(k, u) == Leave(k, u, "dismiss")
Withdraw(k, u) == Leave(k, u, "withdraw")

\* pushTokenStatus: not ERROR leaves out, with those, devices that have no status.
TellLeft(k, step, marks) ==
    /\ job[k].step = step
    /\ LET u == job[k].who
       IN Go(k, [step |-> "push", due |-> {}, failed |-> {}, marks |-> marks,
                 todo |-> IF device[u].status = "ok" THEN {<<u, device[u].token>>}
                          ELSE {}])
    /\ UNCHANGED <<rows, shown, calls, excused>>
TellDismissed(k) == TellLeft(k, "dismiss", TRUE)

\* A refused token of a removed user is not marked (a limit).
TellWithdrawn(k) == TellLeft(k, "withdraw", FALSE)

\* Back to ACTIVE: nothing is pushed, the next login fetches (a limit).
Reinstate(k, u) ==
    /\ Begin(k)
    /\ ~ device[u].working
    /\ device' = [device EXCEPT ![u].working = TRUE]
    /\ excused' = excused \cup {u}
    /\ UNCHANGED <<policy, chosen, preset, app, shown, job>>

\* A phone logs in with another token.
Register(u) ==
    /\ device[u].working /\ device[u].token = 0
    /\ Count
    /\ device' = [device EXCEPT ![u].token = 1, ![u].status = "ok"]
    /\ shown' = [shown EXCEPT ![u] = Applied(u)]
    /\ excused' = excused \ {u}
    /\ UNCHANGED <<policy, chosen, preset, app, job>>

-----------------------------------------------------------------------------

\* A policy of the group for some of its units, selected or not, and policies of units
\* in force or not; without a behavior condition it has the preset.
Init ==
    /\ policy \in [Policy ->
         [gone : {FALSE}, draft : {FALSE}, active : BOOLEAN, rules : {0},
          targets : SUBSET Unit, link : BOOLEAN]]
    /\ \A p \in Policy : IF OwnerOf[p] = Group
                         THEN policy[p].targets # {} /\ policy[p].active
                         ELSE policy[p].targets = {}
    /\ \A p \in Policy : policy[p].link <=> p \notin Behaves
    /\ chosen \in [Place -> {NoPolicy} \cup {p \in Policy : OwnerOf[p] = Group}]
    /\ \A u \in Unit : chosen[u] = NoPolicy
    /\ preset \in [gone : {FALSE}, items : {App}]
    /\ app = [a \in App |-> FALSE]
    /\ device = [u \in Unit |->
         [token |-> 0, status |-> IF u \in Unset THEN "none" ELSE "ok",
          working |-> TRUE]]
    /\ shown = [u \in Unit |-> Applied(u)]
    /\ job = [k \in Request |-> Idle]
    /\ calls = 0
    /\ excused = {}

Next ==
    \/ \E k \in Request :
         \/ \E p \in Policy, w \in Wants : UpdateRead(k, p, w)
         \/ \E ps \in SUBSET Policy : \/ \E on \in BOOLEAN : SwitchRead(k, ps, on)
                                      \/ RemoveRead(k, ps)
                                      \/ \E all \in BOOLEAN : Force(k, ps, all)
         \/ \E p \in Policy, link \in BOOLEAN : Assign(k, p, link)
         \/ \E o \in Place, x \in Policy \cup {NoPolicy, Keep} : SelectRead(k, o, x)
         \/ \E items \in SUBSET App, how \in {"replaceApps", "addApps", "removeApps"} :
              ItemsRead(k, items, how)
         \/ \E a \in App : \/ ToggleGlobal(k, a)
                           \/ \E value \in BOOLEAN : UpdateApp(k, a, value)
         \/ \E u \in Unit : Dismiss(k, u) \/ Withdraw(k, u) \/ Reinstate(k, u)
                              \/ Deliver(k, u) \/ Refuse(k, u) \/ Lose(k, u)
         \/ UpdateWrite(k) \/ UpdateTell(k) \/ SwitchWrite(k) \/ RemoveWrite(k)
         \/ SelectWrite(k) \/ ReplaceApps(k) \/ AddApps(k) \/ RemoveApps(k)
         \/ DropRead(k) \/ DropWrite(k) \/ AppWrite(k) \/ TellUsers(k) \/ TellUsersOfApp(k)
         \/ TellDismissed(k) \/ TellWithdrawn(k) \/ Load(k) \/ Mark(k)
    \/ \E u \in Unit : Register(u)

Spec == Init /\ [][Next]_vars

-----------------------------------------------------------------------------

\* A unit that a request in flight may still tell.
Owed(u) ==
    \E k \in Request :
        \/ job[k].step \in {"updated", "tellPreset", "tellApp"}
        \/ job[k].step \in {"dismiss", "withdraw"} /\ job[k].who = u
        \/ /\ job[k].step = "push"
           /\ \/ \E d \in job[k].due :
                   u \in IF d[2] = {} THEN DispatchTargets(policy[d[1]], d[1]) ELSE d[2]
              \/ \E t \in job[k].todo : t[1] = u
              \/ u \in job[k].failed

TypeOK ==
    /\ \A p \in Policy : policy[p].targets \subseteq UnitsOf(OwnerOf[p])
    /\ \A o \in Place : chosen[o] # NoPolicy => OwnerOf[chosen[o]] \in Chain(o)
    /\ preset.items \subseteq App
    /\ \A u \in Unit : device[u].token = 1 => device[u].status # "none"
    /\ \A k \in Request : job[k].step = "push" =>
         \A t \in job[k].todo : t[2] <= device[t[1]].token

\* policy_changed: when the requests are done every phone shows what applies to its
\* user, whichever of policy, selection, preset, app or status changed and in whatever
\* order writes and pushes came, but for failed pushes and the limits named above.
DevicesTold ==
    \A u \in Unit :
        \/ shown[u] = Applied(u)
        \/ device[u].status = "error" \/ Owed(u) \/ u \in excused
        \/ device[u].status = "none" /\ ~ device[u].working
===============================================================================
