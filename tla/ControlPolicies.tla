---------------------------- MODULE ControlPolicies ----------------------------
(***************************************************************************)
(* Control policies and the conditions they are built from: modules/       *)
(* control-policies/control-policies.service.ts, the zone, time-policy,    *)
(* behavior-condition and allowed-app-preset services and common/utils/    *)
(* control-policy-cleanup.util.ts.                                         *)
(*                                                                         *)
(* Several handlers validate outside a transaction and write inside one.   *)
(* A transaction is READ COMMITTED: its writes are invisible until it      *)
(* commits, it deletes the relation rows it saw when it deleted, and the   *)
(* row of a policy that it has updated is locked until it commits.  The    *)
(* organization tree does not change here (module OrganizationTree).       *)
(***************************************************************************)
EXTENDS Integers, FiniteSets

CONSTANTS
    Org,        \* organizations that may own policies and conditions
    Sources,    \* Org -> it and the groups and companies above it
    Policy,     \* policy ids, used and still unused
    Condition,  \* zones, time policies, behavior conditions, app presets
    KindOf,     \* Condition -> ConditionKind
    SeedHome,   \* Condition -> the organization that owns it at the start
    Keep,       \* a field absent from a request, a value left as it is
    Request,    \* requests in flight at the same time
    Kinds,      \* the kinds of request that are made
    CrossOrg    \* are the users super admins, who may link across the tree?

ConditionKind == {"zone", "time", "behavior", "app"}

ASSUME PolicyAssumption ==
    /\ IsFiniteSet(Policy) /\ IsFiniteSet(Condition)
    /\ Sources \in [Org -> SUBSET Org]
    /\ \A o \in Org : o \in Sources[o]
    /\ KindOf \in [Condition -> ConditionKind]
    /\ SeedHome \in [Condition -> Org]
    /\ Keep \notin Org \cup BOOLEAN \cup Policy \cup Condition
    /\ CrossOrg \in BOOLEAN
    /\ Kinds \subseteq {"create", "update", "assign", "toggle", "bulk", "remove",
                        "drop", "move"}

VARIABLES
    row,     \* Policy -> "absent", "live", "deleted" (ControlPolicy.deletedAt)
    owner,   \* Policy -> ControlPolicy.organizationId
    draft,   \* Policy -> ControlPolicy.isDraft
    active,  \* Policy -> ControlPolicy.isActive
    uses,    \* the rows <<policy, condition>> of the four relation tables
    home,    \* Condition -> organizationId of the zone, time policy, ...
    kept,    \* the conditions that are not soft-deleted
    pc,      \* the next step of each request
    req      \* what each request was given, has read and has not committed

vars == <<row, owner, draft, active, uses, home, kept, pc, req>>
rows == <<row, owner, draft, active, uses, home, kept>>

-----------------------------------------------------------------------------
(* What the handlers look at. *)

\* The kinds that have conditions: the others are not worth naming in a request.
KindsInUse == {KindOf[c] : c \in Condition}

\* The conditions of policy p among the relation rows u.
ConditionsIn(u, p) == {c \in Condition : <<p, c>> \in u}

\* Those of one kind are missing.
Lacks(conditions, kind) == \A c \in conditions : KindOf[c] # kind

\* resolveMissingRequiredConditionsFromCounts is not empty.
Missing(conditions) == Lacks(conditions, "zone") \/ Lacks(conditions, "time")

\* deactivatePoliciesWithoutConditions asks for more: also a behavior
\* condition or an app preset.
NeedsReview(conditions) ==
    Missing(conditions) \/ (Lacks(conditions, "behavior") /\ Lacks(conditions, "app"))

Published(p) == row[p] = "live" /\ ~ draft[p]

\* Another published policy already belongs to o.
Taken(o, p) == \E q \in Policy \ {p} : Published(q) /\ owner[q] = o

\* validatePolicyRelations and ensureSingleSelectionConstraints.
ValidRelations(o, new) ==
    /\ new \subseteq kept
    /\ CrossOrg \/ \A c \in new : home[c] \in Sources[o]
    /\ \A kind \in {"time", "behavior"} :
           Cardinality({c \in new : KindOf[c] = kind}) <= 1

-----------------------------------------------------------------------------
(* Requests. *)

Steps == {"idle", "insert", "write", "commit", "assign", "assigned", "toggle",
          "bulk", "remove", "removing", "drop", "dropping", "move", "detach",
          "detaching"}

\* who: the policies the request is about; cond: the condition; org, draft,
\* want: the owner, isDraft and isActive it asks for; given, new: the kinds of
\* relation it replaces and the conditions it puts there; had: a required
\* condition was missing when it read the policy; seen: the relation rows its
\* transaction has deleted; off: the policies its transaction deactivates.
ReqType == [who : SUBSET Policy, cond : Condition \cup {Keep},
            org : Org \cup {Keep}, draft : BOOLEAN \cup {Keep},
            want : BOOLEAN \cup {Keep}, given : SUBSET ConditionKind,
            new : SUBSET Condition, had : BOOLEAN,
            seen : SUBSET (Policy \X Condition), off : SUBSET Policy]

Nothing == [who |-> {}, cond |-> Keep, org |-> Keep, draft |-> Keep, want |-> Keep,
            given |-> {}, new |-> {}, had |-> FALSE, seen |-> {}, off |-> {}]

Init ==
    /\ row = [p \in Policy |-> "absent"]
    /\ owner \in {[p \in Policy |-> o] : o \in Org}
    /\ draft = [p \in Policy |-> FALSE]
    /\ active = [p \in Policy |-> FALSE]
    /\ uses = {}
    /\ home = SeedHome
    /\ kept = Condition
    /\ pc = [r \in Request |-> "idle"]
    /\ req = [r \in Request |-> Nothing]

Begin(r, kind) == kind \in Kinds /\ pc[r] = "idle"

Enter(r, step, d) ==
    /\ pc' = [pc EXCEPT ![r] = step]
    /\ req' = [req EXCEPT ![r] = d]

Finish(r) == Enter(r, "idle", Nothing)

\* The policies whose row a transaction has updated and not committed.
Locked(r) == IF pc[r] = "commit" THEN req[r].who
             ELSE IF pc[r] = "assigned" /\ req[r].want # Keep THEN req[r].who
             ELSE IF pc[r] \in {"dropping", "detaching"} THEN req[r].off ELSE {}

\* An update of these rows does not wait.
Free(r, ps) == \A s \in Request \ {r} : Locked(s) \cap ps = {}

-----------------------------------------------------------------------------
(* create *)

CreateCheck(r, o, isDraft, want, new) ==
    /\ Begin(r, "create")
    /\ ~ \E q \in Policy : Published(q) /\ owner[q] = o
    /\ ValidRelations(o, new)
    /\ ~ isDraft => ~ Missing(new)
    /\ Enter(r, "insert", [Nothing EXCEPT !.org = o, !.draft = isDraft, !.new = new,
                                          !.want = ~ isDraft /\ want])
    /\ UNCHANGED rows

\* One nested create: the row and its relations.
CreateCommit(r, p) ==
    /\ pc[r] = "insert"
    /\ row[p] = "absent"
    /\ row' = [row EXCEPT ![p] = "live"]
    /\ owner' = [owner EXCEPT ![p] = req[r].org]
    /\ draft' = [draft EXCEPT ![p] = req[r].draft]
    /\ active' = [active EXCEPT ![p] = req[r].want]
    /\ uses' = uses \cup ({p} \X req[r].new)
    /\ Finish(r)
    /\ UNCHANGED <<home, kept>>

-----------------------------------------------------------------------------
(* update and the four assign operations. *)

\* What the transaction of r sees of the relations after its own writes.
View(r, deleted) == (uses \ deleted) \cup (req[r].who \X req[r].new)

\* The relation rows of the policies `who' of the given kinds.
RowsOf(who, given) == {u \in uses : u[1] \in who /\ KindOf[u[2]] \in given}

\* applyRequiredConditionActivationPolicy, for a policy that is `on' before:
\* an incomplete policy is switched off, one that lacked something when it was
\* first read and is complete now is switched on.
Activation(conditions, had, on) ==
    IF Missing(conditions) THEN FALSE ELSE on \/ had

\* Mutants: the uniqueness check asks for the old owner; a change of owner keeps
\* the relations.
UpdateReadOldOwner(r, p, o, isDraft, want, given, new) ==
    LET target == IF o = Keep THEN owner[p] ELSE o
        nextDraft == IF isDraft = Keep THEN draft[p] ELSE isDraft
    IN
    /\ Begin(r, "update")
    /\ row[p] = "live"
    /\ ~ nextDraft => ~ Taken(owner[p], p)
    /\ ValidRelations(target, new)
    /\ Enter(r, "write",
             [Nothing EXCEPT !.who = {p}, !.org = o, !.draft = nextDraft, !.new = new,
                             !.given = IF target # owner[p] THEN KindsInUse ELSE given,
                             !.want = IF nextDraft THEN FALSE ELSE want,
                             !.had = Missing(ConditionsIn(uses, p))])
    /\ UNCHANGED rows

UpdateReadKeep(r, p, o, isDraft, want, given, new) ==
    LET target == IF o = Keep THEN owner[p] ELSE o
        nextDraft == IF isDraft = Keep THEN draft[p] ELSE isDraft
    IN
    /\ Begin(r, "update")
    /\ row[p] = "live"
    /\ ~ nextDraft => ~ Taken(target, p)
    /\ ValidRelations(target, new)
    /\ Enter(r, "write",
             [Nothing EXCEPT !.who = {p}, !.org = o, !.draft = nextDraft, !.new = new,
                             !.given = given,
                             !.want = IF nextDraft THEN FALSE ELSE want,
                             !.had = Missing(ConditionsIn(uses, p))])
    /\ UNCHANGED rows

\* The reads at the start of the transaction.  A change of organization empties
\* the relations the request does not name.
UpdateRead(r, p, o, isDraft, want, given, new) ==
    LET target == IF o = Keep THEN owner[p] ELSE o
        nextDraft == IF isDraft = Keep THEN draft[p] ELSE isDraft
    IN
    /\ Begin(r, "update")
    /\ row[p] = "live"
    /\ ~ nextDraft => ~ Taken(target, p)
    /\ ValidRelations(target, new)
    /\ Enter(r, "write",
             [Nothing EXCEPT !.who = {p}, !.org = o, !.draft = nextDraft, !.new = new,
                             !.given = IF target # owner[p] THEN KindsInUse ELSE given,
                             !.want = IF nextDraft THEN FALSE ELSE want,
                             !.had = Missing(ConditionsIn(uses, p))])
    /\ UNCHANGED rows

\* Mutant: the relations are replaced before the policy row is locked.
UpdateWriteUnlocked(r, p) ==
    LET q == req[r]
        deleted == RowsOf({p}, q.given)
        on == IF q.want = Keep THEN active[p] ELSE q.want
    IN
    /\ pc[r] = "write"
    /\ q.who = {p}
    /\ Enter(r, "commit",
             [q EXCEPT !.seen = deleted,
                       !.want = Activation(ConditionsIn(View(r, deleted), p), q.had, on)])
    /\ UNCHANGED rows

\* The writes: the policy row first, which takes its lock, then the relations
\* and the activation rule.
UpdateWrite(r, p) ==
    LET q == req[r]
        deleted == RowsOf({p}, q.given)
        on == IF q.want = Keep THEN active[p] ELSE q.want
    IN
    /\ pc[r] = "write"
    /\ q.who = {p}
    /\ Free(r, {p})
    /\ Enter(r, "commit",
             [q EXCEPT !.seen = deleted,
                       !.want = Activation(ConditionsIn(View(r, deleted), p), q.had, on)])
    /\ UNCHANGED rows

\* Mutant: an owner the request leaves out is written like any other.
UpdateCommitOwner(r, p) ==
    LET q == req[r] IN
    /\ pc[r] = "commit"
    /\ q.who = {p}
    /\ uses' = View(r, q.seen)
    /\ active' = [active EXCEPT ![p] = q.want]
    /\ draft' = [draft EXCEPT ![p] = q.draft]
    /\ owner' = [owner EXCEPT ![p] = q.org]
    /\ Finish(r)
    /\ UNCHANGED <<row, home, kept>>

UpdateCommit(r, p) ==
    LET q == req[r] IN
    /\ pc[r] = "commit"
    /\ q.who = {p}
    /\ uses' = View(r, q.seen)
    /\ active' = [active EXCEPT ![p] = q.want]
    /\ draft' = [draft EXCEPT ![p] = q.draft]
    /\ owner' = [owner EXCEPT ![p] = IF q.org = Keep THEN @ ELSE q.org]
    /\ Finish(r)
    /\ UNCHANGED <<row, home, kept>>

\* assignZones, assignTimePolicies, assignBehaviorConditions, assignAllowedApps:
\* everything is read before the transaction.  They look for the policy without
\* naming the user, so that they never find a draft.
AssignRead(r, p, kind, new) ==
    /\ Begin(r, "assign")
    /\ Published(p)
    /\ ValidRelations(owner[p], new)
    /\ Enter(r, "assign", [Nothing EXCEPT !.who = {p}, !.given = {kind}, !.new = new,
                                          !.had = Missing(ConditionsIn(uses, p))])
    /\ UNCHANGED rows

\* The policy row is written, and locked, only if its activation changes.
AssignWrite(r, p) ==
    LET q == req[r]
        deleted == RowsOf({p}, q.given)
        on == Activation(ConditionsIn(View(r, deleted), p), q.had, active[p])
    IN
    /\ pc[r] = "assign"
    /\ q.who = {p}
    /\ on # active[p] => Free(r, {p})
    /\ Enter(r, "assigned", [q EXCEPT !.seen = deleted,
                                      !.want = IF on = active[p] THEN Keep ELSE on])
    /\ UNCHANGED rows

AssignCommit(r, p) ==
    LET q == req[r] IN
    /\ pc[r] = "assigned"
    /\ q.who = {p}
    /\ uses' = View(r, q.seen)
    /\ active' = [active EXCEPT ![p] = IF q.want = Keep THEN @ ELSE q.want]
    /\ Finish(r)
    /\ UNCHANGED <<row, owner, draft, home, kept>>

-----------------------------------------------------------------------------
(* Activation: toggleActive and bulkSetActive. *)

ToggleRead(r, p) ==
    /\ Begin(r, "toggle")
    /\ Published(p)
    /\ ~ active[p] => ~ Missing(ConditionsIn(uses, p))
    /\ Enter(r, "toggle", [Nothing EXCEPT !.who = {p}, !.want = ~ active[p]])
    /\ UNCHANGED rows

ToggleWrite(r, p) ==
    /\ pc[r] = "toggle"
    /\ req[r].who = {p}
    /\ Free(r, {p})
    /\ active' = [active EXCEPT ![p] = req[r].want]
    /\ Finish(r)
    /\ UNCHANGED <<row, owner, draft, uses, home, kept>>

BulkRead(r, ps, on) ==
    LET changed == {p \in ps : /\ Published(p) /\ active[p] # on
                               /\ on => ~ Missing(ConditionsIn(uses, p))}
    IN
    /\ Begin(r, "bulk")
    /\ changed # {}
    /\ Enter(r, "bulk", [Nothing EXCEPT !.who = changed, !.want = on])
    /\ UNCHANGED rows

BulkWrite(r) ==
    /\ pc[r] = "bulk"
    /\ Free(r, req[r].who)
    /\ active' = [p \in Policy |-> IF p \in req[r].who /\ row[p] = "live"
                                   THEN req[r].want ELSE active[p]]
    /\ Finish(r)
    /\ UNCHANGED <<row, owner, draft, uses, home, kept>>

-----------------------------------------------------------------------------
(* Deletion: remove (one policy) and bulkRemove. *)

RemoveRead(r, ps) ==
    /\ Begin(r, "remove")
    /\ ps # {}
    /\ \A p \in ps : row[p] = "live"
    /\ Enter(r, "remove", [Nothing EXCEPT !.who = ps])
    /\ UNCHANGED rows

\* The relations go first, without a lock on the policy.
RemoveRelations(r) ==
    /\ pc[r] = "remove"
    /\ Enter(r, "removing",
             [req[r] EXCEPT !.seen = RowsOf(req[r].who, ConditionKind)])
    /\ UNCHANGED rows

RemoveCommit(r) ==
    LET q == req[r] IN
    /\ pc[r] = "removing"
    /\ Free(r, q.who)
    /\ uses' = uses \ q.seen
    /\ row' = [p \in Policy |-> IF p \in q.who THEN "deleted" ELSE row[p]]
    /\ active' = [p \in Policy |-> p \notin q.who /\ active[p]]
    /\ Finish(r)
    /\ UNCHANGED <<owner, draft, home, kept>>

-----------------------------------------------------------------------------
(* The services of the conditions. *)

\* remove of a zone, a time policy, a behavior condition or an app preset.
DropRead(r, c) ==
    /\ Begin(r, "drop")
    /\ c \in kept
    /\ Enter(r, "drop", [Nothing EXCEPT !.cond = c])
    /\ UNCHANGED rows

\* Mutant: the policies are not reviewed.
DropWriteUnreviewed(r) ==
    /\ pc[r] = "drop"
    /\ Enter(r, "dropping", [req[r] EXCEPT !.seen = {u \in uses : u[2] = req[r].cond}])
    /\ UNCHANGED rows

\* The transaction deletes the relations, then looks at the policies that had
\* them and switches off those that are incomplete now.
DropWrite(r) ==
    LET deleted == {u \in uses : u[2] = req[r].cond}
        incomplete == {p \in Policy : /\ <<p, req[r].cond>> \in deleted
                                      /\ NeedsReview(ConditionsIn(uses \ deleted, p))}
    IN
    /\ pc[r] = "drop"
    /\ Free(r, incomplete)
    /\ Enter(r, "dropping", [req[r] EXCEPT !.seen = deleted, !.off = incomplete])
    /\ UNCHANGED rows

DropCommit(r) ==
    /\ pc[r] = "dropping"
    /\ uses' = uses \ req[r].seen
    /\ kept' = kept \ {req[r].cond}
    /\ active' = [p \in Policy |-> p \notin req[r].off /\ active[p]]
    /\ Finish(r)
    /\ UNCHANGED <<row, owner, draft, home>>

\* update of a condition that moves it to another organization: the row is
\* updated on its own, its relations are revisited in a later transaction.
MoveRead(r, c, o) ==
    /\ Begin(r, "move")
    /\ c \in kept
    /\ home[c] # o
    /\ Enter(r, "move", [Nothing EXCEPT !.cond = c, !.org = o])
    /\ UNCHANGED rows

MoveCommit(r) ==
    /\ pc[r] = "move"
    /\ home' = [home EXCEPT ![req[r].cond] = req[r].org]
    /\ pc' = [pc EXCEPT ![r] = "detach"]
    /\ UNCHANGED <<row, owner, draft, active, uses, kept, req>>

\* detachInvalidRelationsForMovedResourceTx
DetachWrite(r) ==
    LET invalid == {p \in Policy : /\ <<p, req[r].cond>> \in uses
                                   /\ row[p] # "deleted"
                                   /\ req[r].org \notin Sources[owner[p]]}
        deleted == invalid \X {req[r].cond}
        switchedOff == {p \in invalid :
                           active[p] \/ NeedsReview(ConditionsIn(uses \ deleted, p))}
    IN
    /\ pc[r] = "detach"
    /\ Free(r, switchedOff)
    /\ Enter(r, "detaching", [req[r] EXCEPT !.seen = deleted, !.off = switchedOff])
    /\ UNCHANGED rows

DetachCommit(r) ==
    /\ pc[r] = "detaching"
    /\ uses' = uses \ req[r].seen
    /\ active' = [p \in Policy |-> p \notin req[r].off /\ active[p]]
    /\ Finish(r)
    /\ UNCHANGED <<row, owner, draft, home, kept>>

-----------------------------------------------------------------------------
\* The relations a request names: the conditions of the kinds it replaces.
Choices(given) == SUBSET {c \in Condition : KindOf[c] \in given}

Next ==
    \E r \in Request :
        \/ \E o \in Org, d, w \in BOOLEAN, new \in SUBSET Condition :
               CreateCheck(r, o, d, w, new)
        \/ \E p \in Policy : CreateCommit(r, p)
        \/ \E p \in Policy, o \in Org \cup {Keep}, d, w \in BOOLEAN \cup {Keep},
              given \in SUBSET KindsInUse :
               \E new \in Choices(given) : UpdateRead(r, p, o, d, w, given, new)
        \/ \E p \in Policy : UpdateWrite(r, p)
        \/ \E p \in Policy : UpdateCommit(r, p)
        \/ \E p \in Policy, kind \in KindsInUse :
               \E new \in Choices({kind}) : AssignRead(r, p, kind, new)
        \/ \E p \in Policy : AssignWrite(r, p)
        \/ \E p \in Policy : AssignCommit(r, p)
        \/ \E p \in Policy : ToggleRead(r, p)
        \/ \E p \in Policy : ToggleWrite(r, p)
        \/ \E ps \in SUBSET Policy, on \in BOOLEAN : BulkRead(r, ps, on)
        \/ BulkWrite(r)
        \/ \E ps \in SUBSET Policy : RemoveRead(r, ps)
        \/ RemoveRelations(r)
        \/ RemoveCommit(r)
        \/ \E c \in Condition : DropRead(r, c)
        \/ DropWrite(r)
        \/ DropCommit(r)
        \/ \E c \in Condition, o \in Org : MoveRead(r, c, o)
        \/ MoveCommit(r)
        \/ DetachWrite(r)
        \/ DetachCommit(r)

Spec == Init /\ [][Next]_vars

-----------------------------------------------------------------------------
(* Properties. *)

TypeOK ==
    /\ row \in [Policy -> {"absent", "live", "deleted"}]
    /\ owner \in [Policy -> Org]
    /\ draft \in [Policy -> BOOLEAN]
    /\ active \in [Policy -> BOOLEAN]
    /\ uses \subseteq Policy \X Condition
    /\ home \in [Condition -> Org]
    /\ kept \subseteq Condition
    /\ pc \in [Request -> Steps]
    /\ req \in [Request -> ReqType]

\* toggleActive, applyRequiredConditionActivationPolicy: a policy in force has
\* a zone and a time condition, whichever of them was removed, moved or
\* replaced since it was switched on.
ActiveComplete ==
    \A p \in Policy : active[p] => row[p] = "live" /\ ~ Missing(ConditionsIn(uses, p))

\* ensureSingleSelectionConstraints: one time and one behavior condition.
SingleSelection ==
    \A p \in Policy, kind \in {"time", "behavior"} :
        Cardinality({c \in ConditionsIn(uses, p) : KindOf[c] = kind}) <= 1

\* update: with requests overlapping, the lock on the policy's row keeps both.
LockKeepsRules == ActiveComplete /\ SingleSelection

\* create and update: an organization has one published policy.
OnePublished ==
    \A p, q \in Policy : Published(p) /\ Published(q) /\ owner[p] = owner[q] => p = q

\* No relation row survives its policy or its condition.
NoDanglingUse == \A u \in uses : row[u[1]] = "live" /\ u[2] \in kept

\* A policy uses conditions of its own organization and of those above it; a
\* condition that has just moved is being detached.
UsesInScope ==
    \A u \in uses : \/ home[u[2]] \in Sources[owner[u[1]]]
                    \/ \E r \in Request : /\ pc[r] \in {"detach", "detaching"}
                                          /\ req[r].cond = u[2]

\* remove, update, the removals of conditions: what a relation row says is usable.
UsesFit == NoDanglingUse /\ UsesInScope

\* The message toggleActive refuses with: a policy in force also has a behavior
\* condition or an app preset.
ActiveFull ==
    \A p \in Policy : active[p] => ~ NeedsReview(ConditionsIn(uses, p))

\* update takes a draft out of force before it looks at its conditions; a draft
\* whose conditions it completes is in force again.
DraftInactive == \A p \in Policy : draft[p] => ~ active[p]
=============================================================================
