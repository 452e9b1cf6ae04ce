------------------------- MODULE ControlPoliciesProofs -------------------------
(***************************************************************************)
(* Control policies, for any organizations, policies, conditions and        *)
(* requests.  Creates and updates may overlap: the lock of a policy's row    *)
(* keeps them apart.  The other operations lock no row before they read, and  *)
(* what they keep, they keep one at a time.                                  *)
(***************************************************************************)
EXTENDS ControlPolicies, FiniteSetTheorems, TLAPS

RowsTyped ==
    /\ row \in [Policy -> {"absent", "live", "deleted"}]
    /\ owner \in [Policy -> Org]
    /\ draft \in [Policy -> BOOLEAN]
    /\ active \in [Policy -> BOOLEAN]
    /\ uses \subseteq Policy \X Condition
    /\ home \in [Condition -> Org]
    /\ kept \subseteq Condition

\* The fields a step goes by are given.
Given(step, q) ==
    /\ step = "insert" => q.org \in Org
    /\ step \in {"insert", "write", "commit"} => q.draft \in BOOLEAN
    /\ step \in {"insert", "commit", "toggle", "bulk"} => q.want \in BOOLEAN
    /\ step \in {"drop", "dropping", "move", "detach", "detaching"} => q.cond \in Condition
    /\ step \in {"move", "detach", "detaching"} => q.org \in Org

RequestsTyped ==
    /\ pc \in [Request -> Steps]
    /\ req \in [Request -> ReqType]
    /\ \A r \in Request : Given(pc[r], req[r])

Types == RowsTyped /\ RequestsTyped

-----------------------------------------------------------------------------
(* Types.                                                                   *)

LEMMA NothingTyped == Nothing \in ReqType /\ Given("idle", Nothing)
BY DEF Nothing, ReqType, Given

LEMMA EnterTyped ==
    ASSUME RequestsTyped, NEW r \in Request, NEW step \in Steps, NEW d \in ReqType,
           Given(step, d), Enter(r, step, d)
    PROVE  RequestsTyped'
BY DEF RequestsTyped, Enter

LEMMA FinishTyped ==
    ASSUME RequestsTyped, NEW r \in Request, Finish(r)
    PROVE  RequestsTyped'
<1>1. "idle" \in Steps
    BY DEF Steps
<1> QED BY <1>1, NothingTyped, EnterTyped DEF Finish

\* A step that only reads or prepares.
LEMMA ReadTyped ==
    ASSUME Types, NEW r \in Request, NEW step \in Steps, NEW d \in ReqType,
           Given(step, d), Enter(r, step, d), UNCHANGED rows
    PROVE  Types'
<1>1. RequestsTyped'
    BY EnterTyped DEF Types
<1>2. RowsTyped'
    BY DEF Types, RowsTyped, rows
<1> QED BY <1>1, <1>2 DEF Types

LEMMA CreateTyped ==
    ASSUME Types, NEW r \in Request, NEW o \in Org, NEW d \in BOOLEAN, NEW w \in BOOLEAN,
           NEW new \in SUBSET Condition, CreateCheck(r, o, d, w, new)
    PROVE  Types'
<1> DEFINE x == (~ d /\ w)
           q == [Nothing EXCEPT !.org = o, !.draft = d, !.new = new, !.want = x]
<1>1. x \in BOOLEAN
    OBVIOUS
<1>2. Enter(r, "insert", q) /\ UNCHANGED rows
    BY DEF CreateCheck
<1> HIDE DEF x
<1>3. q \in ReqType /\ q.org = o /\ q.draft = d /\ q.want = x
    BY <1>1 DEF Nothing, ReqType
<1> HIDE DEF q
<1>4. Given("insert", q) /\ "insert" \in Steps
    BY <1>1, <1>3 DEF Given, Steps
<1> QED BY <1>2, <1>3, <1>4, ReadTyped

LEMMA CreateCommitTyped ==
    ASSUME Types, NEW r \in Request, NEW p \in Policy, CreateCommit(r, p)
    PROVE  Types'
<1>1. /\ req[r] \in ReqType /\ req[r].org \in Org
      /\ req[r].draft \in BOOLEAN /\ req[r].want \in BOOLEAN
    BY DEF Types, RequestsTyped, Given, CreateCommit
<1>2. req[r].new \subseteq Condition
    BY <1>1 DEF ReqType
<1>3. /\ row' \in [Policy -> {"absent", "live", "deleted"}]
      /\ owner' \in [Policy -> Org]
      /\ uses' \subseteq Policy \X Condition
    BY <1>1, <1>2 DEF CreateCommit, Types, RowsTyped
<1>4. draft' \in [Policy -> BOOLEAN] /\ active' \in [Policy -> BOOLEAN]
    BY <1>1 DEF CreateCommit, Types, RowsTyped
<1>5. RequestsTyped'
    BY FinishTyped DEF CreateCommit, Types
<1> QED BY <1>3, <1>4, <1>5 DEF CreateCommit, Types, RowsTyped

\* What a request is about, as its fields are.
LEMMA FieldsTyped ==
    ASSUME Types, NEW r \in Request
    PROVE  /\ req[r] \in ReqType /\ Given(pc[r], req[r])
           /\ req[r].who \subseteq Policy /\ req[r].new \subseteq Condition
           /\ req[r].seen \subseteq Policy \X Condition /\ req[r].off \subseteq Policy
BY DEF Types, RequestsTyped, ReqType

LEMMA UpdateTyped ==
    ASSUME PolicyAssumption, Types, NEW r \in Request, NEW p \in Policy,
           NEW o \in Org \cup {Keep}, NEW d \in BOOLEAN \cup {Keep},
           NEW w \in BOOLEAN \cup {Keep}, NEW given \in SUBSET KindsInUse,
           NEW new \in SUBSET Condition, UpdateRead(r, p, o, d, w, given, new)
    PROVE  Types'
<1> DEFINE target == IF o = Keep THEN owner[p] ELSE o
           next == IF d = Keep THEN draft[p] ELSE d
           kinds == IF target # owner[p] THEN KindsInUse ELSE given
           want == IF next THEN FALSE ELSE w
           had == Missing(ConditionsIn(uses, p))
           q == [Nothing EXCEPT !.who = {p}, !.org = o, !.draft = next, !.new = new,
                                !.given = kinds, !.want = want, !.had = had]
<1>1. next \in BOOLEAN /\ want \in BOOLEAN \cup {Keep}
    BY DEF Types, RowsTyped
<1>2. kinds \subseteq ConditionKind
    BY DEF KindsInUse, PolicyAssumption
<1>3. had \in BOOLEAN
    BY DEF Missing, Lacks
<1>4. Enter(r, "write", q) /\ UNCHANGED rows
    BY DEF UpdateRead
<1> HIDE DEF next, kinds, want, had
<1>5. q \in ReqType /\ q.draft = next
    BY <1>1, <1>2, <1>3 DEF Nothing, ReqType
<1> HIDE DEF q
<1>6. Given("write", q) /\ "write" \in Steps
    BY <1>1, <1>5 DEF Given, Steps
<1> QED BY <1>4, <1>5, <1>6, ReadTyped

\* The rule for the flag gives a flag.
LEMMA ActivationTyped ==
    ASSUME NEW C, NEW had \in BOOLEAN, NEW on \in BOOLEAN
    PROVE  /\ Activation(C, had, on) \in BOOLEAN
           /\ Activation(C, had, on) = TRUE => ~ Missing(C)
BY DEF Activation

LEMMA UpdateWriteTyped ==
    ASSUME Types, NEW r \in Request, NEW p \in Policy, UpdateWrite(r, p)
    PROVE  Types'
<1> DEFINE q == req[r]
           deleted == RowsOf({p}, q.given)
           on == IF q.want = Keep THEN active[p] ELSE q.want
           want == Activation(ConditionsIn(View(r, deleted), p), q.had, on)
           d == [q EXCEPT !.seen = deleted, !.want = want]
<1>1. q \in ReqType /\ Given("write", q)
    BY FieldsTyped DEF UpdateWrite
<1>2. deleted \subseteq Policy \X Condition
    BY DEF RowsOf, Types, RowsTyped
<1>3. on \in BOOLEAN /\ q.had \in BOOLEAN
    BY <1>1 DEF ReqType, Types, RowsTyped
<1>4. Enter(r, "commit", d) /\ UNCHANGED rows
    BY DEF UpdateWrite
<1> HIDE DEF q, deleted, on
<1>5. want \in BOOLEAN
    BY <1>3, ActivationTyped
<1> HIDE DEF want
<1>6. d \in ReqType /\ d.draft = q.draft /\ d.want = want
    BY <1>1, <1>2, <1>5 DEF ReqType
<1> HIDE DEF d
<1>7. Given("commit", d) /\ "commit" \in Steps
    BY <1>1, <1>5, <1>6 DEF Given, Steps
<1> QED BY <1>4, <1>6, <1>7, ReadTyped

\* The relations as a transaction sees them are relations.
LEMMA ViewTyped ==
    ASSUME Types, NEW r \in Request, NEW deleted
    PROVE  View(r, deleted) \subseteq Policy \X Condition
BY FieldsTyped DEF View, Types, RowsTyped

LEMMA UpdateCommitTyped ==
    ASSUME Types, NEW r \in Request, NEW p \in Policy, UpdateCommit(r, p)
    PROVE  Types'
<1>1. req[r] \in ReqType /\ req[r].draft \in BOOLEAN /\ req[r].want \in BOOLEAN
    BY FieldsTyped DEF Given, UpdateCommit
<1>2. uses' \subseteq Policy \X Condition
    BY ViewTyped DEF UpdateCommit
<1>3. owner' \in [Policy -> Org]
    BY <1>1 DEF UpdateCommit, ReqType, Types, RowsTyped
<1>4. draft' \in [Policy -> BOOLEAN] /\ active' \in [Policy -> BOOLEAN]
    BY <1>1 DEF UpdateCommit, Types, RowsTyped
<1>5. RequestsTyped'
    BY FinishTyped DEF UpdateCommit, Types
<1> QED BY <1>2, <1>3, <1>4, <1>5 DEF UpdateCommit, Types, RowsTyped

LEMMA AssignTyped ==
    ASSUME PolicyAssumption, Types, NEW r \in Request, NEW p \in Policy,
           NEW kind \in KindsInUse, NEW new \in SUBSET Condition, AssignRead(r, p, kind, new)
    PROVE  Types'
<1> DEFINE had == Missing(ConditionsIn(uses, p))
           q == [Nothing EXCEPT !.who = {p}, !.given = {kind}, !.new = new, !.had = had]
<1>1. had \in BOOLEAN
    BY DEF Missing, Lacks
<1>2. kind \in ConditionKind
    BY DEF KindsInUse, PolicyAssumption
<1>3. Enter(r, "assign", q) /\ UNCHANGED rows
    BY DEF AssignRead
<1> HIDE DEF had
<1>4. q \in ReqType
    BY <1>1, <1>2 DEF Nothing, ReqType
<1>5. Given("assign", q) /\ "assign" \in Steps
    BY DEF Given, Steps
<1> HIDE DEF q
<1> QED BY <1>3, <1>4, <1>5, ReadTyped

LEMMA AssignWriteTyped ==
    ASSUME Types, NEW r \in Request, NEW p \in Policy, AssignWrite(r, p)
    PROVE  Types'
<1> DEFINE q == req[r]
           deleted == RowsOf({p}, q.given)
           on == Activation(ConditionsIn(View(r, deleted), p), q.had, active[p])
           want == IF on = active[p] THEN Keep ELSE on
           d == [q EXCEPT !.seen = deleted, !.want = want]
<1>1. q \in ReqType
    BY FieldsTyped
<1>2. deleted \subseteq Policy \X Condition
    BY DEF RowsOf, Types, RowsTyped
<1>3. on \in BOOLEAN
    <2>1. active[p] \in BOOLEAN /\ q.had \in BOOLEAN
        BY <1>1 DEF ReqType, Types, RowsTyped
    <2> QED BY <2>1, ActivationTyped
<1>4. Enter(r, "assigned", d) /\ UNCHANGED rows
    BY DEF AssignWrite
<1> HIDE DEF q, deleted, on
<1>5. want \in BOOLEAN \cup {Keep}
    BY <1>3
<1> HIDE DEF want
<1>6. d \in ReqType
    BY <1>1, <1>2, <1>5 DEF ReqType
<1> HIDE DEF d
<1>7. Given("assigned", d) /\ "assigned" \in Steps
    BY DEF Given, Steps
<1> QED BY <1>4, <1>6, <1>7, ReadTyped

LEMMA AssignCommitTyped ==
    ASSUME Types, NEW r \in Request, NEW p \in Policy, AssignCommit(r, p)
    PROVE  Types'
<1>1. req[r].want \in BOOLEAN \cup {Keep}
    BY FieldsTyped DEF ReqType
<1>2. active' \in [Policy -> BOOLEAN]
    BY <1>1 DEF AssignCommit, Types, RowsTyped
<1>3. uses' \subseteq Policy \X Condition
    BY ViewTyped DEF AssignCommit
<1>4. RequestsTyped'
    BY FinishTyped DEF AssignCommit, Types
<1> QED BY <1>2, <1>3, <1>4 DEF AssignCommit, Types, RowsTyped

LEMMA ToggleTyped ==
    ASSUME Types, NEW r \in Request, NEW p \in Policy, ToggleRead(r, p)
    PROVE  Types'
<1> DEFINE want == ~ active[p]
           q == [Nothing EXCEPT !.who = {p}, !.want = want]
<1>1. Enter(r, "toggle", q) /\ UNCHANGED rows
    BY DEF ToggleRead
<1>2. want \in BOOLEAN
    OBVIOUS
<1> HIDE DEF want
<1>3. q \in ReqType /\ q.want = want
    BY <1>2 DEF Nothing, ReqType
<1> HIDE DEF q
<1>4. Given("toggle", q) /\ "toggle" \in Steps
    BY <1>2, <1>3 DEF Given, Steps
<1> QED BY <1>1, <1>3, <1>4, ReadTyped

LEMMA ToggleWriteTyped ==
    ASSUME Types, NEW r \in Request, NEW p \in Policy, ToggleWrite(r, p)
    PROVE  Types'
<1>1. req[r].want \in BOOLEAN
    BY FieldsTyped DEF Given, ToggleWrite
<1>2. active' \in [Policy -> BOOLEAN]
    BY <1>1 DEF ToggleWrite, Types, RowsTyped
<1>3. RequestsTyped'
    BY FinishTyped DEF ToggleWrite, Types
<1> QED BY <1>2, <1>3 DEF ToggleWrite, Types, RowsTyped

LEMMA BulkTyped ==
    ASSUME Types, NEW r \in Request, NEW ps \in SUBSET Policy, NEW on \in BOOLEAN,
           BulkRead(r, ps, on)
    PROVE  Types'
<1> DEFINE changed == {p \in ps : /\ Published(p) /\ active[p] # on
                                  /\ on => ~ Missing(ConditionsIn(uses, p))}
           q == [Nothing EXCEPT !.who = changed, !.want = on]
<1>1. Enter(r, "bulk", q) /\ UNCHANGED rows
    BY DEF BulkRead
<1>2. changed \subseteq Policy
    OBVIOUS
<1> HIDE DEF changed
<1>3. q \in ReqType /\ q.want = on
    BY <1>2 DEF Nothing, ReqType
<1> HIDE DEF q
<1>4. Given("bulk", q) /\ "bulk" \in Steps
    BY <1>3 DEF Given, Steps
<1> QED BY <1>1, <1>3, <1>4, ReadTyped

LEMMA BulkWriteTyped ==
    ASSUME Types, NEW r \in Request, BulkWrite(r)
    PROVE  Types'
<1>1. req[r].want \in BOOLEAN
    BY FieldsTyped DEF Given, BulkWrite
<1>2. active' \in [Policy -> BOOLEAN]
    BY <1>1 DEF BulkWrite, Types, RowsTyped
<1>3. RequestsTyped'
    BY FinishTyped DEF BulkWrite, Types
<1> QED BY <1>2, <1>3 DEF BulkWrite, Types, RowsTyped

LEMMA RemoveTyped ==
    ASSUME Types, NEW r \in Request, NEW ps \in SUBSET Policy, RemoveRead(r, ps)
    PROVE  Types'
<1> DEFINE q == [Nothing EXCEPT !.who = ps]
<1>1. Enter(r, "remove", q) /\ UNCHANGED rows
    BY DEF RemoveRead
<1>2. q \in ReqType
    BY DEF Nothing, ReqType
<1>3. Given("remove", q) /\ "remove" \in Steps
    BY DEF Given, Steps
<1> HIDE DEF q
<1> QED BY <1>1, <1>2, <1>3, ReadTyped

LEMMA RemoveRelationsTyped ==
    ASSUME Types, NEW r \in Request, RemoveRelations(r)
    PROVE  Types'
<1> DEFINE seen == RowsOf(req[r].who, ConditionKind)
           q == [req[r] EXCEPT !.seen = seen]
<1>1. Enter(r, "removing", q) /\ UNCHANGED rows
    BY DEF RemoveRelations
<1>2. seen \subseteq Policy \X Condition
    BY DEF RowsOf, Types, RowsTyped
<1> HIDE DEF seen
<1>3. q \in ReqType
    BY <1>2, FieldsTyped DEF ReqType
<1>4. Given("removing", q) /\ "removing" \in Steps
    BY DEF Given, Steps
<1> HIDE DEF q
<1> QED BY <1>1, <1>3, <1>4, ReadTyped

\* What a removal, a deleted condition and a detachment leave switched on.
LEMMA SwitchedOffTyped ==
    ASSUME NEW off
    PROVE  [p \in Policy |-> p \notin off /\ active[p]] \in [Policy -> BOOLEAN]
OBVIOUS

LEMMA RemoveCommitTyped ==
    ASSUME Types, NEW r \in Request, RemoveCommit(r)
    PROVE  Types'
<1>1. uses' \subseteq Policy \X Condition
    BY DEF RemoveCommit, Types, RowsTyped
<1>2. row' \in [Policy -> {"absent", "live", "deleted"}]
    BY DEF RemoveCommit, Types, RowsTyped
<1>3. active' \in [Policy -> BOOLEAN]
    BY SwitchedOffTyped DEF RemoveCommit
<1>4. RequestsTyped'
    BY FinishTyped DEF RemoveCommit, Types
<1> QED BY <1>1, <1>2, <1>3, <1>4 DEF RemoveCommit, Types, RowsTyped

LEMMA DropTyped ==
    ASSUME Types, NEW r \in Request, NEW c \in Condition, DropRead(r, c)
    PROVE  Types'
<1> DEFINE q == [Nothing EXCEPT !.cond = c]
<1>1. Enter(r, "drop", q) /\ UNCHANGED rows
    BY DEF DropRead
<1>2. q \in ReqType /\ q.cond = c
    BY DEF Nothing, ReqType
<1> HIDE DEF q
<1>3. Given("drop", q) /\ "drop" \in Steps
    BY <1>2 DEF Given, Steps
<1> QED BY <1>1, <1>2, <1>3, ReadTyped

LEMMA DropWriteTyped ==
    ASSUME Types, NEW r \in Request, DropWrite(r)
    PROVE  Types'
<1> DEFINE seen == {u \in uses : u[2] = req[r].cond}
           off == {p \in Policy : /\ <<p, req[r].cond>> \in seen
                                  /\ NeedsReview(ConditionsIn(uses \ seen, p))}
           q == [req[r] EXCEPT !.seen = seen, !.off = off]
<1>1. Enter(r, "dropping", q) /\ UNCHANGED rows
    BY DEF DropWrite
<1>2. seen \subseteq Policy \X Condition /\ off \subseteq Policy
    BY DEF Types, RowsTyped
<1>3. req[r] \in ReqType /\ req[r].cond \in Condition
    BY FieldsTyped DEF Given, DropWrite
<1> HIDE DEF seen, off
<1>4. q \in ReqType /\ q.cond = req[r].cond
    BY <1>2, <1>3 DEF ReqType
<1> HIDE DEF q
<1>5. Given("dropping", q) /\ "dropping" \in Steps
    BY <1>3, <1>4 DEF Given, Steps
<1> QED BY <1>1, <1>4, <1>5, ReadTyped

LEMMA DropCommitTyped ==
    ASSUME Types, NEW r \in Request, DropCommit(r)
    PROVE  Types'
<1>1. uses' \subseteq Policy \X Condition /\ kept' \subseteq Condition
    BY DEF DropCommit, Types, RowsTyped
<1>2. active' \in [Policy -> BOOLEAN]
    BY SwitchedOffTyped DEF DropCommit
<1>3. RequestsTyped'
    BY FinishTyped DEF DropCommit, Types
<1> QED BY <1>1, <1>2, <1>3 DEF DropCommit, Types, RowsTyped

LEMMA MoveTyped ==
    ASSUME Types, NEW r \in Request, NEW c \in Condition, NEW o \in Org, MoveRead(r, c, o)
    PROVE  Types'
<1> DEFINE q == [Nothing EXCEPT !.cond = c, !.org = o]
<1>1. Enter(r, "move", q) /\ UNCHANGED rows
    BY DEF MoveRead
<1>2. q \in ReqType /\ q.cond = c /\ q.org = o
    BY DEF Nothing, ReqType
<1> HIDE DEF q
<1>3. Given("move", q) /\ "move" \in Steps
    BY <1>2 DEF Given, Steps
<1> QED BY <1>1, <1>2, <1>3, ReadTyped

LEMMA MoveCommitTyped ==
    ASSUME Types, NEW r \in Request, MoveCommit(r)
    PROVE  Types'
<1>1. req[r].cond \in Condition /\ req[r].org \in Org
    BY FieldsTyped DEF Given, MoveCommit
<1>2. home' \in [Condition -> Org]
    BY <1>1 DEF MoveCommit, Types, RowsTyped
<1>3. Given("detach", req[r]) /\ "detach" \in Steps
    BY <1>1 DEF Given, Steps
<1>4. RequestsTyped'
    BY <1>3 DEF MoveCommit, Types, RequestsTyped
<1> QED BY <1>2, <1>4 DEF MoveCommit, Types, RowsTyped

LEMMA DetachWriteTyped ==
    ASSUME Types, NEW r \in Request, DetachWrite(r)
    PROVE  Types'
<1> DEFINE invalid == {p \in Policy : /\ <<p, req[r].cond>> \in uses
                                      /\ row[p] # "deleted"
                                      /\ req[r].org \notin Sources[owner[p]]}
           seen == invalid \X {req[r].cond}
           off == {p \in invalid : active[p] \/ NeedsReview(ConditionsIn(uses \ seen, p))}
           q == [req[r] EXCEPT !.seen = seen, !.off = off]
<1>1. Enter(r, "detaching", q) /\ UNCHANGED rows
    BY DEF DetachWrite
<1>2. req[r] \in ReqType /\ req[r].cond \in Condition /\ req[r].org \in Org
    BY FieldsTyped DEF Given, DetachWrite
<1>3. seen \subseteq Policy \X Condition /\ off \subseteq Policy
    BY <1>2
<1> HIDE DEF seen, off
<1>4. q \in ReqType /\ q.cond = req[r].cond /\ q.org = req[r].org
    BY <1>2, <1>3 DEF ReqType
<1> HIDE DEF q
<1>5. Given("detaching", q) /\ "detaching" \in Steps
    BY <1>2, <1>4 DEF Given, Steps
<1> QED BY <1>1, <1>4, <1>5, ReadTyped

LEMMA DetachCommitTyped ==
    ASSUME Types, NEW r \in Request, DetachCommit(r)
    PROVE  Types'
<1>1. uses' \subseteq Policy \X Condition
    BY DEF DetachCommit, Types, RowsTyped
<1>2. active' \in [Policy -> BOOLEAN]
    BY SwitchedOffTyped DEF DetachCommit
<1>3. RequestsTyped'
    BY FinishTyped DEF DetachCommit, Types
<1> QED BY <1>1, <1>2, <1>3 DEF DetachCommit, Types, RowsTyped

LEMMA TypesInit ==
    ASSUME PolicyAssumption, Init
    PROVE  Types
<1>1. RowsTyped
    BY DEF Init, RowsTyped, PolicyAssumption
<1>2. RequestsTyped
    BY NothingTyped DEF Init, RequestsTyped, Steps
<1> QED BY <1>1, <1>2 DEF Types

\* The steps of one request, by operation.
StepOf(r) ==
    \/ \E o \in Org, d \in BOOLEAN, w \in BOOLEAN, new \in SUBSET Condition :
           CreateCheck(r, o, d, w, new)
    \/ \E p \in Policy : CreateCommit(r, p)
    \/ \E p \in Policy, o \in Org \cup {Keep}, d \in BOOLEAN \cup {Keep},
          w \in BOOLEAN \cup {Keep}, given \in SUBSET KindsInUse :
           \E new \in Choices(given) : UpdateRead(r, p, o, d, w, given, new)
    \/ \E p \in Policy : UpdateWrite(r, p) \/ UpdateCommit(r, p)
    \/ \E p \in Policy, kind \in KindsInUse :
           \E new \in Choices({kind}) : AssignRead(r, p, kind, new)
    \/ \E p \in Policy : AssignWrite(r, p) \/ AssignCommit(r, p)
    \/ \E p \in Policy : ToggleRead(r, p) \/ ToggleWrite(r, p)
    \/ \E ps \in SUBSET Policy, on \in BOOLEAN : BulkRead(r, ps, on)
    \/ BulkWrite(r)
    \/ \E ps \in SUBSET Policy : RemoveRead(r, ps)
    \/ RemoveRelations(r) \/ RemoveCommit(r)
    \/ \E c \in Condition : DropRead(r, c)
    \/ DropWrite(r) \/ DropCommit(r)
    \/ \E c \in Condition, o \in Org : MoveRead(r, c, o)
    \/ MoveCommit(r) \/ DetachWrite(r) \/ DetachCommit(r)

LEMMA NextIsStep == Next => \E r \in Request : StepOf(r)
<1> SUFFICES ASSUME Next PROVE \E r \in Request : StepOf(r)
    OBVIOUS
<1> QED BY Zenon DEF Next, StepOf

LEMMA TypesStep ==
    ASSUME PolicyAssumption, Types, NEW r \in Request, StepOf(r)
    PROVE  Types'
<1>1. CASE \E o \in Org, d \in BOOLEAN, w \in BOOLEAN, new \in SUBSET Condition :
               CreateCheck(r, o, d, w, new)
    BY <1>1, CreateTyped
<1>2. CASE \E p \in Policy : CreateCommit(r, p)
    BY <1>2, CreateCommitTyped
<1>3. CASE \E p \in Policy, o \in Org \cup {Keep}, d \in BOOLEAN \cup {Keep},
              w \in BOOLEAN \cup {Keep}, given \in SUBSET KindsInUse :
               \E new \in Choices(given) : UpdateRead(r, p, o, d, w, given, new)
    BY <1>3, UpdateTyped DEF Choices
<1>4. CASE \E p \in Policy : UpdateWrite(r, p) \/ UpdateCommit(r, p)
    BY <1>4, UpdateWriteTyped, UpdateCommitTyped
<1>5. CASE \E p \in Policy, kind \in KindsInUse :
               \E new \in Choices({kind}) : AssignRead(r, p, kind, new)
    BY <1>5, AssignTyped DEF Choices
<1>6. CASE \E p \in Policy : AssignWrite(r, p) \/ AssignCommit(r, p)
    BY <1>6, AssignWriteTyped, AssignCommitTyped
<1>7. CASE \E p \in Policy : ToggleRead(r, p) \/ ToggleWrite(r, p)
    BY <1>7, ToggleTyped, ToggleWriteTyped
<1>8. CASE \/ \E ps \in SUBSET Policy, on \in BOOLEAN : BulkRead(r, ps, on)
           \/ BulkWrite(r)
    BY <1>8, BulkTyped, BulkWriteTyped
<1>9. CASE \/ \E ps \in SUBSET Policy : RemoveRead(r, ps)
           \/ RemoveRelations(r) \/ RemoveCommit(r)
    BY <1>9, RemoveTyped, RemoveRelationsTyped, RemoveCommitTyped
<1>10. CASE \/ \E c \in Condition : DropRead(r, c)
            \/ DropWrite(r) \/ DropCommit(r)
    BY <1>10, DropTyped, DropWriteTyped, DropCommitTyped
<1>11. CASE \/ \E c \in Condition, o \in Org : MoveRead(r, c, o)
            \/ MoveCommit(r) \/ DetachWrite(r) \/ DetachCommit(r)
    BY <1>11, MoveTyped, MoveCommitTyped, DetachWriteTyped, DetachCommitTyped
<1> QED BY <1>1, <1>2, <1>3, <1>4, <1>5, <1>6, <1>7, <1>8, <1>9, <1>10, <1>11 DEF StepOf

LEMMA TypesNext ==
    ASSUME PolicyAssumption, Types, [Next]_vars
    PROVE  Types'
<1>1. CASE UNCHANGED vars
    BY <1>1 DEF vars, Types, RowsTyped, RequestsTyped
<1>2. CASE Next
    BY <1>2, NextIsStep, TypesStep
<1> QED BY <1>1, <1>2

LEMMA TypesInvariant == ASSUME PolicyAssumption PROVE Spec => []Types
<1>1. Init => Types
    BY TypesInit
<1>2. Types /\ [Next]_vars => Types'
    BY TypesNext
<1> QED BY <1>1, <1>2, PTL DEF Spec

\* Every column, every relation row and every request is of its type in every
\* reachable state: no transaction writes a field its request does not have.
THEOREM PolicyTypes == ASSUME PolicyAssumption PROVE Spec => []TypeOK
<1>1. Types => TypeOK
    BY DEF Types, RowsTyped, RequestsTyped, TypeOK
<1> QED BY <1>1, TypesInvariant, PTL

-----------------------------------------------------------------------------
(* Replacing the conditions of a policy.                                    *)

\* At most one time condition and one behavior condition.
Single(conditions) ==
    \A kind \in {"time", "behavior"} :
        Cardinality({c \in conditions : KindOf[c] = kind}) <= 1

\* What is left of the conditions when those of the given kinds are replaced.
Replace(conditions, given, new) == {c \in conditions : KindOf[c] \notin given} \cup new

\* Of each kind, the replaced set has what the request named or what there was.
LEMMA SingleReplaced ==
    ASSUME NEW A, NEW N, NEW given, Single(A), Single(N), \A c \in N : KindOf[c] \in given
    PROVE  Single(Replace(A, given, N))
<1> DEFINE C == Replace(A, given, N)
<1>1. ASSUME NEW kind \in {"time", "behavior"}
      PROVE  \/ {c \in C : KindOf[c] = kind} = {c \in N : KindOf[c] = kind}
             \/ {c \in C : KindOf[c] = kind} = {c \in A : KindOf[c] = kind}
    <2>1. CASE kind \in given
        <3>1. {c \in C : KindOf[c] = kind} = {c \in N : KindOf[c] = kind}
            BY <2>1 DEF Replace
        <3> QED BY <3>1
    <2>2. CASE kind \notin given
        <3>1. {c \in C : KindOf[c] = kind} = {c \in A : KindOf[c] = kind}
            BY <2>2 DEF Replace
        <3> QED BY <3>1
    <2> QED BY <2>1, <2>2
<1> HIDE DEF C
<1>2. ASSUME NEW kind \in {"time", "behavior"}
      PROVE  Cardinality({c \in C : KindOf[c] = kind}) <= 1
    <2>1. /\ Cardinality({c \in N : KindOf[c] = kind}) <= 1
          /\ Cardinality({c \in A : KindOf[c] = kind}) <= 1
        BY DEF Single
    <2> QED BY <1>1, <2>1
<1>3. Single(C)
    BY <1>2 DEF Single
<1> QED BY <1>3 DEF C

\* What a transaction on one policy sees: of that policy, what it keeps and what
\* the request names; of every other policy, what there is.
LEMMA ViewOwn ==
    ASSUME Types, NEW r \in Request, NEW p \in Policy, req[r].who = {p}
    PROVE  ConditionsIn(View(r, RowsOf({p}, req[r].given)), p) =
               Replace(ConditionsIn(uses, p), req[r].given, req[r].new)
<1>1. req[r].new \subseteq Condition
    BY FieldsTyped
<1>2. uses \subseteq Policy \X Condition
    BY DEF Types, RowsTyped
<1> DEFINE d == RowsOf({p}, req[r].given)
<1>3. \A x \in uses : x \in d <=> x[1] = p /\ KindOf[x[2]] \in req[r].given
    BY DEF RowsOf
<1>4. View(r, d) = (uses \ d) \cup ({p} \X req[r].new)
    BY DEF View
<1> HIDE DEF d
<1>5. ConditionsIn(View(r, d), p) =
          Replace(ConditionsIn(uses, p), req[r].given, req[r].new)
    BY <1>1, <1>2, <1>3, <1>4 DEF ConditionsIn, Replace
<1> QED BY <1>5 DEF d

LEMMA ViewOthers ==
    ASSUME Types, NEW r \in Request, NEW p \in Policy, req[r].who = {p},
           NEW q \in Policy \ {p}
    PROVE  ConditionsIn(View(r, RowsOf({p}, req[r].given)), q) = ConditionsIn(uses, q)
BY DEF ConditionsIn, View, RowsOf, Types, RowsTyped

\* Conditions are never missing because there are more of them.
LEMMA MoreIsComplete ==
    ASSUME NEW C, NEW D, C \subseteq D, ~ Missing(C)
    PROVE  ~ Missing(D)
BY DEF Missing, Lacks

\* The relations of one policy decide what a transaction on it has deleted.
LEMMA SameRows ==
    ASSUME Types, Types', NEW p \in Policy, NEW given,
           ConditionsIn(uses', p) = ConditionsIn(uses, p)
    PROVE  RowsOf({p}, given)' = RowsOf({p}, given)
<1>1. ASSUME NEW u \in Policy \X Condition, u[1] = p
      PROVE  u \in uses <=> u \in uses'
    <2>1. u = <<p, u[2]>> /\ u[2] \in Condition
        BY <1>1
    <2> QED BY <2>1 DEF ConditionsIn
<1> QED BY <1>1 DEF RowsOf, Types, RowsTyped

-----------------------------------------------------------------------------
(* Creates and updates that overlap.                                        *)

\* What a request that has passed its checks is about to write.
Checked(q) == Single(q.new)

\* An update has found its policy, and names conditions of the kinds it replaces.
Editing(q) ==
    /\ Checked(q)
    /\ \E p \in Policy : q.who = {p} /\ row[p] = "live"
    /\ \A c \in q.new : KindOf[c] \in q.given

\* Its transaction has deleted what there is, and leaves the policy on only with
\* the conditions it sees.
Replacing(r) ==
    /\ Editing(req[r])
    /\ \A p \in req[r].who :
           /\ req[r].seen = RowsOf({p}, req[r].given)
           /\ req[r].want = TRUE => ~ Missing(ConditionsIn(View(r, req[r].seen), p))

RequestsOverlap ==
    \A r \in Request :
        /\ pc[r] \in {"idle", "insert", "write", "commit"}
        /\ pc[r] = "insert" => /\ Checked(req[r])
                               /\ req[r].want = TRUE => ~ Missing(req[r].new)
        /\ pc[r] = "write" => Editing(req[r])
        /\ pc[r] = "commit" => Replacing(r)

\* The lock: two transactions never hold the row of one policy.
LocksHold ==
    \A r, s \in Request : pc[r] = "commit" /\ pc[s] = "commit" /\ r # s
                              => req[r].who \cap req[s].who = {}

\* Only live policies have relations.
UsesLive == \A u \in uses : row[u[1]] = "live"

Overlap == Types /\ RequestsOverlap /\ LocksHold /\ UsesLive /\ LockKeepsRules

LEMMA RulesRow ==
    ASSUME NEW p \in Policy, LockKeepsRules
    PROVE  Single(ConditionsIn(uses, p))
BY DEF LockKeepsRules, SingleSelection, Single

LEMMA RulesStay ==
    ASSUME LockKeepsRules, UNCHANGED rows
    PROVE  (UsesLive => UsesLive') /\ LockKeepsRules'
<1>1. uses' = uses /\ row' = row /\ active' = active
    BY DEF rows
<1>2. \A p \in Policy : Single(ConditionsIn(uses', p))
    BY <1>1, RulesRow
<1>3. \A p \in Policy : active'[p] => row'[p] = "live" /\ ~ Missing(ConditionsIn(uses', p))
    BY <1>1 DEF LockKeepsRules, ActiveComplete
<1> QED BY <1>1, <1>2, <1>3 DEF UsesLive, LockKeepsRules, ActiveComplete, SingleSelection, Single

\* Steps that leave the rows alone and do not commit.
LEMMA OverlapRead ==
    ASSUME Overlap, Types', NEW r \in Request, NEW step \in Steps, NEW d,
           Enter(r, step, d), UNCHANGED rows,
           step = "insert" => Checked(d) /\ (d.want = TRUE => ~ Missing(d.new)),
           step = "write" => Editing(d),
           step \in {"insert", "write", "commit"},
           step = "commit" => /\ Replacing(r)'
                              /\ Free(r, d.who)
    PROVE  Overlap'
<1>1. /\ \A s \in Request \ {r} : pc'[s] = pc[s] /\ req'[s] = req[s]
      /\ pc'[r] = step /\ req'[r] = d
    BY DEF Enter, Overlap, Types, RequestsTyped
<1>2. \A q : (Editing(q) <=> Editing(q)')
    BY DEF Editing, Checked, rows
<1>3. ASSUME NEW s \in Request \ {r}, Replacing(s)
      PROVE  Replacing(s)'
    <2>1. req'[s] = req[s] /\ uses' = uses
        BY <1>1 DEF rows
    <2>2. Editing(req[s])'
        BY <1>2, <1>3, <2>1 DEF Replacing
    <2> QED BY <1>3, <2>1, <2>2 DEF Replacing, View, RowsOf, ConditionsIn
<1>4. RequestsOverlap'
    <2> SUFFICES ASSUME NEW s \in Request
                 PROVE  /\ pc'[s] \in {"idle", "insert", "write", "commit"}
                        /\ pc'[s] = "insert" =>
                               /\ Checked(req'[s])
                               /\ req'[s].want = TRUE => ~ Missing(req'[s].new)
                        /\ pc'[s] = "write" => Editing(req[s])'
                        /\ pc'[s] = "commit" => Replacing(s)'
        BY DEF RequestsOverlap, Checked
    <2>1. CASE s = r
        BY <2>1, <1>1, <1>2
    <2>2. CASE s # r
        BY <2>2, <1>1, <1>2, <1>3 DEF Overlap, RequestsOverlap
    <2> QED BY <2>1, <2>2
<1>5. LocksHold'
    <2> SUFFICES ASSUME NEW s \in Request, NEW t \in Request, s # t,
                        pc'[s] = "commit", pc'[t] = "commit"
                 PROVE  req'[s].who \cap req'[t].who = {}
        BY DEF LocksHold
    <2>1. CASE s # r /\ t # r
        BY <2>1, <1>1 DEF Overlap, LocksHold
    <2>2. CASE s = r
        <3>1. Locked(t) = req[t].who /\ req'[t].who = req[t].who
            BY <2>2, <1>1 DEF Locked
        <3> QED BY <3>1, <2>2, <1>1 DEF Free
    <2>3. CASE t = r
        <3>1. Locked(s) = req[s].who /\ req'[s].who = req[s].who
            BY <2>3, <1>1 DEF Locked
        <3> QED BY <3>1, <2>3, <1>1 DEF Free
    <2> QED BY <2>1, <2>2, <2>3
<1>6. UsesLive' /\ LockKeepsRules'
    BY RulesStay DEF Overlap
<1> QED BY <1>4, <1>5, <1>6 DEF Overlap

\* A commit that writes policy p and leaves every other policy's relations alone.
LEMMA OverlapCommit ==
    ASSUME Overlap, Types', NEW r \in Request, NEW p \in Policy, Finish(r),
           pc[r] = "insert" \/ (pc[r] = "commit" /\ req[r].who = {p}),
           \A q \in Policy \ {p} : /\ ConditionsIn(uses', q) = ConditionsIn(uses, q)
                                   /\ row'[q] = row[q] /\ active'[q] = active[q],
           row'[p] = "live", pc[r] = "insert" => row[p] # "live",
           Single(ConditionsIn(uses', p)),
           active'[p] => ~ Missing(ConditionsIn(uses', p))
    PROVE  Overlap'
<1>1. /\ \A s \in Request \ {r} : pc'[s] = pc[s] /\ req'[s] = req[s]
      /\ pc'[r] = "idle"
    BY DEF Finish, Enter, Overlap, Types, RequestsTyped
<1>2. \A q : Editing(q) => Editing(q)'
    BY DEF Editing, Checked
<1>3. ASSUME NEW s \in Request \ {r}, pc[s] = "commit"
      PROVE  Replacing(s)'
    <2>1. Replacing(s) /\ Editing(req[s])
        BY <1>3 DEF Overlap, RequestsOverlap, Replacing
    <2>2. PICK q \in Policy : req[s].who = {q} /\ row[q] = "live"
        BY <2>1 DEF Editing
    <2>3. q # p
        BY <1>3, <2>2 DEF Overlap, LocksHold
    <2>4. ConditionsIn(uses', q) = ConditionsIn(uses, q)
        BY <2>3
    <2>5. \A given : RowsOf({q}, given)' = RowsOf({q}, given)
        BY <2>4, SameRows DEF Overlap
    <2>6. req'[s] = req[s]
        BY <1>1
    <2>7. /\ req[s].seen = RowsOf({q}, req[s].given)
          /\ req[s].want = TRUE => ~ Missing(ConditionsIn(View(s, req[s].seen), q))
        BY <2>1, <2>2 DEF Replacing
    <2>8. ConditionsIn(View(s, req[s].seen), q)' = ConditionsIn(View(s, req[s].seen), q)
        <3>1. ConditionsIn(View(s, req[s].seen), q) =
                  Replace(ConditionsIn(uses, q), req[s].given, req[s].new)
            BY <2>2, <2>7, ViewOwn DEF Overlap
        <3>2. ConditionsIn(View(s, req[s].seen), q)' =
                  Replace(ConditionsIn(uses', q), req[s].given, req[s].new)
            <4>1. \A x \in uses' : x \in req[s].seen <=> x[1] = q /\ KindOf[x[2]] \in req[s].given
                BY <2>5, <2>7 DEF RowsOf
            <4>2. View(s, req[s].seen)' = (uses' \ req[s].seen) \cup ({q} \X req[s].new)
                BY <2>2, <2>6 DEF View
            <4>3. uses' \subseteq Policy \X Condition /\ req[s].new \subseteq Condition
                BY FieldsTyped DEF Overlap, Types, RowsTyped
            <4>4. ConditionsIn((uses' \ req[s].seen) \cup ({q} \X req[s].new), q) =
                      Replace(ConditionsIn(uses', q), req[s].given, req[s].new)
                BY <4>1, <4>3 DEF ConditionsIn, Replace
            <4> QED BY <4>2, <4>4 DEF ConditionsIn
        <3> QED BY <3>1, <3>2, <2>4
    <2>9. Editing(req[s])'
        BY <2>1, <2>6, <1>2
    <2> QED BY <2>2, <2>5, <2>6, <2>7, <2>8, <2>9 DEF Replacing
<1>4. RequestsOverlap'
    BY <1>1, <1>2, <1>3 DEF Overlap, RequestsOverlap, Checked
<1>5. LocksHold'
    BY <1>1 DEF Overlap, LocksHold
<1>6. UsesLive'
    <2> SUFFICES ASSUME NEW u \in uses' PROVE row'[u[1]] = "live"
        BY DEF UsesLive
    <2>1. u[1] \in Policy /\ u[2] \in Condition /\ u = <<u[1], u[2]>>
        BY DEF Types, RowsTyped
    <2>2. CASE u[1] # p
        <3>1. u[2] \in ConditionsIn(uses', u[1])
            BY <2>1 DEF ConditionsIn
        <3>2. u \in uses
            BY <2>1, <2>2, <3>1 DEF ConditionsIn
        <3> QED BY <2>1, <2>2, <3>2 DEF Overlap, UsesLive
    <2> QED BY <2>2
<1>7. LockKeepsRules'
    <2>1. \A q \in Policy : Single(ConditionsIn(uses', q))
        BY RulesRow DEF Overlap
    <2>2. \A q \in Policy : active'[q] => row'[q] = "live" /\ ~ Missing(ConditionsIn(uses', q))
        BY DEF Overlap, LockKeepsRules, ActiveComplete
    <2> QED BY <2>1, <2>2 DEF LockKeepsRules, ActiveComplete, SingleSelection, Single
<1> QED BY <1>4, <1>5, <1>6, <1>7 DEF Overlap

LEMMA OverlapCreate ==
    ASSUME PolicyAssumption, Overlap, NEW r \in Request, NEW o \in Org, NEW d \in BOOLEAN,
           NEW w \in BOOLEAN, NEW new \in SUBSET Condition, CreateCheck(r, o, d, w, new)
    PROVE  Overlap'
<1> DEFINE x == (~ d /\ w)
           q == [Nothing EXCEPT !.org = o, !.draft = d, !.new = new, !.want = x]
<1>1. /\ Enter(r, "insert", q) /\ UNCHANGED rows
      /\ ValidRelations(o, new) /\ (~ d => ~ Missing(new))
    BY DEF CreateCheck
<1>2. x = TRUE => ~ Missing(new)
    BY <1>1
<1> HIDE DEF x
<1>3. q.new = new /\ q.want = x
    BY DEF Nothing
<1> HIDE DEF q
<1>4. Checked(q)
    BY <1>1, <1>3 DEF Checked, Single, ValidRelations
<1>5. Types' /\ "insert" \in Steps
    BY CreateTyped DEF Overlap, Steps
<1> QED BY <1>1, <1>2, <1>3, <1>4, <1>5, OverlapRead

LEMMA OverlapCreateCommit ==
    ASSUME PolicyAssumption, Overlap, NEW r \in Request, NEW p \in Policy, CreateCommit(r, p)
    PROVE  Overlap'
<1> DEFINE new == req[r].new
<1>1. /\ Finish(r) /\ pc[r] = "insert" /\ row[p] = "absent"
      /\ row' = [row EXCEPT ![p] = "live"]
      /\ active' = [active EXCEPT ![p] = req[r].want]
      /\ uses' = uses \cup ({p} \X new)
    BY DEF CreateCommit
<1>2. Types /\ Types' /\ new \subseteq Condition
    BY CreateCommitTyped, FieldsTyped DEF Overlap
<1>3. Checked(req[r]) /\ (req[r].want = TRUE => ~ Missing(new))
    BY <1>1 DEF Overlap, RequestsOverlap
<1> HIDE DEF new
<1>4. ConditionsIn(uses', p) = new
    <2>1. \A c \in Condition : <<p, c>> \notin uses
        BY <1>1 DEF Overlap, UsesLive
    <2> QED BY <1>1, <1>2, <2>1 DEF ConditionsIn
<1>5. Single(ConditionsIn(uses', p))
    BY <1>3, <1>4 DEF Checked, new
<1>6. active'[p] => ~ Missing(ConditionsIn(uses', p))
    <2>1. req[r].want \in BOOLEAN /\ active'[p] = req[r].want
        BY <1>1, <1>2, FieldsTyped DEF Given, Types, RowsTyped
    <2> QED BY <1>3, <1>4, <2>1
<1>7. \A q \in Policy \ {p} : /\ ConditionsIn(uses', q) = ConditionsIn(uses, q)
                              /\ row'[q] = row[q] /\ active'[q] = active[q]
    BY <1>1, <1>2 DEF ConditionsIn, Types, RowsTyped
<1>8. row'[p] = "live" /\ row[p] # "live"
    BY <1>1, <1>2 DEF Types, RowsTyped
<1> QED BY <1>1, <1>2, <1>5, <1>6, <1>7, <1>8, OverlapCommit

LEMMA OverlapUpdate ==
    ASSUME PolicyAssumption, Overlap, NEW r \in Request, NEW p \in Policy,
           NEW o \in Org \cup {Keep}, NEW d \in BOOLEAN \cup {Keep},
           NEW w \in BOOLEAN \cup {Keep}, NEW given \in SUBSET KindsInUse,
           NEW new \in Choices(given), UpdateRead(r, p, o, d, w, given, new)
    PROVE  Overlap'
<1> DEFINE target == IF o = Keep THEN owner[p] ELSE o
           next == IF d = Keep THEN draft[p] ELSE d
           kinds == IF target # owner[p] THEN KindsInUse ELSE given
           want == IF next THEN FALSE ELSE w
           had == Missing(ConditionsIn(uses, p))
           q == [Nothing EXCEPT !.who = {p}, !.org = o, !.draft = next, !.new = new,
                                !.given = kinds, !.want = want, !.had = had]
<1>1. /\ Enter(r, "write", q) /\ UNCHANGED rows
      /\ row[p] = "live" /\ ValidRelations(target, new)
    BY DEF UpdateRead
<1>2. new \subseteq Condition /\ \A c \in new : KindOf[c] \in kinds
    BY DEF Choices, KindsInUse
<1>3. Types' /\ "write" \in Steps
    BY <1>2, UpdateTyped DEF Overlap, Steps
<1> HIDE DEF target, next, kinds, want, had
<1>4. q.who = {p} /\ q.new = new /\ q.given = kinds
    BY DEF Nothing
<1> HIDE DEF q
<1>5. Editing(q)
    BY <1>1, <1>2, <1>4 DEF Editing, Checked, Single, ValidRelations
<1> QED BY <1>1, <1>3, <1>5, OverlapRead

LEMMA OverlapUpdateWrite ==
    ASSUME PolicyAssumption, Overlap, NEW r \in Request, NEW p \in Policy, UpdateWrite(r, p)
    PROVE  Overlap'
<1> DEFINE q == req[r]
           deleted == RowsOf({p}, q.given)
           on == IF q.want = Keep THEN active[p] ELSE q.want
           want == Activation(ConditionsIn(View(r, deleted), p), q.had, on)
           d == [q EXCEPT !.seen = deleted, !.want = want]
<1>1. /\ pc[r] = "write" /\ q.who = {p} /\ Free(r, {p})
      /\ Enter(r, "commit", d) /\ UNCHANGED rows
    BY DEF UpdateWrite
<1>2. Types /\ Types' /\ "commit" \in Steps
    BY UpdateWriteTyped DEF Overlap, Steps
<1>3. q \in ReqType /\ Editing(q)
    BY <1>1, <1>2, FieldsTyped DEF Overlap, RequestsOverlap
<1>4. want = TRUE => ~ Missing(ConditionsIn(View(r, deleted), p))
    BY DEF Activation
<1>5. /\ d.who = q.who /\ d.new = q.new /\ d.given = q.given
      /\ d.seen = deleted /\ d.want = want
    BY <1>3 DEF ReqType
<1> HIDE DEF deleted, on, want, d
<1>6. req'[r] = d /\ uses' = uses /\ row' = row
    BY <1>1, <1>2 DEF Enter, Types, RequestsTyped, rows
<1>7. Editing(req[r])'
    BY <1>3, <1>5, <1>6 DEF Editing, Checked
<1>8. deleted = RowsOf({p}, req[r].given)'
    BY <1>5, <1>6 DEF RowsOf, deleted
<1>9. View(r, req[r].seen)' = View(r, deleted)
    BY <1>5, <1>6 DEF View
<1>10. Replacing(r)'
    <2>1. req'[r].who = {p} /\ req'[r].seen = deleted /\ req'[r].want = want
        BY <1>1, <1>5, <1>6
    <2>2. want = TRUE => ~ Missing(ConditionsIn(View(r, req[r].seen), p))'
        BY <1>9, <1>4 DEF ConditionsIn, Missing, Lacks
    <2> QED BY <2>1, <2>2, <1>7, <1>8 DEF Replacing
<1>11. Free(r, d.who)
    BY <1>1, <1>5
<1> QED BY <1>1, <1>2, <1>10, <1>11, OverlapRead

LEMMA OverlapUpdateCommit ==
    ASSUME PolicyAssumption, Overlap, NEW r \in Request, NEW p \in Policy, UpdateCommit(r, p)
    PROVE  Overlap'
<1>1. /\ pc[r] = "commit" /\ req[r].who = {p} /\ Finish(r)
      /\ uses' = View(r, req[r].seen)
      /\ active' = [active EXCEPT ![p] = req[r].want]
      /\ row' = row
    BY DEF UpdateCommit
<1>2. Types /\ Types'
    BY UpdateCommitTyped DEF Overlap
<1>3. Replacing(r) /\ Editing(req[r])
    BY <1>1 DEF Overlap, RequestsOverlap, Replacing
<1>4. /\ row[p] = "live" /\ req[r].seen = RowsOf({p}, req[r].given)
      /\ req[r].want = TRUE => ~ Missing(ConditionsIn(View(r, req[r].seen), p))
    BY <1>1, <1>3 DEF Replacing, Editing
<1>5. ConditionsIn(uses', p) =
          Replace(ConditionsIn(uses, p), req[r].given, req[r].new)
    <2>1. uses' = View(r, RowsOf({p}, req[r].given))
        BY <1>1, <1>4
    <2>2. ConditionsIn(View(r, RowsOf({p}, req[r].given)), p) =
              Replace(ConditionsIn(uses, p), req[r].given, req[r].new)
        BY <1>1, <1>2, ViewOwn
    <2> QED BY <2>1, <2>2
<1>6. Single(ConditionsIn(uses', p))
    <2>1. Single(ConditionsIn(uses, p))
        BY RulesRow DEF Overlap
    <2> QED BY <1>3, <1>5, <2>1, SingleReplaced DEF Editing, Checked
<1>7. active'[p] => ~ Missing(ConditionsIn(uses', p))
    <2>1. req[r].want \in BOOLEAN /\ active'[p] = req[r].want
        BY <1>1, <1>2, FieldsTyped DEF Given, Types, RowsTyped
    <2> QED BY <1>1, <1>4, <2>1
<1>8. \A q \in Policy \ {p} : ConditionsIn(uses', q) = ConditionsIn(uses, q)
    <2> SUFFICES ASSUME NEW q \in Policy \ {p}
                 PROVE  ConditionsIn(uses', q) = ConditionsIn(uses, q)
        OBVIOUS
    <2>1. uses' = View(r, RowsOf({p}, req[r].given))
        BY <1>1, <1>4
    <2>2. ConditionsIn(View(r, RowsOf({p}, req[r].given)), q) = ConditionsIn(uses, q)
        BY <1>1, <1>2, ViewOthers
    <2> QED BY <2>1, <2>2
<1>9. \A q \in Policy \ {p} : row'[q] = row[q] /\ active'[q] = active[q]
    BY <1>1, <1>2 DEF Types, RowsTyped
<1>10. row'[p] = "live" /\ pc[r] # "insert"
    BY <1>1, <1>4
<1> QED BY <1>1, <1>2, <1>6, <1>7, <1>8, <1>9, <1>10, OverlapCommit

\* Of the steps, these are the ones a request for a create or an update takes.
LEMMA OnlyTheseKinds ==
    ASSUME Kinds \subseteq {"create", "update"}, Overlap, NEW r \in Request, StepOf(r)
    PROVE  \/ \E o \in Org, d \in BOOLEAN, w \in BOOLEAN, new \in SUBSET Condition :
                  CreateCheck(r, o, d, w, new)
           \/ \E p \in Policy : CreateCommit(r, p)
           \/ \E p \in Policy, o \in Org \cup {Keep}, d \in BOOLEAN \cup {Keep},
                 w \in BOOLEAN \cup {Keep}, given \in SUBSET KindsInUse :
                  \E new \in Choices(given) : UpdateRead(r, p, o, d, w, given, new)
           \/ \E p \in Policy : UpdateWrite(r, p) \/ UpdateCommit(r, p)
<1>1. pc[r] \in {"idle", "insert", "write", "commit"}
    BY DEF Overlap, RequestsOverlap
<1>2. /\ \A p \in Policy : /\ ~ AssignWrite(r, p) /\ ~ AssignCommit(r, p)
                           /\ ~ ToggleWrite(r, p) /\ ~ ToggleRead(r, p)
      /\ \A p, kind, new : ~ AssignRead(r, p, kind, new)
    BY <1>1 DEF AssignRead, AssignWrite, AssignCommit, ToggleRead, ToggleWrite, Begin
<1>3. /\ \A ps, on : ~ BulkRead(r, ps, on)
      /\ ~ BulkWrite(r)
      /\ \A ps : ~ RemoveRead(r, ps)
      /\ ~ RemoveRelations(r) /\ ~ RemoveCommit(r)
    BY <1>1 DEF BulkRead, BulkWrite, RemoveRead, RemoveRelations, RemoveCommit, Begin
<1>4. /\ \A c : ~ DropRead(r, c)
      /\ ~ DropWrite(r) /\ ~ DropCommit(r)
      /\ \A c, o : ~ MoveRead(r, c, o)
      /\ ~ MoveCommit(r) /\ ~ DetachWrite(r) /\ ~ DetachCommit(r)
    BY <1>1 DEF DropRead, DropWrite, DropCommit, MoveRead, MoveCommit, DetachWrite,
                DetachCommit, Begin
<1> QED BY <1>2, <1>3, <1>4, Zenon DEF StepOf

LEMMA OverlapInit ==
    ASSUME PolicyAssumption, Init
    PROVE  Overlap
<1>1. \A p : ConditionsIn(uses, p) = {}
    BY DEF Init, ConditionsIn
<1>2. SingleSelection
    <2> SUFFICES ASSUME NEW p \in Policy, NEW kind \in {"time", "behavior"}
                 PROVE  Cardinality({c \in ConditionsIn(uses, p) : KindOf[c] = kind}) <= 1
        BY DEF SingleSelection
    <2> DEFINE S == {c \in ConditionsIn(uses, p) : KindOf[c] = kind}
    <2>1. S = {}
        BY <1>1
    <2>2. Cardinality({}) = 0
        BY FS_EmptySet
    <2> HIDE DEF S
    <2>3. Cardinality(S) <= 1
        BY <2>1, <2>2
    <2> QED BY <2>3 DEF S
<1>3. ActiveComplete /\ UsesLive
    BY DEF Init, ActiveComplete, UsesLive
<1>4. RequestsOverlap /\ LocksHold
    BY DEF Init, RequestsOverlap, LocksHold
<1> QED BY <1>2, <1>3, <1>4, TypesInit DEF Overlap, LockKeepsRules

LEMMA OverlapNext ==
    ASSUME PolicyAssumption, Kinds \subseteq {"create", "update"}, Overlap, [Next]_vars
    PROVE  Overlap'
<1>1. CASE UNCHANGED vars
    <2>1. Types'
        BY TypesNext DEF Overlap
    <2>2. uses' = uses /\ row' = row /\ active' = active /\ pc' = pc /\ req' = req
        BY <1>1 DEF vars
    <2>3. LocksHold'
        BY <2>2 DEF Overlap, LocksHold
    <2>4. UsesLive' /\ LockKeepsRules'
        <3>1. UNCHANGED rows
            BY <1>1 DEF vars, rows
        <3> QED BY <3>1, RulesStay DEF Overlap
    <2>5. \A r \in Request : /\ Editing(req[r]) => Editing(req[r])'
                             /\ Replacing(r) => Replacing(r)'
        BY <2>2 DEF Checked, Editing, Replacing, View, RowsOf, ConditionsIn
    <2>6. RequestsOverlap'
        BY <2>2, <2>5 DEF Overlap, RequestsOverlap, Checked
    <2> QED BY <2>1, <2>3, <2>4, <2>6 DEF Overlap
<1>2. CASE Next
    <2>1. PICK r \in Request : StepOf(r)
        BY <1>2, NextIsStep
    <2> QED BY <2>1, OnlyTheseKinds, OverlapCreate, OverlapCreateCommit, OverlapUpdate,
               OverlapUpdateWrite, OverlapUpdateCommit
<1> QED BY <1>1, <1>2

\* update, with any number of creates and updates in flight, of the same policies:
\* a policy in force keeps a zone and a time condition, and every policy at most
\* one time and one behavior condition, because the row's lock is taken before
\* the relations are replaced and the activation is decided.
THEOREM UpdatesKeepRules ==
    ASSUME PolicyAssumption, Kinds \subseteq {"create", "update"}
    PROVE  Spec => []LockKeepsRules
<1>1. Init => Overlap
    BY OverlapInit
<1>2. Overlap /\ [Next]_vars => Overlap'
    BY OverlapNext
<1>3. Overlap => LockKeepsRules
    BY DEF Overlap
<1> QED BY <1>1, <1>2, <1>3, PTL DEF Spec

-----------------------------------------------------------------------------
(* One request in flight: every operation of the policies and of their       *)
(* conditions.  Between the reads of a request and its commit nothing else   *)
(* changes, so what it read still holds when it writes.                      *)

\* While a request runs, no other does.
OneAtATime == \A r, s \in Request : pc[r] # "idle" /\ pc[s] # "idle" => r = s

\* The conditions a request names can be used by o.
Usable(o, q) ==
    /\ q.new \subseteq kept
    /\ CrossOrg \/ \A c \in q.new : home[c] \in Sources[o]

\* The owner of p after an update.
Target(q, p) == IF q.org = Keep THEN owner[p] ELSE q.org

\* What a create, an update, an assignment, and a change of the flag rely on.
Insertable(q) ==
    /\ Usable(q.org, q)
    /\ q.want = TRUE => ~ Missing(q.new)
    /\ q.draft = FALSE => ~ \E p \in Policy : Published(p) /\ owner[p] = q.org

Updatable(q) ==
    \E p \in Policy :
        /\ q.who = {p} /\ row[p] = "live"
        /\ Usable(Target(q, p), q)
        /\ q.draft = FALSE => ~ Taken(Target(q, p), p)
        /\ Target(q, p) # owner[p] => q.given = KindsInUse

Linkable(q) == \E p \in Policy : q.who = {p} /\ row[p] = "live" /\ Usable(owner[p], q)

Switchable(q) ==
    \A p \in q.who : /\ row[p] = "live"
                     /\ q.want = TRUE => ~ Missing(ConditionsIn(uses, p))

\* Having deleted the relations it replaces, a transaction leaves the policy on
\* only with the conditions it sees.
After(q) == (uses \ q.seen) \cup (q.who \X q.new)

Replaceable(q) ==
    \A p \in q.who :
        /\ q.seen = RowsOf({p}, q.given)
        /\ (IF q.want = Keep THEN active[p] ELSE q.want) = TRUE
               => ~ Missing(ConditionsIn(After(q), p))

\* The removal of a condition has all its relations, and the policies in force
\* that are incomplete without it; that of a moved one those out of its reach.
Droppable(q) ==
    /\ q.seen = {u \in uses : u[2] = q.cond}
    /\ \A p \in Policy : <<p, q.cond>> \in q.seen /\ Missing(ConditionsIn(uses \ q.seen, p))
                             => p \in q.off

Detachable(q) ==
    /\ \A u \in uses : u \in q.seen <=> u[2] = q.cond /\ q.org \notin Sources[owner[u[1]]]
    /\ \A p \in Policy : <<p, q.cond>> \in q.seen /\ active[p] => p \in q.off

Claim(step, q) ==
    /\ step = "insert" => Insertable(q)
    /\ step \in {"write", "commit"} => Updatable(q)
    /\ step \in {"assign", "assigned"} => Linkable(q)
    /\ step \in {"commit", "assigned"} => Replaceable(q)
    /\ step \in {"toggle", "bulk"} => Switchable(q)
    /\ step = "removing" => q.seen = RowsOf(q.who, ConditionKind)
    /\ step = "dropping" => Droppable(q)
    /\ step \in {"detach", "detaching"} => home[q.cond] = q.org
    /\ step = "detaching" => Detachable(q)

Rules ==
    /\ ActiveComplete /\ OnePublished /\ NoDanglingUse
    /\ ~ CrossOrg => UsesInScope

Alone ==
    /\ Types
    /\ \A r \in Request : Claim(pc[r], req[r])
    /\ Rules

-----------------------------------------------------------------------------
(* Steps that change no row.                                                *)

\* What a request relies on is about the rows, and stays while they do.
LEMMA SameClaim ==
    ASSUME UNCHANGED rows, NEW step, NEW q, Claim(step, q)
    PROVE  Claim(step, q)'
<1>1. /\ uses' = uses /\ row' = row /\ owner' = owner /\ draft' = draft
      /\ active' = active /\ home' = home /\ kept' = kept
    BY DEF rows
<1>2. \A who, given : RowsOf(who, given)' = RowsOf(who, given)
    BY <1>1 DEF RowsOf
<1>3. \A u, p : ConditionsIn(u, p)' = ConditionsIn(u, p)
    BY DEF ConditionsIn
<1>4. \A p \in Policy : Published(p)' <=> Published(p)
    BY <1>1 DEF Published
<1>5. Insertable(q) => Insertable(q)'
    BY <1>1, <1>4 DEF Insertable, Usable, Missing, Lacks
<1>6. Updatable(q) => Updatable(q)'
    BY <1>1, <1>4 DEF Updatable, Usable, Target, Taken
<1>7. Linkable(q) => Linkable(q)'
    BY <1>1 DEF Linkable, Usable
<1>8. Replaceable(q) => Replaceable(q)'
    BY <1>1, <1>2 DEF Replaceable, After, ConditionsIn, Missing, Lacks
<1>9. Switchable(q) => Switchable(q)'
    BY <1>1 DEF Switchable, ConditionsIn, Missing, Lacks
<1>10. (Droppable(q) => Droppable(q)') /\ (Detachable(q) => Detachable(q)')
    BY <1>1 DEF Droppable, Detachable, ConditionsIn, Missing, Lacks
<1> QED BY <1>1, <1>2, <1>5, <1>6, <1>7, <1>8, <1>9, <1>10 DEF Claim

\* A step that reads or prepares keeps the rules, unless it ends a detachment.
LEMMA AloneRead ==
    ASSUME Alone, Types', NEW r \in Request, NEW step, NEW d,
           Enter(r, step, d), UNCHANGED rows, Claim(step, d),
           pc[r] # "detaching",
           pc[r] = "detach" => step = "detaching" /\ d.cond = req[r].cond
    PROVE  Alone'
<1>1. /\ \A s \in Request \ {r} : pc'[s] = pc[s] /\ req'[s] = req[s]
      /\ pc'[r] = step /\ req'[r] = d
    BY DEF Enter, Alone, Types, RequestsTyped
<1>2. \A st, q : Claim(st, q) => Claim(st, q)'
    BY SameClaim
<1>3. \A s \in Request : Claim(pc[s], req[s])'
    <2> SUFFICES ASSUME NEW s \in Request PROVE Claim(pc[s], req[s])'
        OBVIOUS
    <2>1. PICK st, q : st = pc'[s] /\ q = req'[s]
        OBVIOUS
    <2>2. Claim(st, q)
        BY <1>1, <2>1 DEF Alone
    <2>3. Claim(st, q)'
        BY <1>2, <2>2
    <2> QED BY <2>1, <2>3
<1>4. ActiveComplete' /\ OnePublished' /\ NoDanglingUse'
    BY DEF Alone, Rules, ActiveComplete, OnePublished, NoDanglingUse, Published,
           ConditionsIn, rows
<1>5. UsesInScope => UsesInScope'
    <2> SUFFICES ASSUME UsesInScope, NEW u \in uses
                 PROVE  \/ home[u[2]] \in Sources[owner[u[1]]]
                        \/ \E s \in Request : /\ pc'[s] \in {"detach", "detaching"}
                                              /\ req'[s].cond = u[2]
        BY DEF UsesInScope, rows
    <2>1. CASE home[u[2]] \in Sources[owner[u[1]]]
        BY <2>1
    <2>2. CASE \E s \in Request : pc[s] \in {"detach", "detaching"} /\ req[s].cond = u[2]
        <3>1. PICK s \in Request : pc[s] \in {"detach", "detaching"} /\ req[s].cond = u[2]
            BY <2>2
        <3>2. pc'[s] \in {"detach", "detaching"} /\ req'[s].cond = u[2]
            BY <1>1, <3>1
        <3> QED BY <3>2
    <2> QED BY <2>1, <2>2 DEF UsesInScope
<1> QED BY <1>3, <1>4, <1>5 DEF Alone, Rules

\* A step that ends a request: the others have not begun.
LEMMA AloneFinish ==
    ASSUME Alone, OneAtATime, Types', NEW r \in Request, pc[r] # "idle", Finish(r), Rules'
    PROVE  Alone'
<1>1. pc'[r] = "idle" /\ \A s \in Request \ {r} : pc'[s] = pc[s]
    BY DEF Finish, Enter, Alone, Types, RequestsTyped
<1>2. \A s \in Request : pc'[s] = "idle"
    BY <1>1 DEF OneAtATime
<1>3. \A s \in Request : Claim(pc[s], req[s])'
    BY <1>2 DEF Claim
<1> QED BY <1>3 DEF Alone

\* When no condition is being detached, the relations are all within reach.
Reached == \A u \in uses : home[u[2]] \in Sources[owner[u[1]]]

LEMMA NoneDetaching ==
    ASSUME Alone, OneAtATime, NEW r \in Request,
           pc[r] \notin {"idle", "detach", "detaching"}
    PROVE  ~ CrossOrg => Reached
BY DEF Alone, Rules, UsesInScope, OneAtATime, Reached

\* A commit that writes policy p: its row, its relations, or both.
LEMMA RulesWritten ==
    ASSUME Alone, Types', NEW p \in Policy,
           \A q \in Policy \ {p} : /\ row'[q] = row[q] /\ owner'[q] = owner[q]
                                   /\ draft'[q] = draft[q] /\ active'[q] = active[q]
                                   /\ \A c \in Condition : <<q, c>> \in uses' <=> <<q, c>> \in uses,
           kept' = kept, home' = home, row'[p] = "live",
           active'[p] = TRUE => ~ Missing(ConditionsIn(uses', p)),
           draft'[p] = FALSE => ~ Taken(owner'[p], p),
           \A c \in ConditionsIn(uses', p) : c \in kept,
           ~ CrossOrg => /\ Reached
                         /\ \A c \in ConditionsIn(uses', p) : home[c] \in Sources[owner'[p]]
    PROVE  Rules'
<1>1. ActiveComplete'
    <2> SUFFICES ASSUME NEW q \in Policy, active'[q]
                 PROVE  row'[q] = "live" /\ ~ Missing(ConditionsIn(uses', q))
        BY DEF ActiveComplete, ConditionsIn, Missing, Lacks
    <2>1. CASE q = p
        <3>1. active'[p] = TRUE
            BY <2>1 DEF Types, RowsTyped
        <3> QED BY <2>1, <3>1
    <2>2. CASE q # p
        <3>1. ConditionsIn(uses', q) = ConditionsIn(uses, q)
            BY <2>2 DEF ConditionsIn
        <3> QED BY <2>2, <3>1 DEF Alone, Rules, ActiveComplete
    <2> QED BY <2>1, <2>2
<1>2. OnePublished'
    <2>1. draft'[p] \in BOOLEAN
        BY DEF Types, RowsTyped
    <2>2. \A q \in Policy \ {p} : Published(q)' <=> Published(q)
        BY DEF Published
    <2>3. \A q \in Policy \ {p} : Published(p)' /\ Published(q)' => owner'[q] # owner'[p]
        <3>1. Published(p)' => draft'[p] = FALSE
            BY <2>1 DEF Published
        <3> QED BY <2>2, <3>1 DEF Taken
    <2> QED BY <2>2, <2>3 DEF Alone, Rules, OnePublished
<1>3. \A u \in uses' : /\ u[1] \in Policy /\ u[2] \in Condition /\ u = <<u[1], u[2]>>
                       /\ u[1] = p => u[2] \in ConditionsIn(uses', p)
                       /\ u[1] # p => u \in uses
    BY DEF Types, RowsTyped, ConditionsIn
<1>4. NoDanglingUse'
    BY <1>3 DEF Alone, Rules, NoDanglingUse
<1>5. ~ CrossOrg => UsesInScope'
    BY <1>3 DEF Reached, UsesInScope
<1> QED BY <1>1, <1>2, <1>4, <1>5 DEF Rules

\* A commit that only takes away: policies, relations, activations.
LEMMA RulesShrunk ==
    ASSUME Alone, Types', owner' = owner, draft' = draft, home' = home,
           \A p \in Policy : row'[p] = "live" => row[p] = "live",
           \A p \in Policy : active'[p] => /\ active[p] /\ row'[p] = row[p]
                                           /\ ~ Missing(ConditionsIn(uses', p)),
           \A u \in uses' : u \in uses /\ row'[u[1]] = row[u[1]] /\ u[2] \in kept',
           ~ CrossOrg => \A u \in uses' : home[u[2]] \in Sources[owner[u[1]]]
    PROVE  Rules'
<1>1. ActiveComplete'
    BY DEF Alone, Rules, ActiveComplete, ConditionsIn, Missing, Lacks
<1>2. OnePublished'
    BY DEF Alone, Rules, OnePublished, Published
<1>3. NoDanglingUse'
    BY DEF Alone, Rules, NoDanglingUse
<1>4. ~ CrossOrg => UsesInScope'
    BY DEF UsesInScope
<1> QED BY <1>1, <1>2, <1>3, <1>4 DEF Rules

-----------------------------------------------------------------------------
(* Each step that reads or prepares establishes what its request relies on. *)

LEMMA AloneCreate ==
    ASSUME PolicyAssumption, Alone, NEW r \in Request, NEW o \in Org, NEW d \in BOOLEAN,
           NEW w \in BOOLEAN, NEW new \in SUBSET Condition, CreateCheck(r, o, d, w, new)
    PROVE  Alone'
<1> DEFINE x == (~ d /\ w)
           q == [Nothing EXCEPT !.org = o, !.draft = d, !.new = new, !.want = x]
<1>1. /\ Enter(r, "insert", q) /\ UNCHANGED rows /\ pc[r] = "idle"
      /\ ValidRelations(o, new) /\ (~ d => ~ Missing(new))
      /\ ~ \E p \in Policy : Published(p) /\ owner[p] = o
    BY DEF CreateCheck, Begin
<1>2. x = TRUE => ~ Missing(new)
    BY <1>1
<1> HIDE DEF x
<1>3. q.new = new /\ q.want = x /\ q.org = o
    BY DEF Nothing
<1> HIDE DEF q
<1>4. Insertable(q)
    BY <1>1, <1>2, <1>3 DEF Insertable, Usable, ValidRelations
<1>5. Claim("insert", q)
    BY <1>4 DEF Claim
<1>6. Types'
    BY CreateTyped DEF Alone
<1> QED BY <1>1, <1>5, <1>6, AloneRead

LEMMA AloneUpdate ==
    ASSUME PolicyAssumption, Alone, NEW r \in Request, NEW p \in Policy,
           NEW o \in Org \cup {Keep}, NEW d \in BOOLEAN \cup {Keep},
           NEW w \in BOOLEAN \cup {Keep}, NEW given \in SUBSET KindsInUse,
           NEW new \in SUBSET Condition, UpdateRead(r, p, o, d, w, given, new)
    PROVE  Alone'
<1> DEFINE target == IF o = Keep THEN owner[p] ELSE o
           next == IF d = Keep THEN draft[p] ELSE d
           kinds == IF target # owner[p] THEN KindsInUse ELSE given
           want == IF next THEN FALSE ELSE w
           had == Missing(ConditionsIn(uses, p))
           q == [Nothing EXCEPT !.who = {p}, !.org = o, !.draft = next, !.new = new,
                                !.given = kinds, !.want = want, !.had = had]
<1>1. /\ Enter(r, "write", q) /\ UNCHANGED rows /\ pc[r] = "idle"
      /\ row[p] = "live" /\ ValidRelations(target, new)
      /\ ~ next => ~ Taken(target, p)
    BY DEF UpdateRead, Begin
<1>2. target # owner[p] => kinds = KindsInUse
    OBVIOUS
<1>3. Types'
    BY UpdateTyped DEF Alone
<1> HIDE DEF next, kinds, want, had
<1>4. /\ q.who = {p} /\ q.new = new /\ q.given = kinds /\ q.org = o /\ q.draft = next
    BY DEF Nothing
<1> HIDE DEF q
<1>5. Target(q, p) = target
    BY <1>4 DEF Target
<1> HIDE DEF target
<1>6. Usable(Target(q, p), q)
    BY <1>1, <1>4, <1>5 DEF Usable, ValidRelations
<1>7. q.draft = FALSE => ~ Taken(Target(q, p), p)
    BY <1>1, <1>4, <1>5
<1>8. Updatable(q)
    BY <1>1, <1>2, <1>4, <1>5, <1>6, <1>7 DEF Updatable
<1>9. Claim("write", q)
    BY <1>8 DEF Claim
<1> QED BY <1>1, <1>3, <1>9, AloneRead

LEMMA AloneUpdateWrite ==
    ASSUME PolicyAssumption, Alone, NEW r \in Request, NEW p \in Policy, UpdateWrite(r, p)
    PROVE  Alone'
<1> DEFINE q == req[r]
           deleted == RowsOf({p}, q.given)
           on == IF q.want = Keep THEN active[p] ELSE q.want
           want == Activation(ConditionsIn(View(r, deleted), p), q.had, on)
           d == [q EXCEPT !.seen = deleted, !.want = want]
<1>1. /\ pc[r] = "write" /\ q.who = {p}
      /\ Enter(r, "commit", d) /\ UNCHANGED rows
    BY DEF UpdateWrite
<1>2. Types /\ Types'
    BY UpdateWriteTyped DEF Alone
<1>3. q \in ReqType /\ Given("write", q) /\ Updatable(q)
    BY <1>1, <1>2, FieldsTyped DEF Alone, Claim
<1>4. want \in BOOLEAN /\ (want = TRUE => ~ Missing(ConditionsIn(View(r, deleted), p)))
    <2>1. q.had \in BOOLEAN /\ on \in BOOLEAN
        BY <1>2, <1>3 DEF ReqType, Types, RowsTyped
    <2> HIDE DEF on
    <2> QED BY <2>1, ActivationTyped
<1>5. /\ d.who = q.who /\ d.new = q.new /\ d.given = q.given /\ d.org = q.org
      /\ d.draft = q.draft /\ d.seen = deleted /\ d.want = want
    BY <1>3 DEF ReqType
<1> HIDE DEF on, want, d, deleted
<1>6. Updatable(d)
    BY <1>3, <1>5 DEF Updatable, Usable, Target
<1>7. (IF want = Keep THEN active[p] ELSE want) = TRUE
          => ~ Missing(ConditionsIn(View(r, deleted), p))
    BY <1>4 DEF PolicyAssumption
<1>8. Replaceable(d)
    <2>1. After(d) = View(r, deleted)
        BY <1>5 DEF After, View
    <2>2. d.who = {p} /\ d.seen = RowsOf({p}, d.given)
        BY <1>1, <1>5 DEF deleted
    <2> QED BY <1>5, <1>7, <2>1, <2>2 DEF Replaceable
<1>9. Claim("commit", d)
    BY <1>6, <1>8 DEF Claim
<1> QED BY <1>1, <1>2, <1>9, AloneRead

LEMMA AloneAssign ==
    ASSUME PolicyAssumption, Alone, NEW r \in Request, NEW p \in Policy,
           NEW kind \in KindsInUse, NEW new \in SUBSET Condition, AssignRead(r, p, kind, new)
    PROVE  Alone'
<1> DEFINE had == Missing(ConditionsIn(uses, p))
           q == [Nothing EXCEPT !.who = {p}, !.given = {kind}, !.new = new, !.had = had]
<1>1. /\ Enter(r, "assign", q) /\ UNCHANGED rows /\ pc[r] = "idle"
      /\ row[p] = "live" /\ ValidRelations(owner[p], new)
    BY DEF AssignRead, Begin, Published
<1> HIDE DEF had
<1>2. q.who = {p} /\ q.new = new
    BY DEF Nothing
<1> HIDE DEF q
<1>3. Linkable(q)
    BY <1>1, <1>2 DEF Linkable, Usable, ValidRelations
<1>4. Claim("assign", q)
    BY <1>3 DEF Claim
<1>5. Types'
    BY AssignTyped DEF Alone
<1> QED BY <1>1, <1>4, <1>5, AloneRead

LEMMA AloneAssignWrite ==
    ASSUME PolicyAssumption, Alone, NEW r \in Request, NEW p \in Policy, AssignWrite(r, p)
    PROVE  Alone'
<1> DEFINE q == req[r]
           deleted == RowsOf({p}, q.given)
           on == Activation(ConditionsIn(View(r, deleted), p), q.had, active[p])
           want == IF on = active[p] THEN Keep ELSE on
           d == [q EXCEPT !.seen = deleted, !.want = want]
<1>1. /\ pc[r] = "assign" /\ q.who = {p}
      /\ Enter(r, "assigned", d) /\ UNCHANGED rows
    BY DEF AssignWrite
<1>2. Types /\ Types'
    BY AssignWriteTyped DEF Alone
<1>3. q \in ReqType /\ Linkable(q)
    BY <1>1, <1>2, FieldsTyped DEF Alone, Claim
<1>4. on \in BOOLEAN /\ (on = TRUE => ~ Missing(ConditionsIn(View(r, deleted), p)))
    <2>1. q.had \in BOOLEAN /\ active[p] \in BOOLEAN
        BY <1>2, <1>3 DEF ReqType, Types, RowsTyped
    <2> QED BY <2>1, ActivationTyped
<1>5. /\ d.who = q.who /\ d.new = q.new /\ d.given = q.given
      /\ d.seen = deleted /\ d.want = want
    BY <1>3 DEF ReqType
<1> HIDE DEF on, d, deleted
<1>6. Linkable(d)
    BY <1>3, <1>5 DEF Linkable, Usable
<1>7. (IF want = Keep THEN active[p] ELSE want) = on
    BY <1>4 DEF PolicyAssumption
<1> HIDE DEF want
<1>8. Replaceable(d)
    <2>1. After(d) = View(r, deleted)
        BY <1>5 DEF After, View
    <2>2. d.who = {p} /\ d.seen = RowsOf({p}, d.given)
        BY <1>1, <1>5 DEF deleted
    <2> QED BY <1>4, <1>5, <1>7, <2>1, <2>2 DEF Replaceable
<1>9. Claim("assigned", d)
    BY <1>6, <1>8 DEF Claim
<1> QED BY <1>1, <1>2, <1>9, AloneRead

LEMMA AloneToggle ==
    ASSUME Alone, NEW r \in Request, NEW p \in Policy, ToggleRead(r, p)
    PROVE  Alone'
<1> DEFINE want == ~ active[p]
           q == [Nothing EXCEPT !.who = {p}, !.want = want]
<1>1. /\ Enter(r, "toggle", q) /\ UNCHANGED rows /\ pc[r] = "idle" /\ row[p] = "live"
      /\ want => ~ Missing(ConditionsIn(uses, p))
    BY DEF ToggleRead, Begin, Published
<1> HIDE DEF want
<1>2. q.who = {p} /\ q.want = want
    BY DEF Nothing
<1> HIDE DEF q
<1>3. Switchable(q)
    BY <1>1, <1>2 DEF Switchable
<1>4. Claim("toggle", q)
    BY <1>3 DEF Claim
<1>5. Types'
    BY ToggleTyped DEF Alone
<1> QED BY <1>1, <1>4, <1>5, AloneRead

LEMMA AloneBulk ==
    ASSUME Alone, NEW r \in Request, NEW ps \in SUBSET Policy, NEW on \in BOOLEAN,
           BulkRead(r, ps, on)
    PROVE  Alone'
<1> DEFINE changed == {p \in ps : /\ Published(p) /\ active[p] # on
                                  /\ on => ~ Missing(ConditionsIn(uses, p))}
           q == [Nothing EXCEPT !.who = changed, !.want = on]
<1>1. Enter(r, "bulk", q) /\ UNCHANGED rows /\ pc[r] = "idle"
    BY DEF BulkRead, Begin
<1>2. \A p \in changed : row[p] = "live" /\ (on => ~ Missing(ConditionsIn(uses, p)))
    BY DEF Published
<1> HIDE DEF changed
<1>3. q.who = changed /\ q.want = on
    BY DEF Nothing
<1> HIDE DEF q
<1>4. Switchable(q)
    BY <1>2, <1>3 DEF Switchable
<1>5. Claim("bulk", q)
    BY <1>4 DEF Claim
<1>6. Types'
    BY BulkTyped DEF Alone
<1> QED BY <1>1, <1>5, <1>6, AloneRead

LEMMA AloneRemove ==
    ASSUME Alone, NEW r \in Request, NEW ps \in SUBSET Policy,
           RemoveRead(r, ps) \/ RemoveRelations(r)
    PROVE  Alone'
<1>1. CASE RemoveRead(r, ps)
    <2>1. Enter(r, "remove", [Nothing EXCEPT !.who = ps]) /\ UNCHANGED rows /\ pc[r] = "idle"
        BY <1>1 DEF RemoveRead, Begin
    <2>2. Claim("remove", [Nothing EXCEPT !.who = ps])
        BY DEF Claim
    <2>3. Types'
        BY <1>1, RemoveTyped DEF Alone
    <2> QED BY <2>1, <2>2, <2>3, AloneRead
<1>2. CASE RemoveRelations(r)
    <2> DEFINE seen == RowsOf(req[r].who, ConditionKind)
               q == [req[r] EXCEPT !.seen = seen]
    <2>1. Enter(r, "removing", q) /\ UNCHANGED rows /\ pc[r] = "remove"
        BY <1>2 DEF RemoveRelations
    <2>2. q.seen = seen /\ q.who = req[r].who
        BY FieldsTyped DEF Alone, ReqType
    <2> HIDE DEF q
    <2>3. Claim("removing", q)
        BY <2>2 DEF Claim
    <2>4. Types'
        BY <1>2, RemoveRelationsTyped DEF Alone
    <2> QED BY <2>1, <2>3, <2>4, AloneRead
<1> QED BY <1>1, <1>2

LEMMA AloneDrop ==
    ASSUME Alone, NEW r \in Request, NEW c \in Condition, DropRead(r, c)
    PROVE  Alone'
<1>1. Enter(r, "drop", [Nothing EXCEPT !.cond = c]) /\ UNCHANGED rows /\ pc[r] = "idle"
    BY DEF DropRead, Begin
<1>2. Claim("drop", [Nothing EXCEPT !.cond = c])
    BY DEF Claim
<1>3. Types'
    BY DropTyped DEF Alone
<1> QED BY <1>1, <1>2, <1>3, AloneRead

LEMMA AloneDropWrite ==
    ASSUME Alone, NEW r \in Request, DropWrite(r)
    PROVE  Alone'
<1> DEFINE seen == {u \in uses : u[2] = req[r].cond}
           off == {p \in Policy : /\ <<p, req[r].cond>> \in seen
                                  /\ NeedsReview(ConditionsIn(uses \ seen, p))}
           q == [req[r] EXCEPT !.seen = seen, !.off = off]
<1>1. Enter(r, "dropping", q) /\ UNCHANGED rows /\ pc[r] = "drop"
    BY DEF DropWrite
<1>2. \A p \in Policy : <<p, req[r].cond>> \in seen /\ Missing(ConditionsIn(uses \ seen, p))
                            => p \in off
    BY DEF NeedsReview
<1> HIDE DEF seen, off
<1>3. q.seen = seen /\ q.off = off /\ q.cond = req[r].cond
    BY FieldsTyped DEF Alone, ReqType
<1> HIDE DEF q
<1>4. Droppable(q)
    BY <1>2, <1>3 DEF Droppable, seen
<1>5. Claim("dropping", q)
    BY <1>4 DEF Claim
<1>6. Types'
    BY DropWriteTyped DEF Alone
<1> QED BY <1>1, <1>5, <1>6, AloneRead

LEMMA AloneMove ==
    ASSUME Alone, NEW r \in Request, NEW c \in Condition, NEW o \in Org, MoveRead(r, c, o)
    PROVE  Alone'
<1>1. /\ Enter(r, "move", [Nothing EXCEPT !.cond = c, !.org = o])
      /\ UNCHANGED rows /\ pc[r] = "idle"
    BY DEF MoveRead, Begin
<1>2. Claim("move", [Nothing EXCEPT !.cond = c, !.org = o])
    BY DEF Claim
<1>3. Types'
    BY MoveTyped DEF Alone
<1> QED BY <1>1, <1>2, <1>3, AloneRead

LEMMA AloneDetachWrite ==
    ASSUME Alone, NEW r \in Request, DetachWrite(r)
    PROVE  Alone'
<1> DEFINE c == req[r].cond
           o == req[r].org
           invalid == {p \in Policy : /\ <<p, c>> \in uses /\ row[p] # "deleted"
                                      /\ o \notin Sources[owner[p]]}
           seen == invalid \X {c}
           off == {p \in invalid : active[p] \/ NeedsReview(ConditionsIn(uses \ seen, p))}
           q == [req[r] EXCEPT !.seen = seen, !.off = off]
<1>1. Enter(r, "detaching", q) /\ UNCHANGED rows /\ pc[r] = "detach"
    BY DEF DetachWrite
<1>2. Types /\ NoDanglingUse /\ Claim("detach", req[r])
    BY <1>1 DEF Alone, Rules
<1>3. \A u \in uses : u \in seen <=> u[2] = c /\ o \notin Sources[owner[u[1]]]
    <2> SUFFICES ASSUME NEW u \in uses
                 PROVE  u \in seen <=> u[2] = c /\ o \notin Sources[owner[u[1]]]
        OBVIOUS
    <2>1. u[1] \in Policy /\ u = <<u[1], u[2]>> /\ row[u[1]] = "live"
        BY <1>2 DEF Types, RowsTyped, NoDanglingUse
    <2>2. u \in seen <=> u[1] \in invalid /\ u[2] = c
        BY <2>1
    <2> QED BY <2>1, <2>2
<1>4. \A p \in Policy : <<p, c>> \in seen /\ active[p] => p \in off
    OBVIOUS
<1> HIDE DEF seen, off
<1>5. q.seen = seen /\ q.off = off /\ q.cond = c /\ q.org = o
    BY <1>2, FieldsTyped DEF ReqType
<1> HIDE DEF q
<1>6. Detachable(q)
    BY <1>3, <1>4, <1>5 DEF Detachable
<1>7. Claim("detaching", q)
    BY <1>2, <1>5, <1>6 DEF Claim
<1>8. Types'
    BY DetachWriteTyped DEF Alone
<1> QED BY <1>1, <1>5, <1>7, <1>8, AloneRead

-----------------------------------------------------------------------------
(* Each commit keeps the rules, by what its request relies on.              *)

\* What holds of a policy's relations while nothing is being detached.
LEMMA RelationsOf ==
    ASSUME Alone, NEW p \in Policy
    PROVE  \A c \in ConditionsIn(uses, p) :
               /\ row[p] = "live" /\ c \in kept
               /\ Reached => home[c] \in Sources[owner[p]]
<1>1. NoDanglingUse
    BY DEF Alone, Rules
<1> QED BY <1>1 DEF ConditionsIn, NoDanglingUse, Reached

LEMMA AloneCreateCommit ==
    ASSUME PolicyAssumption, Alone, OneAtATime, NEW r \in Request, NEW p \in Policy,
           CreateCommit(r, p)
    PROVE  Alone'
<1> DEFINE q == req[r]
<1>1. /\ pc[r] = "insert" /\ row[p] = "absent" /\ Finish(r)
      /\ row' = [row EXCEPT ![p] = "live"] /\ owner' = [owner EXCEPT ![p] = q.org]
      /\ draft' = [draft EXCEPT ![p] = q.draft] /\ active' = [active EXCEPT ![p] = q.want]
      /\ uses' = uses \cup ({p} \X q.new) /\ home' = home /\ kept' = kept
    BY DEF CreateCommit
<1>2. Types /\ Types'
    BY CreateCommitTyped DEF Alone
<1>3. /\ Insertable(q) /\ q.org \in Org /\ q.draft \in BOOLEAN /\ q.want \in BOOLEAN
      /\ q.new \subseteq Condition
    BY <1>1, <1>2, FieldsTyped DEF Alone, Claim, Given
<1>4. ~ CrossOrg => Reached
    BY <1>1, NoneDetaching
<1> HIDE DEF q
<1>5. \A x \in Policy \ {p} :
          /\ row'[x] = row[x] /\ owner'[x] = owner[x]
          /\ draft'[x] = draft[x] /\ active'[x] = active[x]
          /\ \A c \in Condition : <<x, c>> \in uses' <=> <<x, c>> \in uses
    BY <1>1, <1>2 DEF Types, RowsTyped
<1>6. /\ row'[p] = "live" /\ owner'[p] = q.org /\ draft'[p] = q.draft
      /\ active'[p] = q.want
    BY <1>1, <1>2 DEF Types, RowsTyped
<1>7. ConditionsIn(uses', p) = q.new
    <2>1. \A c \in Condition : <<p, c>> \notin uses
        BY <1>1 DEF Alone, Rules, NoDanglingUse
    <2> QED BY <1>1, <1>3, <2>1 DEF ConditionsIn
<1>8. /\ active'[p] = TRUE => ~ Missing(ConditionsIn(uses', p))
      /\ draft'[p] = FALSE => ~ Taken(owner'[p], p)
      /\ \A c \in ConditionsIn(uses', p) : c \in kept
      /\ ~ CrossOrg => \A c \in ConditionsIn(uses', p) : home[c] \in Sources[owner'[p]]
    BY <1>3, <1>6, <1>7 DEF Insertable, Usable, Taken
<1>9. Rules'
    BY <1>1, <1>2, <1>4, <1>5, <1>6, <1>8, RulesWritten
<1> QED BY <1>1, <1>2, <1>9, AloneFinish

\* The relations a transaction leaves are those it named and those it kept.
LEMMA RelationsAfter ==
    ASSUME Types, NEW q, NEW p \in Policy, q.who = {p}, q.new \subseteq Condition,
           q.seen = RowsOf({p}, q.given), uses' = After(q)
    PROVE  /\ \A c \in ConditionsIn(uses', p) :
                  c \in q.new \/ (c \in ConditionsIn(uses, p) /\ KindOf[c] \notin q.given)
           /\ \A x \in Policy \ {p}, c \in Condition : <<x, c>> \in uses' <=> <<x, c>> \in uses
<1>1. \A u \in uses : u \in q.seen <=> u[1] = p /\ KindOf[u[2]] \in q.given
    BY DEF RowsOf
<1>2. uses' = (uses \ q.seen) \cup ({p} \X q.new)
    BY DEF After
<1> QED BY <1>1, <1>2 DEF ConditionsIn

LEMMA AloneUpdateCommit ==
    ASSUME PolicyAssumption, Alone, OneAtATime, NEW r \in Request, NEW p \in Policy,
           UpdateCommit(r, p)
    PROVE  Alone'
<1> DEFINE q == req[r]
<1>1. /\ pc[r] = "commit" /\ q.who = {p} /\ Finish(r)
      /\ owner' = [owner EXCEPT ![p] = IF q.org = Keep THEN @ ELSE q.org]
      /\ draft' = [draft EXCEPT ![p] = q.draft] /\ active' = [active EXCEPT ![p] = q.want]
      /\ row' = row /\ home' = home /\ kept' = kept
    BY DEF UpdateCommit
<1>2. uses' = After(q)
    BY DEF UpdateCommit, View, After
<1>3. Types /\ Types'
    BY UpdateCommitTyped DEF Alone
<1>4. /\ Updatable(q) /\ Replaceable(q)
      /\ q.draft \in BOOLEAN /\ q.want \in BOOLEAN /\ q.new \subseteq Condition
    BY <1>1, <1>3, FieldsTyped DEF Alone, Claim, Given
<1>5. ~ CrossOrg => Reached
    BY <1>1, NoneDetaching
<1> HIDE DEF q
<1>6. /\ row[p] = "live" /\ Usable(Target(q, p), q)
      /\ q.draft = FALSE => ~ Taken(Target(q, p), p)
      /\ Target(q, p) # owner[p] => q.given = KindsInUse
    BY <1>1, <1>4 DEF Updatable
<1>7. q.seen = RowsOf({p}, q.given) /\ (q.want = TRUE => ~ Missing(ConditionsIn(uses', p)))
    <2>1. q.want # Keep
        BY <1>4 DEF PolicyAssumption
    <2> QED BY <1>1, <1>2, <1>4, <2>1 DEF Replaceable
<1>8. /\ \A c \in ConditionsIn(uses', p) :
             c \in q.new \/ (c \in ConditionsIn(uses, p) /\ KindOf[c] \notin q.given)
      /\ \A x \in Policy \ {p}, c \in Condition : <<x, c>> \in uses' <=> <<x, c>> \in uses
    BY <1>1, <1>2, <1>3, <1>4, <1>7, RelationsAfter
<1>9. /\ row'[p] = "live" /\ owner'[p] = Target(q, p) /\ draft'[p] = q.draft
      /\ active'[p] = q.want
    BY <1>1, <1>3, <1>6 DEF Types, RowsTyped, Target
<1>10. \A x \in Policy \ {p} : /\ row'[x] = row[x] /\ owner'[x] = owner[x]
                               /\ draft'[x] = draft[x] /\ active'[x] = active[x]
    BY <1>1, <1>3 DEF Types, RowsTyped
<1>11. \A c \in ConditionsIn(uses', p) : c \in kept
    BY <1>6, <1>8, RelationsOf DEF Usable
<1>12. ~ CrossOrg => \A c \in ConditionsIn(uses', p) : home[c] \in Sources[owner'[p]]
    <2> SUFFICES ASSUME ~ CrossOrg, NEW c \in ConditionsIn(uses', p)
                 PROVE  home[c] \in Sources[owner'[p]]
        OBVIOUS
    <2>1. CASE c \in q.new
        BY <2>1, <1>6, <1>9 DEF Usable
    <2>2. CASE c \in ConditionsIn(uses, p) /\ KindOf[c] \notin q.given
        <3>1. KindOf[c] \in KindsInUse
            BY <2>2 DEF ConditionsIn, KindsInUse
        <3>2. owner'[p] = owner[p]
            BY <2>2, <3>1, <1>6, <1>9
        <3> QED BY <2>2, <3>2, <1>5, RelationsOf
    <2> QED BY <2>1, <2>2, <1>8
<1>13. Rules'
    BY <1>1, <1>3, <1>5, <1>6, <1>7, <1>8, <1>9, <1>10, <1>11, <1>12, RulesWritten
<1> QED BY <1>1, <1>3, <1>13, AloneFinish

LEMMA AloneAssignCommit ==
    ASSUME PolicyAssumption, Alone, OneAtATime, NEW r \in Request, NEW p \in Policy,
           AssignCommit(r, p)
    PROVE  Alone'
<1> DEFINE q == req[r]
<1>1. /\ pc[r] = "assigned" /\ q.who = {p} /\ Finish(r)
      /\ active' = [active EXCEPT ![p] = IF q.want = Keep THEN @ ELSE q.want]
      /\ row' = row /\ owner' = owner /\ draft' = draft /\ home' = home /\ kept' = kept
    BY DEF AssignCommit
<1>2. uses' = After(q)
    BY DEF AssignCommit, View, After
<1>3. Types /\ Types'
    BY AssignCommitTyped DEF Alone
<1>4. Linkable(q) /\ Replaceable(q) /\ q.new \subseteq Condition
    BY <1>1, <1>3, FieldsTyped DEF Alone, Claim
<1>5. ~ CrossOrg => Reached
    BY <1>1, NoneDetaching
<1> HIDE DEF q
<1>6. row[p] = "live" /\ Usable(owner[p], q)
    BY <1>1, <1>4 DEF Linkable
<1>7. /\ q.seen = RowsOf({p}, q.given)
      /\ active'[p] = (IF q.want = Keep THEN active[p] ELSE q.want)
    BY <1>1, <1>3, <1>4 DEF Replaceable, Types, RowsTyped
<1>8. active'[p] = TRUE => ~ Missing(ConditionsIn(uses', p))
    BY <1>1, <1>2, <1>4, <1>7 DEF Replaceable
<1>9. /\ \A c \in ConditionsIn(uses', p) :
             c \in q.new \/ (c \in ConditionsIn(uses, p) /\ KindOf[c] \notin q.given)
      /\ \A x \in Policy \ {p}, c \in Condition : <<x, c>> \in uses' <=> <<x, c>> \in uses
    BY <1>1, <1>2, <1>3, <1>4, <1>7, RelationsAfter
<1>10. \A x \in Policy \ {p} : active'[x] = active[x]
    BY <1>1, <1>3 DEF Types, RowsTyped
<1>11. draft[p] = FALSE => ~ Taken(owner[p], p)
    BY <1>6 DEF Alone, Rules, OnePublished, Taken, Published
<1>12. \A c \in ConditionsIn(uses', p) : c \in kept
    BY <1>6, <1>9, RelationsOf DEF Usable
<1>13. ~ CrossOrg => \A c \in ConditionsIn(uses', p) : home[c] \in Sources[owner[p]]
    BY <1>5, <1>6, <1>9, RelationsOf DEF Usable
<1>14. Rules'
    BY <1>1, <1>3, <1>5, <1>6, <1>8, <1>9, <1>10, <1>11, <1>12, <1>13, RulesWritten
<1> QED BY <1>1, <1>3, <1>14, AloneFinish

\* toggleActive and bulkSetActive write the flag only.
LEMMA AloneSwitch ==
    ASSUME Alone, OneAtATime, NEW r \in Request,
           BulkWrite(r) \/ \E p \in Policy : ToggleWrite(r, p)
    PROVE  Alone'
<1>1. /\ pc[r] \in {"toggle", "bulk"} /\ Finish(r)
      /\ row' = row /\ owner' = owner /\ draft' = draft /\ uses' = uses
      /\ home' = home /\ kept' = kept
    BY DEF BulkWrite, ToggleWrite
<1>2. Types /\ Types'
    BY BulkWriteTyped, ToggleWriteTyped DEF Alone
<1>3. Switchable(req[r]) /\ req[r].want \in BOOLEAN
    BY <1>1, <1>2, FieldsTyped DEF Alone, Claim, Given
<1>4. \A p \in Policy : active'[p] => active[p] \/ (p \in req[r].who /\ req[r].want = TRUE)
    <2> SUFFICES ASSUME NEW p \in Policy, active'[p], ~ active[p]
                 PROVE  p \in req[r].who /\ req[r].want = TRUE
        OBVIOUS
    <2>1. CASE BulkWrite(r)
        BY <2>1, <1>3 DEF BulkWrite
    <2>2. CASE \E x \in Policy : ToggleWrite(r, x)
        <3>1. PICK x \in Policy : ToggleWrite(r, x)
            BY <2>2
        <3>2. active' = [active EXCEPT ![x] = req[r].want] /\ req[r].who = {x}
            BY <3>1 DEF ToggleWrite
        <3> QED BY <3>2, <1>2, <1>3 DEF Types, RowsTyped
    <2> QED BY <2>1, <2>2
<1>5. ActiveComplete'
    <2>1. \A p \in Policy : active'[p] => row[p] = "live" /\ ~ Missing(ConditionsIn(uses, p))
        BY <1>3, <1>4 DEF Alone, Rules, ActiveComplete, Switchable
    <2> QED BY <2>1, <1>1 DEF ActiveComplete
<1>6. OnePublished' /\ NoDanglingUse'
    BY <1>1 DEF Alone, Rules, OnePublished, NoDanglingUse, Published
<1>7. ~ CrossOrg => UsesInScope'
    <2>1. ~ CrossOrg => Reached
        BY <1>1, NoneDetaching
    <2> QED BY <2>1, <1>1 DEF Reached, UsesInScope
<1> QED BY <1>1, <1>2, <1>5, <1>6, <1>7, AloneFinish DEF Rules

LEMMA AloneRemoveCommit ==
    ASSUME PolicyAssumption, Alone, OneAtATime, NEW r \in Request, RemoveCommit(r)
    PROVE  Alone'
<1> DEFINE q == req[r]
<1>1. /\ pc[r] = "removing" /\ Finish(r)
      /\ uses' = uses \ q.seen
      /\ row' = [p \in Policy |-> IF p \in q.who THEN "deleted" ELSE row[p]]
      /\ active' = [p \in Policy |-> p \notin q.who /\ active[p]]
      /\ owner' = owner /\ draft' = draft /\ home' = home /\ kept' = kept
    BY DEF RemoveCommit
<1>2. Types /\ Types'
    BY RemoveCommitTyped DEF Alone
<1>3. q.seen = RowsOf(q.who, ConditionKind)
    BY <1>1 DEF Alone, Claim
<1> HIDE DEF q
<1>4. \A u \in uses : /\ u[1] \in Policy /\ u[2] \in Condition
                      /\ u \in q.seen <=> u[1] \in q.who
    BY <1>2, <1>3 DEF RowsOf, Types, RowsTyped, PolicyAssumption
<1>5. \A p \in Policy \ q.who : ConditionsIn(uses', p) = ConditionsIn(uses, p)
    BY <1>1, <1>4 DEF ConditionsIn
<1>6. \A p \in Policy : active'[p] => /\ active[p] /\ row'[p] = row[p]
                                      /\ ~ Missing(ConditionsIn(uses', p))
    BY <1>1, <1>5 DEF Alone, Rules, ActiveComplete
<1>7. \A p \in Policy : row'[p] = "live" => row[p] = "live"
    BY <1>1
<1>8. \A u \in uses' : u \in uses /\ row'[u[1]] = row[u[1]] /\ u[2] \in kept'
    BY <1>1, <1>4 DEF Alone, Rules, NoDanglingUse
<1>9. ~ CrossOrg => Reached
    BY <1>1, NoneDetaching
<1>10. Rules'
    BY <1>1, <1>2, <1>6, <1>7, <1>8, <1>9, RulesShrunk DEF Reached
<1> QED BY <1>1, <1>2, <1>10, AloneFinish

LEMMA AloneDropCommit ==
    ASSUME Alone, OneAtATime, NEW r \in Request, DropCommit(r)
    PROVE  Alone'
<1> DEFINE q == req[r]
<1>1. /\ pc[r] = "dropping" /\ Finish(r)
      /\ uses' = uses \ q.seen /\ kept' = kept \ {q.cond}
      /\ active' = [p \in Policy |-> p \notin q.off /\ active[p]]
      /\ row' = row /\ owner' = owner /\ draft' = draft /\ home' = home
    BY DEF DropCommit
<1>2. Types /\ Types'
    BY DropCommitTyped DEF Alone
<1>3. Droppable(q)
    BY <1>1 DEF Alone, Claim
<1> HIDE DEF q
<1>4. \A u \in uses : u \in q.seen <=> u[2] = q.cond
    BY <1>3 DEF Droppable
<1>5. ASSUME NEW p \in Policy, active'[p]
      PROVE  active[p] /\ ~ Missing(ConditionsIn(uses', p))
    <2>1. active[p] /\ p \notin q.off
        BY <1>1, <1>5
    <2>2. CASE <<p, q.cond>> \in q.seen
        BY <2>1, <2>2, <1>1, <1>3 DEF Droppable
    <2>3. CASE <<p, q.cond>> \notin q.seen
        <3>1. ConditionsIn(uses', p) = ConditionsIn(uses, p)
            BY <2>3, <1>1, <1>4 DEF ConditionsIn
        <3> QED BY <2>1, <3>1 DEF Alone, Rules, ActiveComplete
    <2> QED BY <2>1, <2>2, <2>3
<1>6. \A u \in uses' : u \in uses /\ u[2] \in kept'
    BY <1>1, <1>4 DEF Alone, Rules, NoDanglingUse
<1>7. ~ CrossOrg => Reached
    BY <1>1, NoneDetaching
<1>8. Rules'
    BY <1>1, <1>2, <1>5, <1>6, <1>7, RulesShrunk DEF Reached
<1> QED BY <1>1, <1>2, <1>8, AloneFinish

LEMMA AloneDetachCommit ==
    ASSUME Alone, OneAtATime, NEW r \in Request, DetachCommit(r)
    PROVE  Alone'
<1> DEFINE q == req[r]
<1>1. /\ pc[r] = "detaching" /\ Finish(r)
      /\ uses' = uses \ q.seen
      /\ active' = [p \in Policy |-> p \notin q.off /\ active[p]]
      /\ row' = row /\ owner' = owner /\ draft' = draft /\ home' = home /\ kept' = kept
    BY DEF DetachCommit
<1>2. Types /\ Types'
    BY DetachCommitTyped DEF Alone
<1>3. Detachable(q) /\ home[q.cond] = q.org
    BY <1>1 DEF Alone, Claim
<1>4. ~ CrossOrg => \A u \in uses : home[u[2]] \in Sources[owner[u[1]]] \/ u[2] = q.cond
    BY <1>1 DEF Alone, Rules, UsesInScope, OneAtATime
<1> HIDE DEF q
<1>5. \A u \in uses : u \in q.seen <=> u[2] = q.cond /\ q.org \notin Sources[owner[u[1]]]
    BY <1>3 DEF Detachable
<1>6. ASSUME NEW p \in Policy, active'[p]
      PROVE  active[p] /\ ~ Missing(ConditionsIn(uses', p))
    <2>1. active[p] /\ <<p, q.cond>> \notin q.seen
        BY <1>1, <1>6, <1>3 DEF Detachable
    <2>2. ConditionsIn(uses', p) = ConditionsIn(uses, p)
        BY <2>1, <1>1, <1>5 DEF ConditionsIn
    <2> QED BY <2>1, <2>2 DEF Alone, Rules, ActiveComplete
<1>7. \A u \in uses' : u \in uses /\ u[2] \in kept'
    BY <1>1 DEF Alone, Rules, NoDanglingUse
<1>8. ~ CrossOrg => \A u \in uses' : home[u[2]] \in Sources[owner[u[1]]]
    BY <1>1, <1>3, <1>4, <1>5
<1>9. Rules'
    BY <1>1, <1>2, <1>6, <1>7, <1>8, RulesShrunk
<1> QED BY <1>1, <1>2, <1>9, AloneFinish

\* The condition has moved; its relations are out of reach until it is detached.
LEMMA AloneMoveCommit ==
    ASSUME Alone, OneAtATime, NEW r \in Request, MoveCommit(r)
    PROVE  Alone'
<1>1. /\ pc[r] = "move" /\ pc' = [pc EXCEPT ![r] = "detach"] /\ req' = req
      /\ home' = [home EXCEPT ![req[r].cond] = req[r].org]
      /\ row' = row /\ owner' = owner /\ draft' = draft /\ active' = active
      /\ uses' = uses /\ kept' = kept
    BY DEF MoveCommit
<1>2. Types /\ Types'
    BY MoveCommitTyped DEF Alone
<1>3. req[r].cond \in Condition
    BY <1>1, <1>2, FieldsTyped DEF Given
<1>4. /\ pc'[r] = "detach" /\ home'[req[r].cond] = req[r].org
      /\ \A c \in Condition : c # req[r].cond => home'[c] = home[c]
    BY <1>1, <1>2, <1>3 DEF Types, RowsTyped, RequestsTyped
<1>5. \A s \in Request \ {r} : pc'[s] = "idle"
    BY <1>1, <1>2 DEF OneAtATime, Types, RequestsTyped
<1>6. \A s \in Request : Claim(pc[s], req[s])'
    <2>1. \A s \in Request \ {r} : Claim(pc[s], req[s])'
        BY <1>5 DEF Claim
    <2>2. Claim(pc[r], req[r])'
        BY <1>1, <1>4 DEF Claim
    <2> QED BY <2>1, <2>2
<1>7. ActiveComplete' /\ OnePublished' /\ NoDanglingUse'
    BY <1>1 DEF Alone, Rules, ActiveComplete, OnePublished, NoDanglingUse, Published,
                ConditionsIn
<1>8. ~ CrossOrg => UsesInScope'
    <2> SUFFICES ASSUME ~ CrossOrg, NEW u \in uses
                 PROVE  home'[u[2]] \in Sources[owner[u[1]]] \/ u[2] = req[r].cond
        BY <1>1, <1>4 DEF UsesInScope
    <2>1. Reached
        BY <1>1, NoneDetaching
    <2>2. u[2] \in Condition
        BY <1>2 DEF Types, RowsTyped
    <2> QED BY <2>1, <2>2, <1>4 DEF Reached
<1> QED BY <1>2, <1>6, <1>7, <1>8 DEF Alone, Rules

-----------------------------------------------------------------------------
(* The theorems.                                                            *)

LEMMA AloneStep ==
    ASSUME PolicyAssumption, Alone, OneAtATime, NEW r \in Request, StepOf(r)
    PROVE  Alone'
<1>1. CASE \E o \in Org, d \in BOOLEAN, w \in BOOLEAN, new \in SUBSET Condition :
               CreateCheck(r, o, d, w, new)
    BY <1>1, AloneCreate
<1>2. CASE \E p \in Policy : CreateCommit(r, p)
    BY <1>2, AloneCreateCommit
<1>3. CASE \E p \in Policy, o \in Org \cup {Keep}, d \in BOOLEAN \cup {Keep},
              w \in BOOLEAN \cup {Keep}, given \in SUBSET KindsInUse :
               \E new \in Choices(given) : UpdateRead(r, p, o, d, w, given, new)
    BY <1>3, AloneUpdate DEF Choices
<1>4. CASE \E p \in Policy : UpdateWrite(r, p) \/ UpdateCommit(r, p)
    BY <1>4, AloneUpdateWrite, AloneUpdateCommit
<1>5. CASE \E p \in Policy, kind \in KindsInUse :
               \E new \in Choices({kind}) : AssignRead(r, p, kind, new)
    BY <1>5, AloneAssign DEF Choices
<1>6. CASE \E p \in Policy : AssignWrite(r, p) \/ AssignCommit(r, p)
    BY <1>6, AloneAssignWrite, AloneAssignCommit
<1>7. CASE \E p \in Policy : ToggleRead(r, p) \/ ToggleWrite(r, p)
    BY <1>7, AloneToggle, AloneSwitch
<1>8. CASE \/ \E ps \in SUBSET Policy, on \in BOOLEAN : BulkRead(r, ps, on)
           \/ BulkWrite(r)
    BY <1>8, AloneBulk, AloneSwitch
<1>9. CASE \/ \E ps \in SUBSET Policy : RemoveRead(r, ps)
           \/ RemoveRelations(r) \/ RemoveCommit(r)
    BY <1>9, AloneRemove, AloneRemoveCommit
<1>10. CASE \/ \E c \in Condition : DropRead(r, c)
            \/ DropWrite(r) \/ DropCommit(r)
    BY <1>10, AloneDrop, AloneDropWrite, AloneDropCommit
<1>11. CASE \/ \E c \in Condition, o \in Org : MoveRead(r, c, o)
            \/ MoveCommit(r) \/ DetachWrite(r) \/ DetachCommit(r)
    BY <1>11, AloneMove, AloneMoveCommit, AloneDetachWrite, AloneDetachCommit
<1> QED BY <1>1, <1>2, <1>3, <1>4, <1>5, <1>6, <1>7, <1>8, <1>9, <1>10, <1>11 DEF StepOf

LEMMA AloneNext ==
    ASSUME PolicyAssumption, Alone, OneAtATime, [Next]_vars
    PROVE  Alone'
<1>1. CASE UNCHANGED vars
    <2>1. Types'
        BY TypesNext DEF Alone
    <2>2. UNCHANGED rows /\ pc' = pc /\ req' = req
        BY <1>1 DEF vars, rows
    <2>3. \A s \in Request : Claim(pc[s], req[s])'
        <3>1. \A st, q : Claim(st, q) => Claim(st, q)'
            BY <2>2, SameClaim
        <3> SUFFICES ASSUME NEW s \in Request PROVE Claim(pc[s], req[s])'
            OBVIOUS
        <3>2. PICK st, q : st = pc'[s] /\ q = req'[s]
            OBVIOUS
        <3>3. Claim(st, q)
            BY <2>2, <3>2 DEF Alone
        <3>4. Claim(st, q)'
            BY <3>1, <3>3
        <3> QED BY <3>2, <3>4
    <2>4. ActiveComplete' /\ OnePublished' /\ NoDanglingUse'
        BY <2>2 DEF Alone, Rules, ActiveComplete, OnePublished, NoDanglingUse, Published,
                    ConditionsIn, rows
    <2>5. UsesInScope => UsesInScope'
        BY <2>2 DEF UsesInScope, rows
    <2> QED BY <2>1, <2>3, <2>4, <2>5 DEF Alone, Rules
<1>2. CASE Next
    BY <1>2, NextIsStep, AloneStep
<1> QED BY <1>1, <1>2

LEMMA AloneInit ==
    ASSUME PolicyAssumption, Init
    PROVE  Alone
<1>1. \A r \in Request : Claim(pc[r], req[r])
    BY DEF Init, Claim
<1>2. Rules
    BY DEF Init, Rules, ActiveComplete, OnePublished, NoDanglingUse, UsesInScope, Published
<1> QED BY <1>1, <1>2, TypesInit DEF Alone

LEMMA AloneInvariant ==
    ASSUME PolicyAssumption
    PROVE  Spec /\ []OneAtATime => []Alone
<1>1. Init => Alone
    BY AloneInit
<1>2. Alone /\ OneAtATime /\ [Next]_vars => Alone'
    BY AloneNext
<1> QED BY <1>1, <1>2, PTL DEF Spec

\* Through every operation, a policy in force is live and has a zone and a time
\* condition: whichever of them is assigned, replaced, removed or moved away.
THEOREM PoliciesInForce ==
    ASSUME PolicyAssumption
    PROVE  Spec /\ []OneAtATime => []ActiveComplete
<1>1. Alone => ActiveComplete
    BY DEF Alone, Rules
<1> QED BY <1>1, AloneInvariant, PTL

\* create and update never leave an organization with two published policies,
\* whether a draft is published or a published policy changes its organization.
THEOREM OnePolicyPerOrg ==
    ASSUME PolicyAssumption
    PROVE  Spec /\ []OneAtATime => []OnePublished
<1>1. Alone => OnePublished
    BY DEF Alone, Rules
<1> QED BY <1>1, AloneInvariant, PTL

\* A relation row outlives neither its policy nor its condition, and, for users
\* who are not super admins, links a policy to a condition of its organization
\* or of one above it, except while a moved condition is being detached.
THEOREM RelationsFit ==
    ASSUME PolicyAssumption, ~ CrossOrg
    PROVE  Spec /\ []OneAtATime => []UsesFit
<1>1. Alone => UsesFit
    BY DEF Alone, Rules, UsesFit
<1> QED BY <1>1, AloneInvariant, PTL
================================================================================
