------------------------ MODULE OrganizationTreeProofs ------------------------
(***************************************************************************)
(* What OrganizationTree guarantees for every set of organizations, every  *)
(* number of concurrent requests and every starting tree.                  *)
(***************************************************************************)
EXTENDS OrganizationTree, FiniteSetTheorems, TLAPS

\* The type of the requests' local state, on its own.
ReqTypeOK ==
    /\ pc \in [Request -> Steps]
    /\ req \in [Request -> ReqType]
    /\ \A r \in Request :
           /\ req[r].to = Keep => pc[r] \in {"policy", "write"}
           /\ pc[r] \notin {"idle", "insert"} => req[r].org \in Org

\* A request that enters a step with well typed data stays well typed.
LEMMA EnterType ==
    ASSUME ReqTypeOK, NEW r \in Request, NEW s \in Steps, NEW d \in ReqType,
           Enter(r, s, d), d.to = Keep => s \in {"policy", "write"},
           s \notin {"idle", "insert"} => d.org \in Org
    PROVE  ReqTypeOK'
BY DEF Enter, ReqTypeOK

LEMMA GotoType ==
    ASSUME ReqTypeOK, NEW r \in Request, NEW s \in Steps,
           Goto(r, s), req[r].to = Keep => s \in {"policy", "write"},
           pc[r] \notin {"idle", "insert"}
    PROVE  ReqTypeOK'
BY DEF Goto, ReqTypeOK

LEMMA FinishType ==
    ASSUME ReqTypeOK, NEW r \in Request, Finish(r)
    PROVE  ReqTypeOK'
BY EnterType, TreeAssumption DEF Finish, ReqType, Nothing, Steps

\* A handler that goes on, or throws, keeps its local state well typed.
LEMMA CheckType ==
    ASSUME ReqTypeOK, NEW r \in Request, NEW s \in Steps, NEW ok,
           Check(r, ok, s), req[r].to = Keep => s \in {"policy", "write"},
           pc[r] \notin {"idle", "insert"}
    PROVE  ReqTypeOK'
BY GotoType, FinishType DEF Check

\* The variables keep their types whatever the requests in flight do.
THEOREM TreeTypes == Spec => []TypeOK
<1>1. Init => TypeOK
  BY TreeAssumption DEF Init, TypeOK, ReqType, Nothing, Steps, Existing
<1>2. TypeOK /\ [Next]_vars => TypeOK'
  <2> SUFFICES ASSUME TypeOK, [Next]_vars PROVE TypeOK'
    OBVIOUS
  <2>0. ReqTypeOK
    BY DEF ReqTypeOK, TypeOK
  <2>q. ASSUME ReqTypeOK', UNCHANGED <<tree, staff, policies>> PROVE TypeOK'
    BY <2>q DEF ReqTypeOK, TypeOK, tree
  <2>1. CASE UNCHANGED vars
    BY <2>1 DEF TypeOK, vars
  <2>2. ASSUME NEW r \in Request, NEW p \in Org \cup {NoOrg}, NEW t \in {"GROUP", "UNIT"},
               CreateCheck(r, p, t)
        PROVE  TypeOK'
    <3>1. ReqTypeOK'
      BY <2>0, <2>2, EnterType, TreeAssumption DEF CreateCheck, ReqType, Steps
    <3> QED
      BY <2>2, <2>q, <3>1 DEF CreateCheck
  <2>3. ASSUME NEW r \in Request, NEW o \in Org, CreateCommit(r, o)
        PROVE  TypeOK'
    <3>1. req[r].to \in Org \cup {NoOrg} /\ req[r].unit \in BOOLEAN
      BY <2>0, <2>3 DEF CreateCommit, ReqTypeOK, ReqType
    <3>2. ReqTypeOK'
      BY <2>0, <2>3, FinishType DEF CreateCommit
    <3> QED
      BY <2>3, <3>1, <3>2 DEF CreateCommit, TypeOK, ReqTypeOK
  <2>4. ASSUME NEW r \in Request, NEW o \in Org, NEW to \in Org \cup {NoOrg, Keep},
               NEW c \in Policy \cup {NoPolicy, Keep}, UpdateRead(r, o, to, c)
        PROVE  TypeOK'
    <3> DEFINE d == [org |-> o, to |-> to, was |-> parent[o], unit |-> coded[o],
                     pick |-> IF c = Keep THEN applied[o] ELSE c]
    <3>1. d \in ReqType
      BY DEF ReqType, TypeOK
    <3>2. (IF to \in Org THEN "parent" ELSE "policy") \in Steps
      BY DEF Steps
    <3>3. ReqTypeOK'
      BY <2>0, <2>4, <3>1, <3>2, EnterType, TreeAssumption DEF UpdateRead
    <3> QED
      BY <2>4, <2>q, <3>3 DEF UpdateRead
  <2>5. ASSUME NEW r \in Request,
               UpdateCheckParent(r) \/ UpdateCheckTree(r) \/ UpdateCheckType(r)
               \/ UpdateCheckPolicy(r) \/ RemoveCheckChildren(r) \/ RemoveCheckStaff(r)
        PROVE  TypeOK'
    <3>1. CASE UpdateCheckParent(r)
      BY <3>1, <2>0, <2>q, CheckType DEF UpdateCheckParent, Steps, ReqTypeOK
    <3>2. CASE UpdateCheckTree(r)
      BY <3>2, <2>0, <2>q, CheckType DEF UpdateCheckTree, Steps, ReqTypeOK
    <3>3. CASE UpdateCheckType(r)
      BY <3>3, <2>0, <2>q, CheckType DEF UpdateCheckType, Steps, ReqTypeOK
    <3>4. CASE UpdateCheckPolicy(r)
      BY <3>4, <2>0, <2>q, CheckType DEF UpdateCheckPolicy, Steps
    <3>5. CASE RemoveCheckChildren(r)
      BY <3>5, <2>0, <2>q, CheckType DEF RemoveCheckChildren, Steps, ReqTypeOK
    <3>6. CASE RemoveCheckStaff(r)
      BY <3>6, <2>0, <2>q, CheckType DEF RemoveCheckStaff, Steps, ReqTypeOK
    <3> QED
      BY <2>5, <3>1, <3>2, <3>3, <3>4, <3>5, <3>6
  <2>6. ASSUME NEW r \in Request, UpdateCommit(r) PROVE TypeOK'
    <3>1. req[r].to \in Org \cup {NoOrg, Keep} /\ req[r].pick \in Policy \cup {NoPolicy}
      BY <2>0 DEF ReqTypeOK, ReqType
    <3>2. ReqTypeOK'
      BY <2>0, <2>6, FinishType DEF UpdateCommit
    <3> QED
      BY <2>6, <3>1, <3>2 DEF UpdateCommit, TypeOK, ReqTypeOK
  <2>7. ASSUME NEW r \in Request, NEW o \in Org, RemoveRead(r, o) \/ HireCheck(r, o)
        PROVE  TypeOK'
    <3>1. ReqTypeOK'
      BY <2>0, <2>7, EnterType, TreeAssumption
      DEF RemoveRead, HireCheck, About, ReqType, Steps
    <3> QED
      BY <2>7, <2>q, <3>1 DEF RemoveRead, HireCheck
  <2>8. ASSUME NEW r \in Request, RemoveMoveArchived(r) PROVE TypeOK'
    <3>1. ReqTypeOK'
      BY <2>0, <2>8, GotoType DEF RemoveMoveArchived, Steps, ReqTypeOK
    <3> QED
      BY <2>8, <3>1 DEF RemoveMoveArchived, TypeOK, ReqTypeOK, tree
  <2>9. ASSUME NEW r \in Request, RemoveCommit(r) PROVE TypeOK'
    BY <2>0, <2>9, FinishType DEF RemoveCommit, TypeOK, ReqTypeOK
  <2>10. ASSUME NEW r \in Request, HireCommit(r) \/ TransferCommit(r) PROVE TypeOK'
    <3>1. ReqTypeOK'
      BY <2>0, <2>10, FinishType DEF HireCommit, TransferCommit
    <3>2. req[r].org \in Org
      BY <2>0, <2>10 DEF HireCommit, TransferCommit, ReqTypeOK
    <3> QED
      BY <2>10, <3>1, <3>2 DEF HireCommit, TransferCommit, TypeOK, ReqTypeOK, tree
  <2>11. ASSUME NEW r \in Request, NEW o \in Org, NEW last \in BOOLEAN, Archive(r, o, last)
         PROVE  TypeOK'
    BY <2>11 DEF Archive, TypeOK, tree
  <2>12. ASSUME NEW r \in Request, NEW src \in Org, NEW dst \in Org, TransferCheck(r, src, dst)
         PROVE  TypeOK'
    <3>1. ReqTypeOK'
      BY <2>0, <2>12, EnterType, TreeAssumption DEF TransferCheck, About, ReqType, Steps
    <3> QED
      BY <2>12, <2>q, <3>1 DEF TransferCheck
  <2>13. ASSUME NEW r \in Request, NEW p \in Policy, RemovePolicy(r, p) PROVE TypeOK'
    BY <2>13 DEF RemovePolicy, TypeOK, tree
  <2> QED
    BY <2>1, <2>2, <2>3, <2>4, <2>5, <2>6, <2>7, <2>8, <2>9, <2>10, <2>11, <2>12, <2>13
    DEF Next
<1> QED
  BY <1>1, <1>2, PTL DEF Spec

-----------------------------------------------------------------------------
(* The order of the tree. *)

\* What a step leaves of a row: it stays, it hangs from the root exactly if it
\* did, and while it is live its team code does not change.
Kept(o) ==
    /\ status'[o] # "absent"
    /\ (parent'[o] = Root) <=> (parent[o] = Root)
    /\ coded'[o] => coded[o]
    /\ status'[o] = "live" => status[o] = "live" /\ (coded'[o] <=> coded[o])

AllKept == \A o \in Org : status[o] # "absent" => Kept(o)

\* A step that leaves the rows alone.
LEMMA SameRowsKept ==
    ASSUME TypeOK, UNCHANGED tree PROVE AllKept
BY DEF TypeOK, tree, AllKept, Kept

LEMMA CreateKeeps ==
    ASSUME TypeOK, TreeInv, NEW r \in Request, NEW o \in Org, CreateCommit(r, o)
    PROVE  AllKept
<1> SUFFICES ASSUME NEW x \in Org, status[x] # "absent" PROVE Kept(x)
  BY DEF AllKept
<1>1. x # o
  BY DEF CreateCommit
<1>2. req[r].to \in Org \cup {NoOrg}
  BY TreeAssumption DEF TypeOK, ReqType, CreateCommit
<1>3. req[r].to \in Org => ~ coded[req[r].to]
  <2>1. ReqOK(r) /\ pc[r] = "insert"
    BY DEF TreeInv, CreateCommit
  <2>2. o # Root
    BY DEF TreeInv, CreateCommit
  <2> QED
    BY <2>1, <2>2, TreeAssumption DEF ReqOK, ParentFits
<1> QED
  BY <1>1, <1>2, <1>3, TreeAssumption DEF CreateCommit, TypeOK, Kept

\* The commit of an update that names a parent: the row keeps its class.
LEMMA UpdateKeeps ==
    ASSUME TypeOK, TreeInv, NEW r \in Request, UpdateCommit(r)
    PROVE  AllKept
<1> SUFFICES ASSUME NEW x \in Org, status[x] # "absent" PROVE Kept(x)
  BY DEF AllKept
<1> DEFINE q == req[r]
<1>1. ReqOK(r) /\ pc[r] = "write"
  BY DEF TreeInv, UpdateCommit
<1>2. RowKnown(r) /\ q.to \in Org \cup {Keep} /\ q.to # q.org
  BY <1>1 DEF ReqOK
<1>3. q.to \in Org => ~ coded[q.to] /\ q.org # Root
  BY <1>1 DEF ReqOK, ParentFits
<1>4. q.to \in Org => ((q.to = Root) <=> (parent[q.org] = Root))
  <2> SUFFICES ASSUME q.to \in Org PROVE (q.to = Root) <=> (q.was = Root)
    BY <1>2 DEF RowKnown
  <2>1. ReadClass(r, q.to) = ReadClass(r, q.was)
    BY <1>1 DEF ReqOK
  <2> QED
    BY <2>1, <1>3 DEF ReadClass, ClassOf
<1>5. parent'[x] = (IF x = q.org /\ q.to # Keep THEN q.to ELSE parent[x])
  BY DEF UpdateCommit, TypeOK
<1>6. coded'[x] = (x # q.to /\ coded[x])
  BY DEF UpdateCommit
<1>7. status'[x] = status[x]
  BY DEF UpdateCommit
<1>8. coded'[x] <=> coded[x]
  BY <1>2, <1>3, <1>6, TreeAssumption
<1>9. (parent'[x] = Root) <=> (parent[x] = Root)
  BY <1>2, <1>4, <1>5, TreeAssumption
<1> QED
  BY <1>7, <1>8, <1>9 DEF Kept

LEMMA RemoveKeeps ==
    ASSUME TypeOK, TreeInv, NEW r \in Request, RemoveCommit(r)
    PROVE  AllKept
BY DEF RemoveCommit, TypeOK, TreeInv, AllKept, Kept

\* What another request knows survives any step.
LEMMA ReqKept ==
    ASSUME TypeOK, TypeOK', TreeInv, AllKept, NEW r \in Request,
           pc'[r] = pc[r], req'[r] = req[r]
    PROVE  ReqOK(r)'
<1> DEFINE q == req[r]
<1>1. ReqOK(r)
  BY DEF TreeInv
<1>2. ASSUME NEW p \in Org, NEW c, ParentFits(p, c) PROVE ParentFits(p, c)'
  BY <1>2 DEF ParentFits, AllKept, Kept, Class, ClassOf
<1>3. RowKnown(r) => RowKnown(r)'
  BY DEF RowKnown, AllKept, Kept
<1>4. ReadClass(r, q.to)' = ReadClass(r, q.to) /\ ReadClass(r, q.was)' = ReadClass(r, q.was)
  BY DEF ReadClass, ClassOf
<1> QED
  BY <1>1, <1>2, <1>3, <1>4 DEF ReqOK, AllKept, Kept

\* The parts of TreeInv that speak of the rows and not of the requests.
RowsOK ==
    /\ parent[Root] = NoOrg /\ status[Root] = "live"
    /\ \A o \in Org : coded[o] => Class(o) = "UNIT" /\ status[o] = "live"
    /\ \A o \in Org : parent[o] # NoOrg => status[parent[o]] # "absent"
    /\ LevelOrder

\* A step that leaves the rows alone and serves one request.
LEMMA OneRequest ==
    ASSUME TypeOK, TypeOK', TreeInv, AllKept, RowsOK', NEW r \in Request, ReqOK(r)',
           NEW s, NEW d, Enter(r, s, d)
    PROVE  TreeInv'
<1> SUFFICES ASSUME NEW x \in Request PROVE ReqOK(x)'
  BY DEF TreeInv, RowsOK
<1>1. CASE x = r
  BY <1>1
<1>2. CASE x # r
  <2>1. pc'[x] = pc[x] /\ req'[x] = req[x]
    BY <1>2 DEF Enter, TypeOK
  <2> QED
    BY <2>1, ReqKept
<1> QED
  BY <1>1, <1>2

\* Goto and Check serve one request as well.
LEMMA OneStep ==
    ASSUME TypeOK, TypeOK', TreeInv, UNCHANGED tree, NEW r \in Request, ReqOK(r)',
           \A x \in Request \ {r} : pc'[x] = pc[x] /\ req'[x] = req[x]
    PROVE  TreeInv'
<1>1. AllKept
  BY SameRowsKept
<1>2. RowsOK'
  BY DEF tree, RowsOK, TreeInv, LevelOrder, Live, Class, ClassOf
<1> SUFFICES ASSUME NEW x \in Request PROVE ReqOK(x)'
  BY <1>2 DEF TreeInv, RowsOK
<1> QED
  BY <1>1, ReqKept

\* A finished request knows nothing that could go stale.
LEMMA FinishOK ==
    ASSUME TypeOK, NEW r \in Request, Finish(r) PROVE ReqOK(r)'
<1>1. pc'[r] = "idle"
  BY DEF Finish, Enter, TypeOK
<1> QED
  BY <1>1 DEF ReqOK

LEMMA OthersWait ==
    ASSUME TypeOK, NEW r \in Request, NEW s, NEW d, Enter(r, s, d) \/ Goto(r, s)
    PROVE  \A x \in Request \ {r} : pc'[x] = pc[x] /\ req'[x] = req[x]
BY DEF Enter, Goto, TypeOK

\* A check that fails finishes the request; one that passes has to establish
\* what the next step relies on.
LEMMA OneCheck ==
    ASSUME TypeOK, TypeOK', TreeInv, UNCHANGED tree, NEW r \in Request, NEW s, NEW ok,
           Check(r, ok, s), ok /\ Goto(r, s) => ReqOK(r)'
    PROVE  TreeInv'
<1>1. CASE ok
  <2>1. Goto(r, s)
    BY <1>1 DEF Check
  <2> QED
    BY <1>1, <2>1, OthersWait, OneStep
<1>2. CASE ~ ok
  <2>1. Finish(r) /\ Enter(r, "idle", Nothing)
    BY <1>2 DEF Check, Finish
  <2> QED
    BY <2>1, FinishOK, OthersWait, OneStep
<1> QED
  BY <1>1, <1>2

\* The commit of a create hangs a fresh row from a parent that fits it.
LEMMA CreateOrder ==
    ASSUME TypeOK, TypeOK', TreeInv, NEW r \in Request, NEW o \in Org, CreateCommit(r, o)
    PROVE  RowsOK'
<1> DEFINE p == req[r].to
<1>1. AllKept /\ o # Root /\ status[o] = "absent" /\ ~ coded[o]
  BY CreateKeeps DEF CreateCommit, TreeInv
<1>2. p = NoOrg \/ (p \in Org /\ ParentFits(p, ClassOf(o, p, req[r].unit)))
  BY <1>1 DEF TreeInv, ReqOK, CreateCommit
<1>3. /\ parent'[o] = p /\ coded'[o] = req[r].unit /\ status'[o] = "live"
      /\ \A x \in Org \ {o} : parent'[x] = parent[x] /\ status'[x] = status[x]
                             /\ coded'[x] = (x # p /\ coded[x])
  BY DEF CreateCommit, TypeOK
<1>4. \A x \in Org \ {o} : (coded'[x] <=> coded[x]) /\ Class(x)' = Class(x)
  <2> TAKE x \in Org \ {o}
  <2>1. x = p => ~ coded[x]
    BY <1>2, TreeAssumption DEF ParentFits
  <2>2. coded'[x] = coded[x] /\ parent'[x] = parent[x]
    BY <1>3, <2>1 DEF TypeOK
  <2> QED
    BY <2>2 DEF Class, ClassOf
<1>5. \A x \in Org : parent[x] # o
  BY <1>1, TreeAssumption DEF TreeInv, TypeOK
<1>6. p # o
  BY <1>1, <1>2, TreeAssumption DEF ParentFits
<1>7. \A x \in Org : coded'[x] => Class(x)' = "UNIT" /\ status'[x] = "live"
  <2>1. req[r].unit => p # Root
    BY TreeAssumption DEF TreeInv, ReqOK, CreateCommit
  <2>2. coded'[o] => Class(o)' = "UNIT" /\ status'[o] = "live"
    BY <1>1, <1>3, <2>1 DEF Class, ClassOf
  <2>3. ASSUME NEW x \in Org \ {o}, coded'[x] PROVE Class(x)' = "UNIT" /\ status'[x] = "live"
    <3>1. coded[x]
      BY <1>3, <2>3
    <3> QED
      BY <1>3, <1>4, <2>3, <3>1 DEF TreeInv
  <2> QED
    BY <2>2, <2>3
<1>8. LevelOrder'
  <2> SUFFICES ASSUME NEW x \in Org, status'[x] = "live", parent'[x] # NoOrg
               PROVE  Level[Class(parent[x])'] < Level[Class(x)']
    BY DEF LevelOrder, Live
  <2>1. CASE x = o
    <3>1. p \in Org /\ ParentFits(p, ClassOf(o, p, req[r].unit)) /\ (req[r].unit => p # Root)
      BY <1>2, <1>3, <2>1, TreeAssumption DEF TreeInv, ReqOK, CreateCommit
    <3>2. Class(x)' = ClassOf(o, p, req[r].unit) /\ Class(parent[x])' = Class(p)
      BY <1>3, <1>4, <1>6, <2>1, <3>1 DEF Class
    <3>3. p = Root \/ parent[p] = Root \/ Class(p) = "GROUP"
      BY <3>1 DEF ParentFits, Class, ClassOf
    <3>4. CASE p = Root
      BY <1>1, <3>2, <3>4 DEF Class, ClassOf, Level
    <3>5. CASE p # Root /\ parent[p] = Root
      BY <1>1, <3>1, <3>2, <3>5 DEF ParentFits, Class, ClassOf, Level
    <3>6. CASE p # Root /\ Class(p) = "GROUP"
      BY <1>1, <3>1, <3>2, <3>6 DEF ParentFits, Class, ClassOf, Level
    <3> QED
      BY <3>3, <3>4, <3>5, <3>6
  <2>2. CASE x # o
    <3>1. parent[x] # o /\ parent'[x] = parent[x] /\ x \in Live
      BY <1>3, <1>5, <2>2 DEF Live
    <3>2. parent[x] \in Org \ {o}
      BY <3>1 DEF TypeOK
    <3> QED
      BY <1>4, <2>2, <3>1, <3>2 DEF TreeInv, LevelOrder
  <2> QED
    BY <2>1, <2>2
<1>9. \A x \in Org : parent'[x] # NoOrg => status'[parent'[x]] # "absent"
  BY <1>1, <1>2, <1>3, TreeAssumption DEF ParentFits, TreeInv, TypeOK
<1>10. (parent[Root] = NoOrg /\ status[Root] = "live")'
  BY <1>1, <1>3, TreeAssumption DEF TreeInv
<1> QED
  BY <1>7, <1>8, <1>9, <1>10 DEF RowsOK

\* The commit of an update re-hangs a row within its class, or not at all.
LEMMA UpdateOrder ==
    ASSUME TypeOK, TypeOK', TreeInv, NEW r \in Request, UpdateCommit(r)
    PROVE  RowsOK'
<1> DEFINE o == req[r].org
           p == req[r].to
<1>1. AllKept
  BY UpdateKeeps
<1>2. /\ ReqOK(r) /\ pc[r] = "write" /\ RowKnown(r)
      /\ p \in Org \cup {Keep} /\ p # o /\ o \in Org
  BY DEF TreeInv, ReqOK, RowKnown, UpdateCommit
<1>3. /\ status' = status
      /\ parent'[o] = (IF p = Keep THEN parent[o] ELSE p)
      /\ \A x \in Org \ {o} : parent'[x] = parent[x]
      /\ \A x \in Org : coded'[x] = (x # p /\ coded[x])
  BY <1>2 DEF UpdateCommit, TypeOK
<1>4. p \in Org => o # Root /\ ParentFits(p, ReadClass(r, p))
  BY <1>2 DEF ReqOK
<1>5. \A x \in Org : coded'[x] <=> coded[x]
  BY <1>2, <1>3, <1>4, TreeAssumption DEF ParentFits
<1>6. \A x \in Org : Class(x)' = Class(x)
  <2>1. \A x \in Org : status[x] = "absent" => x # o
    BY <1>2 DEF RowKnown
  <2>2. \A x \in Org : (parent'[x] = Root) <=> (parent[x] = Root)
    BY <1>1, <1>3, <2>1 DEF AllKept, Kept
  <2> QED
    BY <1>5, <2>2 DEF Class, ClassOf
<1>7. \A x \in Org : coded'[x] => Class(x)' = "UNIT" /\ status'[x] = "live"
  BY <1>3, <1>5, <1>6 DEF TreeInv
<1>8. LevelOrder'
  <2> SUFFICES ASSUME NEW x \in Org, status'[x] = "live", parent'[x] # NoOrg
               PROVE  Level[Class(parent[x])'] < Level[Class(x)']
    BY DEF LevelOrder, Live
  <2>1. CASE parent'[x] = parent[x]
    <3>1. parent[x] \in Org /\ x \in Live
      BY <1>3, <2>1 DEF TypeOK, Live
    <3> QED
      BY <1>6, <2>1, <3>1 DEF TreeInv, LevelOrder
  <2>2. CASE parent'[x] # parent[x]
    <3>1. x = o /\ p \in Org /\ parent'[x] = p
      BY <1>2, <1>3, <2>2
    <3>2. o # Root /\ ParentFits(p, ReadClass(r, p))
      BY <1>4, <3>1
    <3>3. ReadClass(r, p) = Class(x)'
      <4>1. x \in Live
        BY <1>3, <3>1 DEF Live
      <4>2. req[r].unit <=> coded'[x]
        BY <1>2, <1>5, <3>1, <4>1 DEF RowKnown, Live
      <4> QED
        BY <3>1, <4>2 DEF ReadClass, Class, ClassOf
    <3>4. Class(parent[x])' = Class(p)
      BY <1>6, <3>1
    <3>5. Class(x)' # "ADMIN" /\ Class(x)' \in {"COMPANY", "GROUP", "UNIT"}
      BY <3>1, <3>2 DEF Class, ClassOf
    <3>6. Class(p) \in {"ADMIN", "COMPANY", "GROUP"}
      BY <3>2 DEF ParentFits, Class, ClassOf
    <3> QED
      BY <3>2, <3>3, <3>4, <3>5, <3>6 DEF ParentFits, Level
  <2> QED
    BY <2>1, <2>2
<1>9. \A x \in Org : parent'[x] # NoOrg => status'[parent'[x]] # "absent"
  BY <1>2, <1>3, <1>4, TreeAssumption DEF ParentFits, TreeInv
<1>10. (parent[Root] = NoOrg /\ status[Root] = "live")'
  BY <1>2, <1>3, <1>4, TreeAssumption DEF TreeInv
<1> QED
  BY <1>7, <1>8, <1>9, <1>10 DEF RowsOK

\* A deleted row leaves no live row below it that a class could order.
LEMMA RemoveOrder ==
    ASSUME TypeOK, TypeOK', TreeInv, NEW r \in Request, RemoveCommit(r)
    PROVE  RowsOK'
<1> DEFINE o == req[r].org
<1>1. o \in Org \ {Root}
  BY DEF TreeInv, ReqOK, RemoveCommit
<1>2. /\ parent' = parent /\ status'[o] = "deleted" /\ ~ coded'[o]
      /\ \A x \in Org \ {o} : status'[x] = status[x] /\ coded'[x] = coded[x]
  <2>1. /\ parent' = parent
        /\ status' = [status EXCEPT ![o] = "deleted"]
        /\ coded' = [coded EXCEPT ![o] = FALSE]
    BY DEF RemoveCommit
  <2> HIDE DEF o
  <2> QED
    BY <1>1, <2>1 DEF TypeOK
<1>3. \A x \in Org \ {o} : Class(x)' = Class(x)
  BY <1>2 DEF Class, ClassOf
<1>4. LevelOrder'
  <2> SUFFICES ASSUME NEW x \in Org, status'[x] = "live", parent[x] # NoOrg
               PROVE  Level[Class(parent[x])'] < Level[Class(x)']
    BY <1>2 DEF LevelOrder, Live
  <2>1. x # o /\ x \in Live /\ parent[x] \in Org /\ parent'[x] = parent[x]
    BY <1>2 DEF Live, TypeOK
  <2>2. Level[Class(parent[x])] < Level[Class(x)] /\ Class(x)' = Class(x)
    BY <1>3, <2>1 DEF TreeInv, LevelOrder
  <2>3. ~ coded[parent[x]]
    BY <2>1, <2>2 DEF TreeInv, Class, ClassOf, Level
  <2>4. Class(parent[x])' = Class(parent[x])
    BY <1>2, <2>1, <2>3 DEF Class, ClassOf
  <2> QED
    BY <2>2, <2>4
<1>5. (parent[Root] = NoOrg /\ status[Root] = "live")'
  BY <1>1, <1>2, TreeAssumption DEF TreeInv
<1>6. (\A x \in Org : coded[x] => Class(x) = "UNIT" /\ status[x] = "live")'
  BY <1>2, <1>3 DEF TreeInv
<1>7. \A x \in Org : parent'[x] # NoOrg => status'[parent'[x]] # "absent"
  BY <1>2 DEF TreeInv, TypeOK
<1> QED
  BY <1>4, <1>5, <1>6, <1>7 DEF RowsOK

-----------------------------------------------------------------------------
(* What each check establishes for the step after it. *)

\* A unit goes under a group, a group under a company, a company under the
\* root: a parent whose class supports the child type fits it.
LEMMA SupportsFits ==
    ASSUME TypeOK, TreeInv, NEW p \in Live, NEW t, NEW c, Supports(Class(p), t),
           p = Root => c = "COMPANY",
           p # Root => c = t
    PROVE  ParentFits(p, c)
<1>1. Class(p) # "UNIT" /\ p \in Org /\ status[p] = "live"
  BY DEF Supports, Live
<1>2. ~ coded[p]
  BY <1>1 DEF TreeInv
<1>3. Class(p) = "ADMIN" <=> p = Root
  BY DEF Class, ClassOf
<1> QED
  BY <1>1, <1>2, <1>3 DEF ParentFits, Supports

\* create: the parent that was checked fits any new row of the child's class.
LEMMA CreateCheckOK ==
    ASSUME TypeOK, TypeOK', TreeInv, NEW r \in Request, NEW p \in Org \cup {NoOrg},
           NEW t \in {"GROUP", "UNIT"}, CreateCheck(r, p, t)
    PROVE  TreeInv'
<1>1. UNCHANGED tree
  BY DEF CreateCheck
<1>2. pc'[r] = "insert" /\ req'[r].to = p /\ req'[r].unit = (t = "UNIT" /\ p # Root)
  BY DEF CreateCheck, Enter, TypeOK
<1>3. ASSUME p # NoOrg, NEW o \in Org \ {Root}
      PROVE  ParentFits(p, ClassOf(o, p, t = "UNIT" /\ p # Root))
  <2>1. p \in Live /\ Supports(Class(p), IF Class(p) = "ADMIN" THEN "GROUP" ELSE t)
    BY <1>3 DEF CreateCheck
  <2>2. CASE p = Root
    BY <2>1, <2>2, SupportsFits DEF ClassOf
  <2>3. CASE p # Root
    <3>1. ClassOf(o, p, t = "UNIT" /\ p # Root) = t /\ Class(p) # "ADMIN"
      BY <2>3 DEF Class, ClassOf
    <3> QED
      BY <2>1, <2>3, <3>1, SupportsFits
  <2> QED
    BY <2>2, <2>3
<1>4. ASSUME p # NoOrg, NEW o \in Org \ {Root}
      PROVE  ParentFits(p, ClassOf(o, p, t = "UNIT" /\ p # Root))'
  BY <1>1, <1>3, <1>4 DEF ParentFits, Class, ClassOf, tree
<1>5. ReqOK(r)'
  BY <1>2, <1>4, TreeAssumption DEF ReqOK
<1> QED
  BY <1>1, <1>5, OthersWait, OneStep DEF CreateCheck

\* update: the row as it was read.
LEMMA UpdateReadOK ==
    ASSUME NullParent = FALSE, TypeOK, TypeOK', TreeInv, NEW r \in Request, NEW o \in Org,
           NEW to \in Org \cup {NoOrg, Keep}, NEW c \in Policy \cup {NoPolicy, Keep},
           UpdateRead(r, o, to, c)
    PROVE  TreeInv'
<1>1. UNCHANGED tree /\ status[o] = "live"
  BY DEF UpdateRead, Live
<1>2. to \in Org \cup {Keep} /\ to # o
  BY DEF UpdateRead
<1>3. /\ pc'[r] = IF to \in Org THEN "parent" ELSE "policy"
      /\ req'[r].org = o /\ req'[r].to = to
      /\ req'[r].was = parent[o] /\ req'[r].unit = coded[o]
  BY DEF UpdateRead, Enter, TypeOK
<1>4. RowKnown(r)'
  BY <1>1, <1>3 DEF RowKnown, TreeInv, tree
<1>5. ReqOK(r)'
  BY <1>2, <1>3, <1>4, TreeAssumption DEF ReqOK
<1> QED
  BY <1>1, <1>5, OthersWait, OneStep DEF UpdateRead

\* What a request knew before a step that only moves its pc, it still knows.
LEMMA GotoKeeps ==
    ASSUME TypeOK, NEW r \in Request, NEW s, Goto(r, s), UNCHANGED tree
    PROVE  /\ pc'[r] = s /\ req'[r] = req[r]
           /\ RowKnown(r) => RowKnown(r)'
           /\ \A p : ReadClass(r, p)' = ReadClass(r, p)
           /\ \A p, c : ParentFits(p, c) => ParentFits(p, c)'
<1>1. pc'[r] = s /\ req'[r] = req[r]
  BY DEF Goto, TypeOK
<1>2. RowKnown(r) => RowKnown(r)'
  BY <1>1 DEF RowKnown, tree
<1>3. \A p : ReadClass(r, p)' = ReadClass(r, p)
  BY <1>1 DEF ReadClass, ClassOf
<1>4. \A p, c : ParentFits(p, c) => ParentFits(p, c)'
  BY DEF ParentFits, Class, ClassOf, tree
<1> QED
  BY <1>1, <1>2, <1>3, <1>4

LEMMA UpdateCheckParentOK ==
    ASSUME TypeOK, TypeOK', TreeInv, NEW r \in Request, UpdateCheckParent(r)
    PROVE  TreeInv'
<1> DEFINE ok == /\ req[r].to \in Live
                 /\ ReadClass(r, req[r].to) = ReadClass(r, req[r].was)
<1>1. UNCHANGED tree /\ Check(r, ok, "tree") /\ pc[r] = "parent"
  BY DEF UpdateCheckParent
<1>2. ReqOK(r)
  BY DEF TreeInv
<1>3. ASSUME ok, Goto(r, "tree") PROVE ReqOK(r)'
  BY <1>1, <1>2, <1>3, GotoKeeps DEF ReqOK, Live, tree
<1> HIDE DEF ok
<1> QED
  BY <1>1, <1>3, OneCheck

LEMMA UpdateCheckTypeOK ==
    ASSUME TypeOK, TypeOK', TreeInv, NEW r \in Request, UpdateCheckType(r)
    PROVE  TreeInv'
<1> DEFINE q == req[r]
           class == ReadClass(r, q.was)
           ok == q.to \in Live /\ Supports(Class(q.to), class)
<1>1. UNCHANGED tree /\ Check(r, ok, "policy") /\ pc[r] = "type"
  BY DEF UpdateCheckType
<1>2. /\ RowKnown(r) /\ q.to # q.org /\ q.to \in Org /\ status[q.to] # "absent"
      /\ ReadClass(r, q.to) = class /\ class \in {"GROUP", "UNIT"}
  BY <1>1 DEF TreeInv, ReqOK
<1>3. q.org # Root /\ q.to # Root
  BY <1>2 DEF ReadClass, ClassOf
<1>4. ASSUME ok PROVE ParentFits(q.to, class)
  BY <1>3, <1>4, SupportsFits
<1>5. ASSUME ok, Goto(r, "policy") PROVE ReqOK(r)'
  <2>1. /\ pc'[r] = "policy" /\ req'[r] = q /\ RowKnown(r)' /\ ParentFits(q.to, class)'
        /\ ReadClass(r, q.to)' = class /\ ReadClass(r, q.was)' = class
    BY <1>1, <1>2, <1>4, <1>5, GotoKeeps
  <2> QED
    BY <1>1, <1>2, <1>3, <2>1 DEF ReqOK, tree
<1> HIDE DEF ok
<1> QED
  BY <1>1, <1>5, OneCheck

\* A row that is not a group or unit stays under its parent, which fits it.
LEMMA UpdateCheckTreeOK ==
    ASSUME TypeOK, TypeOK', TreeInv, NEW r \in Request, UpdateCheckTree(r)
    PROVE  TreeInv'
<1> DEFINE q == req[r]
           class == ReadClass(r, q.was)
           next == IF class \in {"GROUP", "UNIT"} THEN "type" ELSE "policy"
           ok == /\ q.to \notin Below(q.org)
                 /\ class \in {"ADMIN", "COMPANY"} => ~ Moving(r)
                 /\ class = "UNIT" /\ Moving(r) =>
                        CompanyOf(q.org) # {} /\ CompanyOf(q.org) = CompanyOf(q.to)
<1>1. UNCHANGED tree /\ Check(r, ok, next) /\ pc[r] = "tree"
  BY DEF UpdateCheckTree
<1>2. /\ RowKnown(r) /\ q.to # q.org /\ q.to \in Org /\ status[q.to] # "absent"
      /\ ReadClass(r, q.to) = class
  BY <1>1 DEF TreeInv, ReqOK
<1>3. ok => (class \in {"ADMIN", "COMPANY"} => q.to = q.was)
  BY DEF Moving
<1> HIDE DEF ok
<1>4. ASSUME ok, Goto(r, next) PROVE ReqOK(r)'
  <2>1. /\ pc'[r] = next /\ req'[r] = q /\ RowKnown(r)'
        /\ ReadClass(r, q.to)' = class /\ ReadClass(r, q.was)' = class
        /\ \A p, c : ParentFits(p, c) => ParentFits(p, c)'
    BY <1>1, <1>2, <1>4, GotoKeeps
  <2>2. CASE class \in {"GROUP", "UNIT"}
    BY <1>1, <1>2, <2>1, <2>2 DEF ReqOK, tree
  <2>3. CASE class \notin {"GROUP", "UNIT"}
    <3>1. class \in {"ADMIN", "COMPANY"} /\ q.to = q.was
      BY <1>3, <1>4, <2>3 DEF ReadClass, ClassOf
    <3>2. q.org # Root
      BY <1>2, <3>1, TreeAssumption DEF RowKnown
    <3>3. q.to = Root /\ class = "COMPANY"
      BY <3>1, <3>2 DEF ReadClass, ClassOf
    <3>4. ~ coded[Root] /\ Class(Root) = "ADMIN" /\ status[Root] # "absent"
      BY TreeAssumption DEF TreeInv, Class, ClassOf
    <3>5. ParentFits(q.to, class)
      BY <3>3, <3>4 DEF ParentFits
    <3>6. ParentFits(q.to, class)'
      BY <2>1, <3>5
    <3> QED
      BY <1>1, <1>2, <2>1, <2>3, <3>2, <3>6 DEF ReqOK, tree
  <2> QED
    BY <2>2, <2>3
<1> QED
  BY <1>1, <1>4, OneCheck

LEMMA UpdateCheckPolicyOK ==
    ASSUME TypeOK, TypeOK', TreeInv, NEW r \in Request, UpdateCheckPolicy(r)
    PROVE  TreeInv'
<1> DEFINE q == req[r]
           o == q.org
           p == IF q.to = Keep THEN parent[o] ELSE q.to
           ok == q.pick # NoPolicy =>
                    /\ o \in Live
                    /\ q.pick \in policies
                    /\ OwnerOf[q.pick] \in OwnerChain(o, p)
<1>1. UNCHANGED tree /\ Check(r, ok, "write") /\ pc[r] = "policy"
  BY DEF UpdateCheckPolicy
<1> HIDE DEF ok
<1>2. /\ RowKnown(r) /\ q.to \in Org \cup {Keep} /\ q.to # q.org
      /\ q.to \in Org => /\ status[q.to] # "absent" /\ q.org # Root
                         /\ ReadClass(r, q.to) = ReadClass(r, q.was)
                         /\ ParentFits(q.to, ReadClass(r, q.to))
  BY <1>1 DEF TreeInv, ReqOK
<1>3. ASSUME ok, Goto(r, "write") PROVE ReqOK(r)'
  <2>1. /\ pc'[r] = "write" /\ req'[r] = q /\ RowKnown(r)'
        /\ ReadClass(r, q.to)' = ReadClass(r, q.to)
        /\ ReadClass(r, q.was)' = ReadClass(r, q.was)
        /\ \A x, c : ParentFits(x, c) => ParentFits(x, c)'
    BY <1>1, <1>2, <1>3, GotoKeeps
  <2> QED
    BY <1>1, <1>2, <2>1 DEF ReqOK, tree
<1> QED
  BY <1>1, <1>3, OneCheck

\* remove keeps in hand a row that is not the root and that stays known.
LEMMA RemoveStepOK ==
    ASSUME TypeOK, TypeOK', TreeInv, NEW r \in Request,
           \/ \E o \in Org : RemoveRead(r, o)
           \/ RemoveCheckChildren(r) \/ RemoveCheckStaff(r) \/ RemoveMoveArchived(r)
    PROVE  TreeInv'
<1>1. CASE \E o \in Org : RemoveRead(r, o)
  <2>1. PICK o \in Org : RemoveRead(r, o)
    BY <1>1
  <2>2. UNCHANGED tree /\ pc'[r] = "children" /\ req'[r].org = o /\ o \in Live \ {Root}
    BY <2>1 DEF RemoveRead, Enter, About, TypeOK
  <2>3. ReqOK(r)'
    BY <2>2 DEF ReqOK, Live, tree
  <2> QED
    BY <2>1, <2>2, <2>3, OthersWait, OneStep DEF RemoveRead
<1>2. CASE RemoveCheckChildren(r)
  <2> DEFINE ok == \A x \in Live : parent[x] # req[r].org
  <2>1. UNCHANGED tree /\ Check(r, ok, "staff") /\ pc[r] = "children"
    BY <1>2 DEF RemoveCheckChildren
  <2> HIDE DEF ok
  <2>2. ASSUME ok, Goto(r, "staff") PROVE ReqOK(r)'
    BY <2>1, <2>2, GotoKeeps DEF ReqOK, TreeInv, tree
  <2> QED
    BY <2>1, <2>2, OneCheck
<1>3. CASE RemoveCheckStaff(r)
  <2> DEFINE ok == "working" \notin staff[req[r].org]
  <2>1. UNCHANGED tree /\ Check(r, ok, "archive") /\ pc[r] = "staff"
    BY <1>3 DEF RemoveCheckStaff
  <2> HIDE DEF ok
  <2>2. ASSUME ok, Goto(r, "archive") PROVE ReqOK(r)'
    BY <2>1, <2>2, GotoKeeps DEF ReqOK, TreeInv, tree
  <2> QED
    BY <2>1, <2>2, OneCheck
<1>4. CASE RemoveMoveArchived(r)
  <2>1. UNCHANGED tree /\ Goto(r, "purge") /\ pc[r] = "archive"
    BY <1>4 DEF RemoveMoveArchived
  <2>2. ReqOK(r)'
    BY <2>1, GotoKeeps DEF ReqOK, TreeInv, tree
  <2> QED
    BY <2>1, <2>2, OthersWait, OneStep
<1> QED
  BY <1>1, <1>2, <1>3, <1>4

\* Employees and policies come and go without touching the tree.
LEMMA OtherServicesOK ==
    ASSUME TypeOK, TypeOK', TreeInv, NEW r \in Request,
           \/ \E o \in Org : HireCheck(r, o)
           \/ HireCommit(r)
           \/ \E o \in Org, last \in BOOLEAN : Archive(r, o, last)
           \/ \E src, dst \in Org : TransferCheck(r, src, dst)
           \/ TransferCommit(r)
           \/ \E p \in Policy : RemovePolicy(r, p)
    PROVE  TreeInv'
<1>1. CASE \/ \E o \in Org : HireCheck(r, o)
           \/ \E src, dst \in Org : TransferCheck(r, src, dst)
  <2>1. PICK s, d : s \in {"employ", "transfer"} /\ Enter(r, s, d) /\ UNCHANGED tree
    BY <1>1 DEF HireCheck, TransferCheck
  <2>2. pc'[r] = s
    BY <2>1 DEF Enter, TypeOK
  <2>3. ReqOK(r)'
    BY <2>1, <2>2 DEF ReqOK
  <2> QED
    BY <2>1, <2>3, OthersWait, OneStep
<1>2. CASE HireCommit(r) \/ TransferCommit(r)
  <2>1. UNCHANGED tree /\ Finish(r) /\ Enter(r, "idle", Nothing)
    BY <1>2 DEF HireCommit, TransferCommit, Finish
  <2> QED
    BY <2>1, FinishOK, OthersWait, OneStep
<1>3. CASE \/ \E o \in Org, last \in BOOLEAN : Archive(r, o, last)
           \/ \E p \in Policy : RemovePolicy(r, p)
  <2>1. UNCHANGED tree /\ pc' = pc /\ req' = req
    BY <1>3 DEF Archive, RemovePolicy
  <2>2. ReqOK(r)'
    BY <2>1, SameRowsKept, ReqKept
  <2> QED
    BY <2>1, <2>2, OneStep
<1> QED
  BY <1>1, <1>2, <1>3

\* The three commits.
LEMMA CommitOK ==
    ASSUME TypeOK, TypeOK', TreeInv, NEW r \in Request,
           \/ \E o \in Org : CreateCommit(r, o)
           \/ UpdateCommit(r)
           \/ RemoveCommit(r)
    PROVE  TreeInv'
<1>1. Finish(r) /\ Enter(r, "idle", Nothing)
  BY DEF CreateCommit, UpdateCommit, RemoveCommit, Finish
<1>2. AllKept
  BY CreateKeeps, UpdateKeeps, RemoveKeeps
<1>3. RowsOK'
  BY CreateOrder, UpdateOrder, RemoveOrder
<1> QED
  BY <1>1, <1>2, <1>3, FinishOK, OneRequest

-----------------------------------------------------------------------------
(* The theorems. *)

LEMMA SeedOK == Init => TreeInv
<1> SUFFICES ASSUME Init PROVE TreeInv
  OBVIOUS
<1>1. /\ \A o \in Org : parent[o] = IF o \in Existing THEN SeedParent[o] ELSE NoOrg
      /\ \A o \in Org : coded[o] <=> o \in SeedUnits
      /\ \A o \in Org : status[o] = IF o \in Existing THEN "live" ELSE "absent"
  BY DEF Init
<1>2. parent[Root] = NoOrg /\ status[Root] = "live"
  BY <1>1, TreeAssumption
<1>3. \A o \in SeedUnits : o # Root /\ SeedParent[o] # Root
  BY TreeAssumption DEF SeedLevel
<1>4. \A o \in Org : coded[o] => Class(o) = "UNIT" /\ status[o] = "live"
  BY <1>1, <1>3, TreeAssumption DEF Class, ClassOf
<1>5. \A o \in Org : parent[o] # NoOrg => status[parent[o]] # "absent"
  BY <1>1, TreeAssumption
<1>6. \A o \in Existing : Level[Class(o)] = SeedLevel(o) /\ SeedLevel(o) \in 0..3
  BY <1>1, TreeAssumption DEF SeedLevel, Class, ClassOf, Level
<1>7. LevelOrder
  <2> SUFFICES ASSUME NEW o \in Org, status[o] = "live", parent[o] # NoOrg
               PROVE  Level[Class(parent[o])] < Level[Class(o)]
    BY DEF LevelOrder, Live
  <2>1. o \in Existing /\ parent[o] = SeedParent[o] /\ parent[o] \in Existing
    BY <1>1, TreeAssumption
  <2>2. SeedLevel(parent[o]) = SeedLevel(o) - 1
    BY <2>1, TreeAssumption
  <2>3. /\ Level[Class(o)] = SeedLevel(o) /\ SeedLevel(o) \in 0..3
        /\ Level[Class(parent[o])] = SeedLevel(parent[o])
    BY <1>6, <2>1
  <2> QED
    BY <2>2, <2>3
<1>8. ASSUME NEW r \in Request PROVE ReqOK(r)
  BY DEF Init, ReqOK
<1> QED
  BY <1>2, <1>4, <1>5, <1>7, <1>8 DEF TreeInv

\* Every step keeps the order of the tree.
LEMMA OrderKept ==
    ASSUME NullParent = FALSE, TypeOK, TypeOK', TreeInv, [Next]_vars
    PROVE  TreeInv'
<1>1. CASE UNCHANGED vars
  <2>1. UNCHANGED tree /\ pc' = pc /\ req' = req
    BY <1>1 DEF vars, tree
  <2>2. \A r \in Request : ReqOK(r)'
    BY <2>1, SameRowsKept, ReqKept
  <2> QED
    BY <2>1, <2>2 DEF TreeInv, LevelOrder, Live, Class, ClassOf, tree
<1>2. ASSUME NEW r \in Request,
             NEW p \in Org \cup {NoOrg}, NEW t \in {"GROUP", "UNIT"}, CreateCheck(r, p, t)
      PROVE  TreeInv'
  BY <1>2, CreateCheckOK
<1>3. ASSUME NEW r \in Request, NEW o \in Org, NEW to \in Org \cup {NoOrg, Keep},
             NEW c \in Policy \cup {NoPolicy, Keep}, UpdateRead(r, o, to, c)
      PROVE  TreeInv'
  BY <1>3, UpdateReadOK
<1> QED
  BY <1>1, <1>2, <1>3, UpdateCheckParentOK, UpdateCheckTreeOK, UpdateCheckTypeOK,
     UpdateCheckPolicyOK, RemoveStepOK, OtherServicesOK, CommitOK
  DEF Next

\* When no client sends a null parent, the classification of every row and the
\* checks of every request in flight stay consistent however requests
\* interleave.
THEOREM TreeOrder ==
    ASSUME NullParent = FALSE PROVE Spec => []TreeInv
<1>1. TypeOK /\ TypeOK' /\ TreeInv /\ [Next]_vars => TreeInv'
  BY OrderKept
<1> QED
  BY <1>1, SeedOK, TreeTypes, PTL DEF Spec

\* A step down the hierarchy at every edge leaves no room for a cycle.
LEMMA OrderIsAcyclic ==
    ASSUME TypeOK, LevelOrder PROVE Acyclic
<1> SUFFICES ASSUME NEW S \in SUBSET Live, \A o \in S : parent[o] \in S
             PROVE  S = {}
  BY DEF Acyclic
<1>1. \A o \in S : Level[Class(parent[o])] < Level[Class(o)]
  BY TreeAssumption DEF LevelOrder, Live
<1>2. \A o \in S : Level[Class(o)] \in 0..3
  BY DEF Level, Class, ClassOf
<1>3. \A o \in S : Level[Class(o)] \in 1..3
  BY <1>1, <1>2
<1>4. \A o \in S : Level[Class(o)] \in 2..3
  BY <1>1, <1>3
<1>5. \A o \in S : Level[Class(o)] \in 3..3
  BY <1>1, <1>4
<1> QED
  BY <1>1, <1>5

\* Concurrent moves, each checked on stale reads, never close a cycle of
\* organizations.
THEOREM TreeAcyclic ==
    ASSUME NullParent = FALSE PROVE Spec => []Acyclic
<1>1. TypeOK /\ TreeInv => Acyclic
  BY OrderIsAcyclic DEF TreeInv
<1> QED
  BY <1>1, TreeTypes, TreeOrder, PTL

\* Every step keeps the class of the rows that stay.
LEMMA StepKeeps ==
    ASSUME TypeOK, TreeInv, [Next]_vars PROVE AllKept
<1>1. CASE UNCHANGED vars
  BY <1>1, SameRowsKept DEF vars, tree
<1>2. ASSUME NEW r \in Request,
             \/ \E p \in Org \cup {NoOrg}, t \in {"GROUP", "UNIT"} : CreateCheck(r, p, t)
             \/ \E o \in Org, to \in Org \cup {NoOrg, Keep},
                   c \in Policy \cup {NoPolicy, Keep} : UpdateRead(r, o, to, c)
             \/ UpdateCheckParent(r) \/ UpdateCheckTree(r)
             \/ UpdateCheckType(r) \/ UpdateCheckPolicy(r)
      PROVE  AllKept
  <2>1. UNCHANGED tree
    BY <1>2 DEF CreateCheck, UpdateRead, UpdateCheckParent, UpdateCheckTree,
                UpdateCheckType, UpdateCheckPolicy
  <2> QED
    BY <2>1, SameRowsKept
<1>3. ASSUME NEW r \in Request,
             \/ \E o \in Org : RemoveRead(r, o) \/ HireCheck(r, o)
             \/ RemoveCheckChildren(r) \/ RemoveCheckStaff(r) \/ RemoveMoveArchived(r)
             \/ HireCommit(r) \/ TransferCommit(r)
             \/ \E o \in Org, last \in BOOLEAN : Archive(r, o, last)
             \/ \E src, dst \in Org : TransferCheck(r, src, dst)
             \/ \E p \in Policy : RemovePolicy(r, p)
      PROVE  AllKept
  <2>1. UNCHANGED tree
    BY <1>3 DEF RemoveRead, RemoveCheckChildren, RemoveCheckStaff, RemoveMoveArchived,
                HireCheck, HireCommit, Archive, TransferCheck, TransferCommit, RemovePolicy
  <2> QED
    BY <2>1, SameRowsKept
<1> QED
  BY <1>1, <1>2, <1>3, CreateKeeps, UpdateKeeps, RemoveKeeps DEF Next

\* No request, however stale its reads, turns an organization into one of
\* another class.
THEOREM ClassesStable ==
    ASSUME NullParent = FALSE PROVE Spec => ClassStable
<1>1. TypeOK /\ TreeInv /\ [Next]_vars
      => [\A o \in Live : status'[o] = "live" => Class(o)' = Class(o)]_vars
  <2> SUFFICES ASSUME TypeOK, TreeInv, [Next]_vars,
                      NEW o \in Org, status[o] = "live", status'[o] = "live"
               PROVE  Class(o)' = Class(o)
    BY DEF Live
  <2>1. Kept(o)
    BY StepKeeps DEF AllKept
  <2> QED
    BY <2>1 DEF Kept, Class, ClassOf
<1> QED
  BY <1>1, TreeTypes, TreeOrder, PTL DEF Spec, ClassStable

-----------------------------------------------------------------------------
(* What a removal leaves.  Its checks and its transaction are steps of their *)
(* own, and nothing holds the row between them: a create, a move, a hire or  *)
(* a transfer that commits there fills what was found empty.  The results    *)
(* are about requests that take turns.                                       *)

\* At most one request is in flight.  An employee is archived and a policy is
\* deleted in one step, which may come between the steps of a request.
OneAtATime == \A r, s \in Request : pc[r] # "idle" /\ pc[s] # "idle" => r = s

Moves == {"parent", "tree", "type", "policy", "write"}
Removes == {"children", "staff", "archive", "purge"}

\* What the request in flight has checked and nobody else undoes.
Holds(r) ==
    LET q == req[r] IN
    /\ pc[r] = "insert" /\ q.to # NoOrg => q.to \in Live
    /\ pc[r] \in Moves => q.org \in Live
    /\ pc[r] \in Moves \ {"parent"} /\ q.to \in Org => q.to \in Live
    /\ pc[r] \in Removes => q.org \in Live
    /\ pc[r] \in Removes \ {"children"} => \A x \in Live : parent[x] # q.org
    /\ pc[r] \in {"archive", "purge"} => "working" \notin staff[q.org]
    /\ pc[r] = "purge" => staff[q.org] = {}
    /\ pc[r] \in {"employ", "transfer"} => q.org \in Live
    /\ pc[r] = "transfer" => q.to \in Live

Emptied == NothingLeftBehind /\ \A r \in Request : Holds(r)

\* A request that does not move keeps what it holds while the rows and the
\* employees stay where they are.
LEMMA StillHolds ==
    ASSUME NEW x \in Request, Holds(x), UNCHANGED <<parent, status, staff>>,
           pc'[x] = pc[x], req'[x] = req[x]
    PROVE  Holds(x)'
BY DEF Holds, Live

\* A request that has ended holds nothing.
LEMMA EndedHolds ==
    ASSUME NEW x \in Request, pc'[x] = "idle" PROVE Holds(x)'
BY DEF Holds, Moves, Removes

\* A step of one request that only reads.
LEMMA ReadEmptied ==
    ASSUME TypeOK, Emptied, NEW r \in Request, UNCHANGED <<parent, status, staff>>,
           \A x \in Request \ {r} : pc'[x] = pc[x] /\ req'[x] = req[x],
           Holds(r)'
    PROVE  Emptied'
<1>1. NothingLeftBehind'
  BY DEF Emptied, NothingLeftBehind, Live
<1>2. ASSUME NEW x \in Request PROVE Holds(x)'
  <2>1. CASE x = r
    BY <2>1
  <2>2. CASE x # r
    BY <2>2, StillHolds DEF Emptied
  <2> QED
    BY <2>1, <2>2
<1> QED
  BY <1>1, <1>2 DEF Emptied

\* A check that only reads.
LEMMA CheckEmptied ==
    ASSUME TypeOK, Emptied, NEW r \in Request, UNCHANGED <<parent, status, staff>>,
           NEW s, NEW ok, Check(r, ok, s), ok /\ Goto(r, s) => Holds(r)'
    PROVE  Emptied'
<1>1. CASE ok
  <2>1. Goto(r, s)
    BY <1>1 DEF Check
  <2> QED
    BY <1>1, <2>1, OthersWait, ReadEmptied
<1>2. CASE ~ ok
  <2>1. Enter(r, "idle", Nothing)
    BY <1>2 DEF Check, Finish
  <2>2. pc'[r] = "idle"
    BY <2>1 DEF Enter, TypeOK
  <2> QED
    BY <2>1, <2>2, EndedHolds, OthersWait, ReadEmptied
<1> QED
  BY <1>1, <1>2

\* A commit ends the only request in flight: the rows are what matters.
LEMMA CommitEmptied ==
    ASSUME TypeOK, OneAtATime, NEW r \in Request, pc[r] # "idle", Finish(r),
           NothingLeftBehind'
    PROVE  Emptied'
<1>1. \A x \in Request : pc'[x] = "idle"
  BY DEF OneAtATime, Finish, Enter, TypeOK
<1> QED
  BY <1>1, EndedHolds DEF Emptied

\* The checks of create and update hold on to live rows.
LEMMA EntriesEmptied ==
    ASSUME TypeOK, TypeOK', TreeInv, Emptied, NEW r \in Request,
           \/ \E p \in Org \cup {NoOrg}, t \in {"GROUP", "UNIT"} : CreateCheck(r, p, t)
           \/ \E o \in Org, to \in Org \cup {NoOrg, Keep},
                 c \in Policy \cup {NoPolicy, Keep} : UpdateRead(r, o, to, c)
           \/ \E o \in Org : RemoveRead(r, o) \/ HireCheck(r, o)
           \/ \E src, dst \in Org : TransferCheck(r, src, dst)
    PROVE  Emptied'
<1>1. PICK s, d : /\ Enter(r, s, d) /\ UNCHANGED <<parent, status, staff>>
                  /\ s \in {"insert", "parent", "policy", "children", "employ", "transfer"}
                  /\ s = "insert" /\ d.to # NoOrg => d.to \in Live
                  /\ s \in {"parent", "policy", "children"} => d.org \in Live
                  /\ s = "policy" => d.to \notin Org
                  /\ s \in {"employ", "transfer"} => d.org \in Live
                  /\ s = "transfer" => d.to \in Live
  <2>1. CASE \E p \in Org \cup {NoOrg}, t \in {"GROUP", "UNIT"} : CreateCheck(r, p, t)
    BY <2>1 DEF CreateCheck, tree
  <2>2. CASE \E o \in Org, to \in Org \cup {NoOrg, Keep},
                c \in Policy \cup {NoPolicy, Keep} : UpdateRead(r, o, to, c)
    <3>1. PICK o \in Org, to \in Org \cup {NoOrg, Keep}, c \in Policy \cup {NoPolicy, Keep} :
              UpdateRead(r, o, to, c)
      BY <2>2
    <3> DEFINE d == [org |-> o, to |-> to, was |-> parent[o], unit |-> coded[o],
                     pick |-> IF c = Keep THEN applied[o] ELSE c]
               s == IF to \in Org THEN "parent" ELSE "policy"
    <3>2. /\ Enter(r, s, d) /\ UNCHANGED <<parent, status, staff>>
          /\ d.org \in Live /\ d.to = to /\ s \in {"parent", "policy"}
          /\ s = "policy" => d.to \notin Org
      BY <3>1 DEF UpdateRead, tree
    <3> HIDE DEF s, d
    <3> QED
      BY <3>2
  <2>3. CASE \E o \in Org : RemoveRead(r, o)
    BY <2>3 DEF RemoveRead, About, tree
  <2>4. CASE \E o \in Org : HireCheck(r, o)
    <3>1. PICK o \in Org : HireCheck(r, o)
      BY <2>4
    <3>2. o \in Live
      BY <3>1 DEF HireCheck, AssertUnit, TreeInv, Class, ClassOf, Live
    <3> QED
      BY <3>1, <3>2 DEF HireCheck, About, tree
  <2>5. CASE \E src, dst \in Org : TransferCheck(r, src, dst)
    BY <2>5 DEF TransferCheck, About, tree
  <2> QED
    BY <2>1, <2>2, <2>3, <2>4, <2>5
<1>2. pc'[r] = s /\ req'[r] = d
  BY <1>1 DEF Enter, TypeOK
<1>3. Holds(r)'
  BY <1>1, <1>2 DEF Holds, Moves, Removes, Live
<1> QED
  BY <1>1, <1>3, OthersWait, ReadEmptied

\* The checks in the middle of update and remove.
LEMMA ChecksEmptied ==
    ASSUME TypeOK, TypeOK', Emptied, NEW r \in Request,
           \/ UpdateCheckParent(r) \/ UpdateCheckTree(r)
           \/ UpdateCheckType(r) \/ UpdateCheckPolicy(r)
           \/ RemoveCheckChildren(r) \/ RemoveCheckStaff(r)
    PROVE  Emptied'
<1>1. Holds(r)
  BY DEF Emptied
<1>2. ASSUME NEW s \in Moves \ {"parent"}, NEW ok, Check(r, ok, s),
             UNCHANGED <<parent, status, staff>>, pc[r] \in Moves,
             ok /\ pc[r] = "parent" => req[r].to \in Live
      PROVE  Emptied'
  <2>1. ASSUME ok, Goto(r, s) PROVE Holds(r)'
    <3>1. pc'[r] = s /\ req'[r] = req[r]
      BY <2>1 DEF Goto, TypeOK
    <3> QED
      BY <1>1, <1>2, <2>1, <3>1 DEF Holds, Moves, Removes, Live
  <2> QED
    BY <1>2, <2>1, CheckEmptied
<1>3. CASE UpdateCheckParent(r)
  <2> DEFINE ok == /\ req[r].to \in Live
                   /\ ReadClass(r, req[r].to) = ReadClass(r, req[r].was)
  <2>1. Check(r, ok, "tree") /\ UNCHANGED <<parent, status, staff>> /\ pc[r] = "parent"
    BY <1>3 DEF UpdateCheckParent, tree
  <2>2. ok => req[r].to \in Live
    OBVIOUS
  <2> HIDE DEF ok
  <2> QED
    BY <1>2, <2>1, <2>2 DEF Moves
<1>4. CASE UpdateCheckTree(r)
  <2> DEFINE q == req[r]
             class == ReadClass(r, q.was)
             next == IF class \in {"GROUP", "UNIT"} THEN "type" ELSE "policy"
             ok == /\ q.to \notin Below(q.org)
                   /\ class \in {"ADMIN", "COMPANY"} => ~ Moving(r)
                   /\ class = "UNIT" /\ Moving(r) =>
                          CompanyOf(q.org) # {} /\ CompanyOf(q.org) = CompanyOf(q.to)
  <2>1. Check(r, ok, next) /\ UNCHANGED <<parent, status, staff>> /\ pc[r] = "tree"
    BY <1>4 DEF UpdateCheckTree, tree
  <2>2. next \in Moves \ {"parent"}
    BY DEF Moves
  <2> HIDE DEF ok, next
  <2> QED
    BY <1>2, <2>1, <2>2 DEF Moves
<1>5. CASE UpdateCheckType(r)
  <2> DEFINE q == req[r]
             ok == q.to \in Live /\ Supports(Class(q.to), ReadClass(r, q.was))
  <2>1. Check(r, ok, "policy") /\ UNCHANGED <<parent, status, staff>> /\ pc[r] = "type"
    BY <1>5 DEF UpdateCheckType, tree
  <2> HIDE DEF ok
  <2> QED
    BY <1>2, <2>1 DEF Moves
<1>6. CASE UpdateCheckPolicy(r)
  <2> DEFINE o == req[r].org
             p == IF req[r].to = Keep THEN parent[o] ELSE req[r].to
             ok == req[r].pick # NoPolicy =>
                       /\ o \in Live
                       /\ req[r].pick \in policies
                       /\ OwnerOf[req[r].pick] \in OwnerChain(o, p)
  <2>1. Check(r, ok, "write") /\ UNCHANGED <<parent, status, staff>> /\ pc[r] = "policy"
    BY <1>6 DEF UpdateCheckPolicy, tree
  <2> HIDE DEF ok
  <2> QED
    BY <1>2, <2>1 DEF Moves
<1>7. CASE RemoveCheckChildren(r)
  <2> DEFINE ok == \A x \in Live : parent[x] # req[r].org
  <2>1. /\ Check(r, ok, "staff") /\ UNCHANGED <<parent, status, staff>>
        /\ pc[r] = "children"
    BY <1>7 DEF RemoveCheckChildren, tree
  <2>2. ASSUME ok, Goto(r, "staff") PROVE Holds(r)'
    <3>1. pc'[r] = "staff" /\ req'[r] = req[r]
      BY <2>2 DEF Goto, TypeOK
    <3> QED
      BY <1>1, <2>1, <2>2, <3>1 DEF Holds, Moves, Removes, Live
  <2> HIDE DEF ok
  <2> QED
    BY <2>1, <2>2, CheckEmptied
<1>8. CASE RemoveCheckStaff(r)
  <2> DEFINE ok == "working" \notin staff[req[r].org]
  <2>1. /\ Check(r, ok, "archive") /\ UNCHANGED <<parent, status, staff>>
        /\ pc[r] = "staff"
    BY <1>8 DEF RemoveCheckStaff, tree
  <2>2. ASSUME ok, Goto(r, "archive") PROVE Holds(r)'
    <3>1. pc'[r] = "archive" /\ req'[r] = req[r]
      BY <2>2 DEF Goto, TypeOK
    <3> QED
      BY <1>1, <2>1, <2>2, <3>1 DEF Holds, Moves, Removes, Live
  <2> HIDE DEF ok
  <2> QED
    BY <2>1, <2>2, CheckEmptied
<1> QED
  BY <1>3, <1>4, <1>7, <1>8, <1>5, <1>6

\* Archived employees go to a live organization, never the one being removed.
LEMMA HeirIsAnother ==
    ASSUME TreeInv, NEW o \in Org \ {Root}
    PROVE  ArchiveHeir(o) \in Live \ {o}
<1>1. Root \in Live
  BY TreeAssumption DEF TreeInv, Live
<1>2. CASE Class(o) \in {"UNIT", "GROUP"} /\ CompanyOf(o) # {}
  <2>1. ArchiveHeir(o) \in CompanyOf(o)
    BY <1>2 DEF ArchiveHeir
  <2>2. \A c \in CompanyOf(o) : c \in Live /\ Class(c) = "COMPANY"
    BY DEF CompanyOf, Above, WayUp
  <2> QED
    BY <1>2, <2>1, <2>2
<1>3. CASE ~ (Class(o) \in {"UNIT", "GROUP"} /\ CompanyOf(o) # {})
  BY <1>1, <1>3 DEF ArchiveHeir
<1> QED
  BY <1>2, <1>3

\* The archived employees leave, and the row is empty.
LEMMA MoveEmptied ==
    ASSUME TypeOK, TypeOK', TreeInv, Emptied, OneAtATime, NEW r \in Request,
           RemoveMoveArchived(r)
    PROVE  Emptied'
<1> DEFINE o == req[r].org
           h == ArchiveHeir(o)
<1>1. /\ pc[r] = "archive" /\ Goto(r, "purge")
      /\ UNCHANGED <<parent, status, coded>>
  BY DEF RemoveMoveArchived, tree
<1>2. /\ o \in Org \ {Root} /\ o \in Live /\ "working" \notin staff[o]
      /\ \A x \in Live : parent[x] # o
  BY <1>1 DEF TreeInv, ReqOK, Emptied, Holds, Removes
<1>3. h \in Live \ {o}
  BY <1>2, HeirIsAnother
<1>4. /\ staff'[o] = staff[o] \ {"archived"}
      /\ \A x \in Org : x # h => staff'[x] \subseteq staff[x]
  <2> HIDE DEF h
  <2>1. CASE "archived" \in staff[o]
    <3>1. staff' = [x \in Org |->
                      IF x = h THEN staff[x] \cup {"archived"}
                      ELSE IF x = o THEN staff[x] \ {"archived"} ELSE staff[x]]
      BY <2>1 DEF RemoveMoveArchived, h
    <3> QED
      BY <1>2, <1>3, <3>1
  <2>2. CASE "archived" \notin staff[o]
    <3>1. staff' = staff
      BY <2>2 DEF RemoveMoveArchived
    <3> QED
      BY <2>2, <3>1
  <2> QED
    BY <2>1, <2>2
<1>5. staff'[o] = {}
  <2>1. staff[o] \subseteq {"working", "archived"}
    BY <1>2 DEF TypeOK
  <2> QED
    BY <1>2, <1>4, <2>1
<1>6. NothingLeftBehind'
  <2>1. \A x \in Org : status[x] = "deleted" => staff'[x] = {}
    BY <1>3, <1>4 DEF Emptied, NothingLeftBehind, Live
  <2>2. \A x \in Live : parent[x] # NoOrg => parent[x] \in Live
    BY DEF Emptied, NothingLeftBehind
  <2> QED
    BY <1>1, <2>1, <2>2 DEF NothingLeftBehind, Live
<1>7. pc'[r] = "purge" /\ req'[r] = req[r]
  BY <1>1 DEF Goto, TypeOK
<1>8. Holds(r)'
  BY <1>1, <1>2, <1>5, <1>7 DEF Holds, Moves, Removes, Live
<1>9. \A x \in Request \ {r} : pc'[x] = "idle"
  BY <1>1, OthersWait DEF OneAtATime
<1> QED
  BY <1>6, <1>8, <1>9, EndedHolds DEF Emptied

\* Nothing is left behind when the rows stay live or deleted, hang from live
\* ones and nobody comes to a deleted one.
LEMMA SameRowsEmptied ==
    ASSUME status' = status,
           \A x \in Live : parent'[x] # NoOrg => parent'[x] \in Live,
           \A x \in Org : status[x] = "deleted" => staff'[x] = {}
    PROVE  NothingLeftBehind'
<1>1. Live' = Live
  BY DEF Live
<1> QED
  BY <1>1 DEF NothingLeftBehind

\* The transactions write under a live parent, and delete what is empty.
LEMMA CommitsEmptied ==
    ASSUME TypeOK, TypeOK', TreeInv, Emptied, OneAtATime, NEW r \in Request,
           \/ \E o \in Org : CreateCommit(r, o)
           \/ UpdateCommit(r) \/ RemoveCommit(r) \/ HireCommit(r) \/ TransferCommit(r)
    PROVE  Emptied'
<1>1. Holds(r) /\ NothingLeftBehind
  BY DEF Emptied
<1>2. ASSUME NEW o \in Org, CreateCommit(r, o) PROVE NothingLeftBehind'
  <2> DEFINE p == req[r].to
  <2>1. pc[r] = "insert" /\ status[o] = "absent" /\ (p # NoOrg => p \in Live)
    BY <1>1, <1>2 DEF CreateCommit, Holds
  <2>2. /\ parent' = [parent EXCEPT ![o] = p]
        /\ status' = [status EXCEPT ![o] = "live"] /\ staff' = staff
    BY <1>2 DEF CreateCommit
  <2> HIDE DEF p
  <2>3. Live' = Live \cup {o} /\ o \notin Live
    BY <2>1, <2>2 DEF Live, TypeOK
  <2>4. ASSUME NEW x \in Live', parent'[x] # NoOrg PROVE parent'[x] \in Live'
    <3>1. CASE x = o
      BY <2>1, <2>2, <2>3, <2>4, <3>1 DEF TypeOK
    <3>2. CASE x # o
      <4>1. parent'[x] = parent[x] /\ x \in Live
        BY <2>2, <2>3, <2>4, <3>2 DEF TypeOK, Live
      <4> QED
        BY <1>1, <2>3, <2>4, <4>1 DEF NothingLeftBehind
    <3> QED
      BY <3>1, <3>2
  <2>5. ASSUME NEW x \in Org, status'[x] = "deleted" PROVE staff'[x] = {}
    BY <1>1, <2>2, <2>5 DEF NothingLeftBehind, TypeOK
  <2> QED
    BY <2>4, <2>5 DEF NothingLeftBehind
<1>3. ASSUME UpdateCommit(r) PROVE NothingLeftBehind'
  <2> DEFINE o == req[r].org
             p == req[r].to
  <2>1. pc[r] = "write" /\ o \in Org /\ p \in Org \cup {Keep} /\ (p \in Org => p \in Live)
    BY <1>1, <1>3 DEF UpdateCommit, TreeInv, ReqOK, RowKnown, Holds, Moves
  <2>2. /\ parent' = [parent EXCEPT ![o] = IF p = Keep THEN @ ELSE p]
        /\ status' = status /\ staff' = staff
    BY <1>3 DEF UpdateCommit
  <2> HIDE DEF o, p
  <2>3. ASSUME NEW x \in Live, parent'[x] # NoOrg PROVE parent'[x] \in Live
    <3>1. parent'[x] = parent[x] \/ parent'[x] \in Live
      BY <2>1, <2>2 DEF TypeOK, Live
    <3> QED
      BY <1>1, <2>3, <3>1 DEF NothingLeftBehind
  <2>4. \A x \in Org : status[x] = "deleted" => staff'[x] = {}
    BY <1>1, <2>2 DEF NothingLeftBehind
  <2> QED
    BY <2>2, <2>3, <2>4, SameRowsEmptied
<1>4. ASSUME RemoveCommit(r) PROVE NothingLeftBehind'
  <2> DEFINE o == req[r].org
  <2>1. o \in Org /\ staff[o] = {} /\ \A x \in Live : parent[x] # o
    BY <1>1, <1>4 DEF RemoveCommit, TreeInv, ReqOK, Holds, Removes
  <2>2. /\ status' = [status EXCEPT ![o] = "deleted"]
        /\ parent' = parent /\ staff' = staff
    BY <1>4 DEF RemoveCommit
  <2> HIDE DEF o
  <2>3. Live' = Live \ {o}
    BY <2>1, <2>2 DEF Live, TypeOK
  <2>4. \A x \in Live' : parent'[x] # NoOrg => parent'[x] \in Live'
    BY <1>1, <2>1, <2>2, <2>3 DEF NothingLeftBehind
  <2>5. \A x \in Org : status'[x] = "deleted" => staff'[x] = {}
    BY <1>1, <2>1, <2>2 DEF NothingLeftBehind, TypeOK
  <2> QED
    BY <2>4, <2>5 DEF NothingLeftBehind
<1>5. ASSUME HireCommit(r) PROVE NothingLeftBehind'
  <2> DEFINE o == req[r].org
  <2>1. o \in Live
    BY <1>1, <1>5 DEF HireCommit, Holds
  <2>2. /\ staff' = [staff EXCEPT ![o] = @ \cup {"working"}]
        /\ parent' = parent /\ status' = status
    BY <1>5 DEF HireCommit, tree
  <2> HIDE DEF o
  <2>3. \A x \in Org : status[x] = "deleted" => staff'[x] = staff[x]
    BY <2>1, <2>2 DEF Live, TypeOK
  <2>4. /\ \A x \in Org : status[x] = "deleted" => staff'[x] = {}
        /\ \A x \in Live : parent'[x] # NoOrg => parent'[x] \in Live
    BY <1>1, <2>2, <2>3 DEF NothingLeftBehind
  <2> QED
    BY <2>2, <2>4, SameRowsEmptied
<1>6. ASSUME TransferCommit(r) PROVE NothingLeftBehind'
  <2> DEFINE o == req[r].org
             p == req[r].to
  <2>1. o \in Live /\ p \in Live
    BY <1>1, <1>6 DEF TransferCommit, Holds
  <2>2. /\ staff' = [staff EXCEPT ![p] = @ \cup staff[o], ![o] = {}]
        /\ parent' = parent /\ status' = status
    BY <1>6 DEF TransferCommit, tree
  <2> HIDE DEF o, p
  <2>3. \A x \in Org : status[x] = "deleted" => staff'[x] = staff[x]
    BY <2>1, <2>2 DEF Live, TypeOK
  <2>4. /\ \A x \in Org : status[x] = "deleted" => staff'[x] = {}
        /\ \A x \in Live : parent'[x] # NoOrg => parent'[x] \in Live
    BY <1>1, <2>2, <2>3 DEF NothingLeftBehind
  <2> QED
    BY <2>2, <2>4, SameRowsEmptied
<1>7. NothingLeftBehind'
  BY <1>2, <1>3, <1>4, <1>5, <1>6
<1>8. Finish(r) /\ pc[r] # "idle"
  BY DEF CreateCommit, UpdateCommit, RemoveCommit, HireCommit, TransferCommit
<1> QED
  BY <1>7, <1>8, CommitEmptied

\* An employee is archived where someone works, which is no row in removal.
LEMMA ArchiveEmptied ==
    ASSUME TypeOK, TypeOK', Emptied, NEW r \in Request,
           \/ \E o \in Org, last \in BOOLEAN : Archive(r, o, last)
           \/ \E p \in Policy : RemovePolicy(r, p)
    PROVE  Emptied'
<1>1. CASE \E p \in Policy : RemovePolicy(r, p)
  BY <1>1, ReadEmptied, StillHolds DEF RemovePolicy, Emptied, tree
<1>2. ASSUME NEW o \in Org, NEW last \in BOOLEAN, Archive(r, o, last) PROVE Emptied'
  <2>1. /\ "working" \in staff[o] /\ UNCHANGED <<parent, status, pc, req>>
        /\ \A x \in Org \ {o} : staff'[x] = staff[x]
    BY <1>2 DEF Archive, tree, TypeOK
  <2>2. NothingLeftBehind'
    <3>1. \A x \in Org : status[x] = "deleted" => staff[x] = {} /\ x # o
      BY <2>1 DEF Emptied, NothingLeftBehind
    <3> QED
      BY <2>1, <3>1 DEF Emptied, NothingLeftBehind, Live
  <2>3. ASSUME NEW x \in Request PROVE Holds(x)'
    <3>1. Holds(x)
      BY DEF Emptied
    <3>2. pc[x] \in {"archive", "purge"} => req[x].org \in Org \ {o}
      BY <2>1, <3>1 DEF Holds, Removes, Live
    <3> QED
      BY <2>1, <3>1, <3>2 DEF Holds, Live
  <2> QED
    BY <2>2, <2>3 DEF Emptied
<1> QED
  BY <1>1, <1>2

\* So nothing of what a request has checked is undone before it commits.
LEMMA TurnsEmptied ==
    ASSUME NullParent = FALSE PROVE Spec /\ []OneAtATime => []Emptied
<1>1. Init => Emptied
  <2> SUFFICES ASSUME Init PROVE Emptied
    OBVIOUS
  <2>1. \A o \in Org : (status[o] = "live" <=> o \in Existing) /\ status[o] # "deleted"
    BY DEF Init
  <2>2. \A o \in Existing : parent[o] \in Existing \cup {NoOrg}
    BY TreeAssumption DEF Init
  <2>3. NothingLeftBehind
    BY <2>1, <2>2, TreeAssumption DEF NothingLeftBehind, Live
  <2>4. \A x \in Request : Holds(x)
    BY DEF Init, Holds, Moves, Removes
  <2> QED
    BY <2>3, <2>4 DEF Emptied
<1>2. TypeOK /\ TypeOK' /\ TreeInv /\ OneAtATime /\ Emptied /\ [Next]_vars => Emptied'
  <2> SUFFICES ASSUME TypeOK, TypeOK', TreeInv, OneAtATime, Emptied, [Next]_vars
               PROVE  Emptied'
    OBVIOUS
  <2>1. CASE UNCHANGED vars
    <3>1. UNCHANGED <<parent, status, staff, pc, req>>
      BY <2>1 DEF vars
    <3> QED
      BY <3>1, StillHolds DEF Emptied, NothingLeftBehind, Live
  <2> QED
    BY <2>1, EntriesEmptied, ChecksEmptied, MoveEmptied, CommitsEmptied, ArchiveEmptied
    DEF Next
<1> QED
  BY <1>1, <1>2, TreeTypes, TreeOrder, PTL DEF Spec

\* While requests take turns, no live organization hangs from a deleted one,
\* nobody works in one, and whoever was archived there has moved to a live
\* one, although remove looks, moves the archived and deletes in steps that
\* nothing holds together.
THEOREM RemovalsLeaveNothing ==
    ASSUME NullParent = FALSE PROVE Spec /\ []OneAtATime => []NothingLeftBehind
<1>1. Emptied => NothingLeftBehind
  BY DEF Emptied
<1> QED
  BY <1>1, TurnsEmptied, PTL

-----------------------------------------------------------------------------
(* The policy an organization selects. *)

\* What the last check of an update has found about the policy it names.
Chosen(r) ==
    LET o == req[r].org
        p == IF req[r].to = Keep THEN parent[o] ELSE req[r].to
    IN
    pc[r] = "write" /\ req[r].pick # NoPolicy =>
        req[r].pick \in policies /\ OwnerOf[req[r].pick] \in OwnerChain(o, p)

\* With one request in flight, only its last check leads to the write.
LEMMA WriteAfterPolicy ==
    ASSUME \A r, s \in Request : r = s, TypeOK, Next, NEW r \in Request,
           pc'[r] = "write"
    PROVE  UpdateCheckPolicy(r)
<1>1. ASSUME NEW s, NEW d, Enter(r, s, d) PROVE s = "write"
  BY <1>1 DEF Enter, TypeOK
<1>2. ASSUME NEW s, NEW ok, Check(r, ok, s) PROVE s = "write"
  BY <1>1, <1>2 DEF Check, Finish, Goto, TypeOK
<1>3. ~ Finish(r)
  BY <1>1 DEF Finish
<1>4. ~ \E p \in Org \cup {NoOrg}, t \in {"GROUP", "UNIT"} : CreateCheck(r, p, t)
  BY <1>1 DEF CreateCheck
<1>5. ~ \E o \in Org, to \in Org \cup {NoOrg, Keep},
           c \in Policy \cup {NoPolicy, Keep} : UpdateRead(r, o, to, c)
  BY <1>1 DEF UpdateRead
<1>6. ~ UpdateCheckParent(r) /\ ~ UpdateCheckTree(r) /\ ~ UpdateCheckType(r)
  BY <1>2 DEF UpdateCheckParent, UpdateCheckTree, UpdateCheckType
<1>7. ~ RemoveCheckChildren(r) /\ ~ RemoveCheckStaff(r)
  BY <1>2 DEF RemoveCheckChildren, RemoveCheckStaff
<1>8. ~ RemoveMoveArchived(r)
  BY DEF RemoveMoveArchived, Goto, TypeOK
<1>9. ~ \E o \in Org : RemoveRead(r, o) \/ HireCheck(r, o)
  BY <1>1 DEF RemoveRead, HireCheck
<1>10. ~ \E src, dst \in Org : TransferCheck(r, src, dst)
  BY <1>1 DEF TransferCheck
<1>11. /\ ~ \E o \in Org : CreateCommit(r, o)
       /\ ~ UpdateCommit(r) /\ ~ RemoveCommit(r) /\ ~ HireCommit(r) /\ ~ TransferCommit(r)
  BY <1>3 DEF CreateCommit, UpdateCommit, RemoveCommit, HireCommit, TransferCommit
<1>12. /\ ~ \E o \in Org, last \in BOOLEAN : Archive(r, o, last)
       /\ ~ \E p \in Policy : RemovePolicy(r, p)
  BY DEF Archive, RemovePolicy, Begin
<1> QED
  BY <1>4, <1>5, <1>6, <1>7, <1>8, <1>9, <1>10, <1>11, <1>12 DEF Next

\* Only the commit of an update writes a selection.
LEMMA OnlyUpdatesSelect ==
    ASSUME Next, applied' # applied PROVE \E r \in Request : UpdateCommit(r)
<1> SUFFICES ASSUME NEW r \in Request,
                    \/ \E p \in Org \cup {NoOrg}, t \in {"GROUP", "UNIT"} : CreateCheck(r, p, t)
                    \/ \E o \in Org : CreateCommit(r, o)
                    \/ \E o \in Org, to \in Org \cup {NoOrg, Keep},
                          c \in Policy \cup {NoPolicy, Keep} : UpdateRead(r, o, to, c)
                    \/ UpdateCheckParent(r) \/ UpdateCheckTree(r)
                    \/ UpdateCheckType(r) \/ UpdateCheckPolicy(r)
                    \/ \E o \in Org : RemoveRead(r, o) \/ HireCheck(r, o)
                    \/ RemoveCheckChildren(r) \/ RemoveCheckStaff(r)
                    \/ RemoveMoveArchived(r) \/ RemoveCommit(r)
                    \/ HireCommit(r) \/ TransferCommit(r)
                    \/ \E o \in Org, last \in BOOLEAN : Archive(r, o, last)
                    \/ \E src, dst \in Org : TransferCheck(r, src, dst)
                    \/ \E p \in Policy : RemovePolicy(r, p)
             PROVE  applied' = applied
  BY DEF Next
<1> QED
  BY DEF CreateCheck, CreateCommit, UpdateRead, UpdateCheckParent, UpdateCheckTree,
         UpdateCheckType, UpdateCheckPolicy, RemoveRead, HireCheck, RemoveCheckChildren,
         RemoveCheckStaff, RemoveMoveArchived, RemoveCommit, HireCommit, TransferCommit,
         Archive, TransferCheck, RemovePolicy, tree

\* Of requests that follow each other, one that comes to select a policy
\* selects a published one whose owner is on the way up from where the update
\* puts the organization, not from where it was.
THEOREM SelectionsFit ==
    ASSUME \A r, s \in Request : r = s PROVE Spec => SelectionInChain
<1> DEFINE AllChosen == \A r \in Request : Chosen(r)
<1>1. Init => AllChosen
  BY DEF Init, Chosen
<1>2. TypeOK /\ AllChosen /\ [Next]_vars => AllChosen'
  <2> SUFFICES ASSUME TypeOK, AllChosen, [Next]_vars, NEW r \in Request PROVE Chosen(r)'
    OBVIOUS
  <2>1. CASE pc'[r] # "write"
    BY <2>1 DEF Chosen
  <2>2. CASE pc'[r] = "write" /\ UpdateCheckPolicy(r)
    <3> DEFINE q == req[r]
               p == IF q.to = Keep THEN parent[q.org] ELSE q.to
    <3>1. /\ UNCHANGED <<parent, status, policies>>
          /\ q.pick # NoPolicy => q.pick \in policies
                                  /\ OwnerOf[q.pick] \in OwnerChain(q.org, p)
          /\ req'[r] = q
      BY <2>2 DEF UpdateCheckPolicy, Check, Finish, Enter, Goto, TypeOK, tree
    <3> QED
      BY <2>2, <3>1 DEF Chosen, OwnerChain, Above, Live
  <2>3. CASE pc'[r] = "write" /\ ~ UpdateCheckPolicy(r)
    <3>1. ~ Next
      BY <2>3, WriteAfterPolicy
    <3> QED
      BY <3>1 DEF vars, Chosen, OwnerChain, Above, Live
  <2> QED
    BY <2>1, <2>2, <2>3
<1>3. TypeOK /\ AllChosen /\ [Next]_vars
      => [\A o \in Live : applied'[o] \notin {applied[o], NoPolicy}
             => /\ applied'[o] \in policies
                /\ OwnerOf[applied'[o]] \in OwnerChain(o, parent[o])']_vars
  <2> SUFFICES ASSUME TypeOK, AllChosen, Next, NEW o \in Live,
                      applied'[o] \notin {applied[o], NoPolicy}
               PROVE  /\ applied'[o] \in policies
                      /\ OwnerOf[applied'[o]] \in OwnerChain(o, parent[o])'
    BY DEF vars
  <2>1. PICK r \in Request : UpdateCommit(r)
    BY OnlyUpdatesSelect
  <2> DEFINE q == req[r]
             p == IF q.to = Keep THEN parent[o] ELSE q.to
  <2>2. /\ applied' = [applied EXCEPT ![q.org] = q.pick] /\ pc[r] = "write"
        /\ parent' = [parent EXCEPT ![q.org] = IF q.to = Keep THEN @ ELSE q.to]
        /\ status' = status /\ q.org \in Org
    BY <2>1 DEF UpdateCommit, TypeOK
  <2>3. o = q.org /\ applied'[o] = q.pick /\ q.pick # NoPolicy
    BY <2>2 DEF TypeOK, Live
  <2>4. q.pick \in policies /\ OwnerOf[q.pick] \in OwnerChain(o, p)
    BY <2>2, <2>3 DEF Chosen
  <2>5. OwnerChain(o, parent[o])' = OwnerChain(o, p)
    <3>1. parent' = [parent EXCEPT ![o] = p]
      BY <2>2, <2>3
    <3>2. parent'[o] = p /\ [parent' EXCEPT ![o] = p] = parent'
      BY <2>2, <2>3, <3>1 DEF TypeOK
    <3>3. Live' = Live
      BY <2>2 DEF Live
    <3> HIDE DEF p
    <3>4. WayUp(o, [parent' EXCEPT ![o] = parent'[o]], Live')
          = WayUp(o, [parent EXCEPT ![o] = p], Live)
      BY <3>1, <3>2, <3>3
    <3> QED
      BY <3>4 DEF OwnerChain, Above
  <2> QED
    BY <2>3, <2>4, <2>5
<1> QED
  BY <1>1, <1>2, <1>3, TreeTypes, PTL DEF Spec, SelectionInChain

-----------------------------------------------------------------------------
(* The company of a unit.  WayUp is a recursive function, and the library's *)
(* induction takes an operator: what the walk does for every number of      *)
(* steps is shown by the least number for which it would not.               *)

LEMMA LeastNumber ==
    ASSUME NEW S \in SUBSET Nat, S # {}
    PROVE  \E m \in S : \A n \in S : m <= n
<1> DEFINE R == OpToRel(<, Nat)
<1>1. IsWellFoundedOn(R, Nat)
  BY NatLessThanWellFounded
<1>2. \A x, y \in Nat : y < x => <<y, x>> \in R
  BY DEF OpToRel
<1> HIDE DEF R
<1>3. PICK m \in S : \A y \in S : <<y, m>> \notin R
  BY <1>1, WFMin
<1>4. \A n \in S : ~ (n < m)
  BY <1>2, <1>3
<1> QED
  BY <1>4

\* A climb of j steps from o to x, each from one of the rows.
Met(o, up, rows) == {o} \cup {up[x] : x \in rows}
Climb(o, up, rows, x, j) ==
    \E p \in [0..j -> Met(o, up, rows)] :
        /\ p[0] = o /\ p[j] = x
        /\ \A k \in 0..j-1 : p[k] \in rows /\ p[k+1] = up[p[k]]

\* What is met in at most n steps.
Climbed(o, up, rows, n) ==
    {x \in Met(o, up, rows) : \E j \in 0..n : Climb(o, up, rows, x, j)}

LEMMA ClimbOn ==
    ASSUME NEW o, NEW up, NEW rows, NEW x \in rows, NEW j \in Nat,
           Climb(o, up, rows, x, j)
    PROVE  Climb(o, up, rows, up[x], j+1)
<1> DEFINE V == Met(o, up, rows)
<1>1. PICK p \in [0..j -> V] :
        p[0] = o /\ p[j] = x /\ \A k \in 0..j-1 : p[k] \in rows /\ p[k+1] = up[p[k]]
  BY DEF Climb
<1>2. up[x] \in V
  BY DEF Met
<1> HIDE DEF V
<1> DEFINE q == [k \in 0..j+1 |-> IF k = j+1 THEN up[x] ELSE p[k]]
<1>3. q \in [0..j+1 -> V] /\ q[0] = o /\ q[j+1] = up[x]
  BY <1>1, <1>2
<1>4. ASSUME NEW k \in 0..j+1-1 PROVE q[k] \in rows /\ q[k+1] = up[q[k]]
  <2>1. CASE k = j
    BY <1>1, <2>1
  <2>2. CASE k # j
    <3>1. k \in 0..j-1 /\ q[k] = p[k] /\ q[k+1] = p[k+1]
      BY <2>2
    <3> QED
      BY <1>1, <3>1
  <2> QED
    BY <2>1, <2>2
<1> HIDE DEF q
<1> QED
  BY <1>3, <1>4 DEF Climb, V

LEMMA ClimbBefore ==
    ASSUME NEW o, NEW up, NEW rows, NEW y, NEW j \in Nat, Climb(o, up, rows, y, j+1)
    PROVE  \E x \in rows : x \in Met(o, up, rows) /\ Climb(o, up, rows, x, j) /\ y = up[x]
<1> DEFINE V == Met(o, up, rows)
<1>1. PICK p \in [0..j+1 -> V] :
        /\ p[0] = o /\ p[j+1] = y
        /\ \A k \in 0..j+1-1 : p[k] \in rows /\ p[k+1] = up[p[k]]
  BY DEF Climb
<1> HIDE DEF V
<1> DEFINE q == [k \in 0..j |-> p[k]]
<1>2. q \in [0..j -> V] /\ q[0] = o /\ q[j] = p[j] /\ p[j] \in V
  BY <1>1
<1>3. \A k \in 0..j-1 : q[k] \in rows /\ q[k+1] = up[q[k]]
  BY <1>1
<1>4. p[j] \in rows /\ y = up[p[j]]
  BY <1>1
<1> HIDE DEF q
<1> QED
  BY <1>2, <1>3, <1>4 DEF Climb, V

\* The recursion of WayUp has a solution.
Walks(w, o, up, rows) ==
    w = [n \in Nat |->
            IF n = 0 THEN {o} ELSE w[n-1] \cup {up[x] : x \in w[n-1] \cap rows}]

LEMMA ClimbStart ==
    ASSUME NEW o, NEW up, NEW rows PROVE Climbed(o, up, rows, 0) = {o}
<1> DEFINE p == [k \in 0..0 |-> o]
<1>1. 0..0 = {0} /\ o \in Met(o, up, rows)
  BY DEF Met
<1>2. p \in [0..0 -> Met(o, up, rows)] /\ p[0] = o /\ \A k \in 0..0-1 : FALSE
  BY <1>1
<1> HIDE DEF p
<1>3. Climb(o, up, rows, o, 0)
  BY <1>2 DEF Climb
<1>4. \A x : Climb(o, up, rows, x, 0) => x = o
  BY DEF Climb
<1> QED
  BY <1>1, <1>3, <1>4 DEF Climbed

LEMMA ClimbStep ==
    ASSUME NEW o, NEW up, NEW rows, NEW n \in Nat
    PROVE  Climbed(o, up, rows, n+1)
             = Climbed(o, up, rows, n) \cup {up[x] : x \in Climbed(o, up, rows, n) \cap rows}
<1> DEFINE C(i) == Climbed(o, up, rows, i)
<1>1. ASSUME NEW y \in C(n+1) PROVE y \in C(n) \/ \E x \in C(n) \cap rows : y = up[x]
  <2>1. PICK j \in 0..n+1 : Climb(o, up, rows, y, j)
    BY DEF Climbed
  <2>2. y \in Met(o, up, rows)
    BY DEF Climbed
  <2>3. CASE j \in 0..n
    BY <2>1, <2>2, <2>3 DEF Climbed
  <2>4. CASE j = n+1
    <3>1. PICK x \in rows :
            x \in Met(o, up, rows) /\ Climb(o, up, rows, x, n) /\ y = up[x]
      BY <2>1, <2>4, ClimbBefore
    <3>2. n \in 0..n
      OBVIOUS
    <3> QED
      BY <3>1, <3>2 DEF Climbed
  <2> QED
    BY <2>3, <2>4
<1>2. ASSUME NEW x \in C(n) \cap rows PROVE up[x] \in C(n+1)
  <2>1. PICK j \in 0..n : Climb(o, up, rows, x, j)
    BY DEF Climbed
  <2>2. Climb(o, up, rows, up[x], j+1) /\ j+1 \in 0..n+1
    BY <2>1, ClimbOn
  <2>3. up[x] \in Met(o, up, rows)
    BY DEF Met
  <2> QED
    BY <2>2, <2>3 DEF Climbed
<1>3. 0..n \subseteq 0..n+1
  OBVIOUS
<1>4. C(n) \subseteq C(n+1)
  BY <1>3 DEF Climbed
<1> HIDE DEF C
<1>5. C(n+1) = C(n) \cup {up[x] : x \in C(n) \cap rows}
  BY <1>1, <1>2, <1>4
<1> QED
  BY <1>5 DEF C

\* w is a walk from o: a row met in n steps brings its parent in one more.
WalkFrom(w, o, up, rows) ==
    /\ w[0] = {o}
    /\ \A n \in Nat : w[n+1] = w[n] \cup {up[x] : x \in w[n] \cap rows}

LEMMA WayUpWalks ==
    ASSUME NEW o, NEW up, NEW rows
    PROVE  \E w : /\ WayUp(o, up, rows) = rows \cap w[Cardinality(Org)]
                  /\ WalkFrom(w, o, up, rows)
<1> DEFINE g == [n \in Nat |-> Climbed(o, up, rows, n)]
           w == CHOOSE v : Walks(v, o, up, rows)
<1>1. WayUp(o, up, rows) = rows \cap w[Cardinality(Org)]
  BY DEF WayUp, Walks
<1>2. Walks(g, o, up, rows)
  <2>1. ASSUME NEW n \in Nat
        PROVE  g[n] = IF n = 0 THEN {o} ELSE g[n-1] \cup {up[x] : x \in g[n-1] \cap rows}
    <3>1. CASE n = 0
      BY <3>1, ClimbStart
    <3>2. CASE n # 0
      <4> DEFINE m == n-1
      <4>1. m \in Nat /\ m+1 = n
        BY <3>2
      <4>2. g[m] = Climbed(o, up, rows, m) /\ g[m+1] = Climbed(o, up, rows, m+1)
        BY <4>1
      <4> HIDE DEF m, g
      <4>3. g[m+1] = g[m] \cup {up[x] : x \in g[m] \cap rows}
        BY <4>1, <4>2, ClimbStep
      <4> QED
        BY <3>2, <4>1, <4>3 DEF m
    <3> QED
      BY <3>1, <3>2
  <2> QED
    BY <2>1 DEF Walks
<1>3. Walks(w, o, up, rows)
  BY <1>2
<1> HIDE DEF w, g
<1>4. w[0] = {o}
  BY <1>3 DEF Walks
<1>5. ASSUME NEW n \in Nat PROVE w[n+1] = w[n] \cup {up[x] : x \in w[n] \cap rows}
  <2>1. n+1 \in Nat /\ n+1 # 0 /\ (n+1)-1 = n
    OBVIOUS
  <2> QED
    BY <1>3, <2>1 DEF Walks
<1>6. WalkFrom(w, o, up, rows)
  BY <1>4, <1>5 DEF WalkFrom
<1> QED
  BY <1>1, <1>6

\* What contains the start and the parents of the rows in it contains the way up; the
\* start, its parent and the parent of that are on it.
LEMMA WayUpIs ==
    ASSUME NEW o, NEW up, NEW rows, NEW W, o \in W,
           \A x \in W \cap rows : up[x] \in W
    PROVE  /\ WayUp(o, up, rows) \subseteq W \cap rows
           /\ o \in rows => o \in WayUp(o, up, rows)
           /\ o \in rows /\ up[o] \in rows /\ Cardinality(Org) >= 1
                => up[o] \in WayUp(o, up, rows)
           /\ o \in rows /\ up[o] \in rows /\ up[up[o]] \in rows /\ Cardinality(Org) >= 2
                => up[up[o]] \in WayUp(o, up, rows)
<1>10. PICK w : /\ WayUp(o, up, rows) = rows \cap w[Cardinality(Org)]
                /\ WalkFrom(w, o, up, rows)
  BY WayUpWalks
<1>2. /\ w[0] = {o}
      /\ \A n \in Nat : w[n+1] = w[n] \cup {up[x] : x \in w[n] \cap rows}
  BY <1>10 DEF WalkFrom
<1> DEFINE N == Cardinality(Org)
<1>1. N \in Nat
  BY TreeAssumption, FS_CardinalityType
<1> HIDE DEF N
<1>3. \A n \in Nat : w[n] \subseteq W
  <2> DEFINE Bad == {n \in Nat : ~ (w[n] \subseteq W)}
  <2>1. ASSUME Bad # {} PROVE FALSE
    <3>1. PICK m \in Bad : \A n \in Bad : m <= n
      BY <2>1, LeastNumber
    <3>2. m # 0
      BY <1>2, <3>1
    <3> DEFINE k == m-1
    <3>3. k \in Nat /\ k+1 = m /\ ~ (m <= k)
      BY <3>1, <3>2
    <3>4. w[k] \subseteq W
      BY <3>1, <3>3
    <3> HIDE DEF k
    <3>5. w[k+1] \subseteq W
      BY <1>2, <3>3, <3>4
    <3> QED
      BY <3>1, <3>3, <3>5
  <2> QED
    BY <2>1
<1>4. ASSUME NEW b \in Nat, NEW n \in Nat, b <= n PROVE w[b] \subseteq w[n]
  <2> DEFINE Bad == {i \in Nat : b <= i /\ ~ (w[b] \subseteq w[i])}
  <2>1. ASSUME Bad # {} PROVE FALSE
    <3>1. PICK m \in Bad : \A i \in Bad : m <= i
      BY <2>1, LeastNumber
    <3>2. m # b
      BY <3>1
    <3> DEFINE k == m-1
    <3>3. k \in Nat /\ k+1 = m /\ ~ (m <= k) /\ b <= k
      BY <3>1, <3>2
    <3>4. w[b] \subseteq w[k]
      BY <3>1, <3>3
    <3> HIDE DEF k
    <3>5. w[k] \subseteq w[k+1]
      BY <1>2, <3>3
    <3> QED
      BY <3>1, <3>3, <3>4, <3>5
  <2> QED
    BY <1>4, <2>1
<1>5. w[0] \subseteq w[N] /\ o \in w[0]
  BY <1>1, <1>2, <1>4
<1>6. o \in rows => up[o] \in w[1]
  <2>1. w[0+1] = w[0] \cup {up[x] : x \in w[0] \cap rows}
    BY <1>2
  <2> QED
    BY <1>2, <2>1
<1>7. o \in rows /\ up[o] \in rows => up[up[o]] \in w[2]
  <2>1. w[1+1] = w[1] \cup {up[x] : x \in w[1] \cap rows}
    BY <1>2
  <2> QED
    BY <1>6, <2>1
<1>8. N >= 1 => w[1] \subseteq w[N]
  BY <1>1, <1>4
<1>9. N >= 2 => w[2] \subseteq w[N]
  BY <1>1, <1>4
<1> QED
  BY <1>1, <1>10, <1>3, <1>5, <1>6, <1>7, <1>8, <1>9 DEF N

\* The way up from a group, and from a unit of it: the group, the row above it, and the
\* root if that row is a company.
LEMMA GroupWay ==
    ASSUME NEW up, NEW rows \in SUBSET Org, NEW t \in rows, Cardinality(Org) >= 1,
           up[Root] = NoOrg, up[t] \in rows => up[up[t]] = Root
    PROVE  /\ WayUp(t, up, rows) \subseteq {t, up[t], Root} \cap rows
           /\ up[t] \in rows => up[t] \in WayUp(t, up, rows)
<1> DEFINE W == {t, up[t], Root, NoOrg}
<1>1. NoOrg \notin rows
  BY TreeAssumption
<1>2. t \in W /\ \A x \in W \cap rows : up[x] \in W
  BY <1>1
<1> HIDE DEF W
<1>3. WayUp(t, up, rows) \subseteq W \cap rows
  BY <1>2, WayUpIs
<1>4. up[t] \in rows => up[t] \in WayUp(t, up, rows)
  BY <1>2, WayUpIs
<1> QED
  BY <1>1, <1>3, <1>4 DEF W

LEMMA UnitWay ==
    ASSUME NEW up, NEW rows \in SUBSET Org, NEW u \in rows, up[u] \in rows,
           Cardinality(Org) >= 2, up[Root] = NoOrg,
           up[up[u]] \in rows => up[up[up[u]]] = Root
    PROVE  /\ WayUp(u, up, rows) \subseteq {u, up[u], up[up[u]], Root} \cap rows
           /\ up[up[u]] \in rows => up[up[u]] \in WayUp(u, up, rows)
<1> DEFINE W == {u, up[u], up[up[u]], Root, NoOrg}
<1>1. NoOrg \notin rows
  BY TreeAssumption
<1>2. u \in W /\ \A x \in W \cap rows : up[x] \in W
  BY <1>1
<1> HIDE DEF W
<1>3. WayUp(u, up, rows) \subseteq W \cap rows
  BY <1>2, WayUpIs
<1>4. up[up[u]] \in rows => up[up[u]] \in WayUp(u, up, rows)
  BY <1>2, WayUpIs
<1> QED
  BY <1>1, <1>3, <1>4 DEF W

LEMMA SeveralRows ==
    ASSUME NEW a \in Org, NEW b \in Org, a # b
    PROVE  Cardinality(Org) >= 2
<1>1. IsFiniteSet({a, b}) /\ Cardinality({a, b}) = 2
  <2>1. IsFiniteSet({b}) /\ Cardinality({b}) = 1 /\ a \notin {b}
    BY FS_Singleton
  <2>2. {b} \cup {a} = {a, b}
    OBVIOUS
  <2>3. IsFiniteSet({b} \cup {a}) /\ Cardinality({b} \cup {a}) = 2
    BY <2>1, FS_AddElement
  <2> QED
    BY <2>2, <2>3
<1>2. Cardinality({a, b}) <= Cardinality(Org)
  BY TreeAssumption, FS_Subset
<1>3. Cardinality(Org) \in Nat
  BY TreeAssumption, FS_CardinalityType
<1> QED
  BY <1>1, <1>2, <1>3

\* With the rows as TreeInv has them, what a live group hangs from is a company or nothing.
LEMMA AboveGroup ==
    ASSUME TypeOK, TreeInv, NothingLeftBehind, NEW t \in Live, Class(t) = "GROUP",
           parent[t] # NoOrg
    PROVE  parent[t] \in Live /\ Class(parent[t]) = "COMPANY" /\ parent[parent[t]] = Root
<1>1. parent[t] \in Live /\ parent[t] \in Org
  BY DEF NothingLeftBehind, Live
<1>2. Level[Class(parent[t])] < Level[Class(t)]
  BY DEF TreeInv, LevelOrder
<1>3. parent[t] # Root
  BY DEF Class, ClassOf
<1>4. Class(parent[t]) \in {"COMPANY", "GROUP", "UNIT"}
  BY <1>3 DEF Class, ClassOf
<1>5. Class(parent[t]) = "COMPANY"
  BY <1>2, <1>4 DEF Level
<1> QED
  BY <1>1, <1>3, <1>5 DEF Class, ClassOf

\* The company of a group is what it hangs from.
LEMMA GroupCompany ==
    ASSUME TypeOK, TreeInv, NothingLeftBehind, NEW t \in Live, Class(t) = "GROUP",
           Cardinality(Org) >= 1
    PROVE  CompanyOf(t) = {x \in Live : x = parent[t]}
<1>1. [parent EXCEPT ![t] = parent[t]] = parent
  BY DEF TypeOK
<1>2. Live \in SUBSET Org /\ parent[Root] = NoOrg /\ NoOrg \notin Live
  BY TreeAssumption DEF Live, TreeInv
<1>3. parent[t] \in Live => Class(parent[t]) = "COMPANY" /\ parent[parent[t]] = Root
  BY <1>2, AboveGroup
<1>4. /\ Above(t, parent[t]) \subseteq {t, parent[t], Root} \cap Live
      /\ parent[t] \in Live => parent[t] \in Above(t, parent[t])
  BY <1>1, <1>2, <1>3, GroupWay DEF Above
<1>5. Class(Root) = "ADMIN"
  BY DEF Class, ClassOf
<1> QED
  BY <1>3, <1>4, <1>5 DEF CompanyOf

\* After a unit u is hung under the group t, what t hangs from is its company.
LEMMA MovedCompany ==
    ASSUME TypeOK, TypeOK', TreeInv, NothingLeftBehind, NEW u \in Live, NEW t \in Live, u # t,
           Class(t) = "GROUP", Class(u) = "UNIT", Class(u)' = "UNIT",
           parent' = [parent EXCEPT ![u] = t], status' = status,
           \A x \in Org \ {u} : coded'[x] = coded[x], u # Root
    PROVE  CompanyOf(u)' = {x \in Live : x = parent[t]}
<1>1. Live' = Live /\ Live \in SUBSET Org /\ NoOrg \notin Live /\ u \in Org /\ t \in Org
  BY TreeAssumption DEF Live
<1>2. parent'[u] = t /\ \A x \in Org \ {u} : parent'[x] = parent[x] /\ Class(x)' = Class(x)
  BY <1>1 DEF TypeOK, Class, ClassOf
<1>3. [parent' EXCEPT ![u] = parent'[u]] = parent'
  BY DEF TypeOK
<1>4. Root \in Org /\ parent'[Root] = NoOrg /\ Class(Root)' = "ADMIN"
  BY <1>2, TreeAssumption DEF TreeInv, Class, ClassOf
<1>5. parent'[t] = parent[t] /\ Class(t)' = "GROUP"
  BY <1>1, <1>2
<1>6. parent[t] \in Live =>
        parent[t] # u /\ Class(parent[t])' = "COMPANY" /\ parent'[parent[t]] = Root
  <2> SUFFICES ASSUME parent[t] \in Live
               PROVE  /\ parent[t] # u /\ Class(parent[t])' = "COMPANY"
                      /\ parent'[parent[t]] = Root
    OBVIOUS
  <2>1. Class(parent[t]) = "COMPANY" /\ parent[parent[t]] = Root
    BY <1>1, AboveGroup
  <2>2. CASE parent[t] = u
    BY <2>1, <2>2
  <2>3. CASE parent[t] # u
    BY <1>1, <1>2, <2>1, <2>3
  <2> QED
    BY <2>2, <2>3
<1>7. Cardinality(Org) >= 2
  BY <1>1, SeveralRows
<1>8. /\ Above(u, parent[u])' \subseteq {u, t, parent[t], Root} \cap Live
      /\ parent[t] \in Live => parent[t] \in Above(u, parent[u])'
  <2>1. Above(u, parent[u])' = WayUp(u, parent', Live)
    BY <1>1, <1>3 DEF Above
  <2>2. u \in Live /\ parent'[u] \in Live /\ parent'[parent'[u]] = parent[t]
    BY <1>2, <1>5
  <2>3. parent'[parent'[u]] \in Live => parent'[parent'[parent'[u]]] = Root
    BY <1>6, <2>2
  <2>4. /\ WayUp(u, parent', Live)
             \subseteq {u, parent'[u], parent'[parent'[u]], Root} \cap Live
        /\ parent'[parent'[u]] \in Live => parent'[parent'[u]] \in WayUp(u, parent', Live)
    <3>1. PICK up, rows : up = parent' /\ rows = Live
      OBVIOUS
    <3>2. /\ rows \in SUBSET Org /\ u \in rows /\ up[u] \in rows /\ up[Root] = NoOrg
          /\ up[up[u]] \in rows => up[up[up[u]]] = Root
      BY <1>1, <1>4, <2>2, <2>3, <3>1
    <3>3. /\ WayUp(u, up, rows) \subseteq {u, up[u], up[up[u]], Root} \cap rows
          /\ up[up[u]] \in rows => up[up[u]] \in WayUp(u, up, rows)
      BY <1>7, <3>2, UnitWay
    <3>4. WayUp(u, up, rows) = WayUp(u, parent', Live)
      BY <3>1
    <3>5. up[u] = parent'[u] /\ up[up[u]] = parent'[parent'[u]]
      BY <3>1
    <3>6. rows = Live
      BY <3>1
    <3>7. {u, up[u], up[up[u]], Root} = {u, parent'[u], parent'[parent'[u]], Root}
      BY <3>5
    <3>8. WayUp(u, parent', Live) \subseteq {u, parent'[u], parent'[parent'[u]], Root} \cap Live
      BY <3>3, <3>4, <3>6, <3>7
    <3>9. parent'[parent'[u]] \in Live => parent'[parent'[u]] \in WayUp(u, parent', Live)
      BY <3>3, <3>4, <3>5, <3>6
    <3> QED
      BY <3>8, <3>9
  <2> QED
    BY <1>2, <2>1, <2>2, <2>4
<1> QED
  BY <1>4, <1>5, <1>6, <1>8 DEF CompanyOf

\* The steps of an update from the one that has compared the companies.
Compared == {"type", "policy", "write"}

\* What an update in flight knows of where the unit it moves hangs: the parent it read
\* is still its parent, and the one it goes to is of the same company.
Carried(r) ==
    LET q == req[r] IN
    /\ pc[r] \in Moves => q.was = parent[q.org]
    /\ pc[r] \in Compared /\ q.to \in Org /\ q.to # q.was /\ Class(q.org) = "UNIT"
         => CompanyOf(q.org) = CompanyOf(q.to)

\* While requests take turns, a request that is in one of the steps of an update after a
\* step has just begun, was in one before, or has just compared the companies; and no row
\* has changed.
LEMMA IntoMoves ==
    ASSUME TypeOK, OneAtATime, OneAtATime', Next, NEW r \in Request, pc'[r] \in Moves
    PROVE  /\ UNCHANGED <<parent, coded, status>>
           /\ \/ \E o \in Org, to \in Org \cup {NoOrg, Keep},
                    c \in Policy \cup {NoPolicy, Keep} : UpdateRead(r, o, to, c)
              \/ UpdateCheckTree(r)
              \/ /\ pc[r] \in Moves /\ req'[r] = req[r]
                 /\ pc'[r] \in Compared => pc[r] \in Compared
<1> DEFINE Goal ==
        /\ UNCHANGED <<parent, coded, status>>
        /\ \/ \E o \in Org, to \in Org \cup {NoOrg, Keep},
                 c \in Policy \cup {NoPolicy, Keep} : UpdateRead(r, o, to, c)
           \/ UpdateCheckTree(r)
           \/ /\ pc[r] \in Moves /\ req'[r] = req[r]
              /\ pc'[r] \in Compared => pc[r] \in Compared
<1>1. ASSUME NEW s \in Request, NEW t, NEW d, Enter(s, t, d)
      PROVE  pc'[s] = t /\ \A x \in Request \ {s} : pc'[x] = pc[x] /\ req'[x] = req[x]
  BY <1>1 DEF Enter, TypeOK
<1>2. ASSUME NEW s \in Request, NEW t, NEW ok, Check(s, ok, t)
      PROVE  /\ pc'[s] \in {"idle", t}
             /\ pc'[s] = t /\ t # "idle" => req'[s] = req[s]
             /\ \A x \in Request \ {s} : pc'[x] = pc[x] /\ req'[x] = req[x]
  BY <1>1, <1>2 DEF Check, Finish, Goto, TypeOK
<1>3. ASSUME NEW s \in Request, Finish(s) PROVE pc'[s] = "idle"
  BY <1>1, <1>3 DEF Finish
<1>4. pc'[r] # "idle"
  BY DEF Moves
\* A request that begins is the one in flight.
<1>5. ASSUME NEW s \in Request, NEW t, NEW d, Enter(s, t, d), t # "idle" PROVE s = r
  <2>1. pc'[s] # "idle"
    BY <1>1, <1>5
  <2> QED
    BY <1>4, <2>1 DEF OneAtATime
\* So is one that goes on.
<1>6. ASSUME NEW s \in Request, pc[s] # "idle" PROVE s = r \/ pc[r] = "idle"
  BY <1>6 DEF OneAtATime
<1>7. ASSUME NEW s \in Request, NEW p \in Org \cup {NoOrg}, NEW t \in {"GROUP", "UNIT"},
             CreateCheck(s, p, t)
      PROVE  Goal
  <2>1. s = r
    BY <1>5, <1>7 DEF CreateCheck
  <2> QED
    BY <1>1, <1>7, <2>1 DEF CreateCheck, Moves
<1>8. ASSUME NEW s \in Request, NEW o \in Org, NEW to \in Org \cup {NoOrg, Keep},
             NEW c \in Policy \cup {NoPolicy, Keep}, UpdateRead(s, o, to, c)
      PROVE  Goal
  <2>1. s = r
    BY <1>5, <1>8 DEF UpdateRead
  <2> QED
    BY <1>8, <2>1 DEF UpdateRead, tree
<1>9. ASSUME NEW s \in Request, NEW o \in Org,
             RemoveRead(s, o) \/ HireCheck(s, o)
      PROVE  Goal
  <2>1. s = r
    BY <1>5, <1>9 DEF RemoveRead, HireCheck
  <2> QED
    BY <1>1, <1>9, <2>1 DEF RemoveRead, HireCheck, Moves
<1>10. ASSUME NEW s \in Request, NEW src \in Org, NEW dst \in Org, TransferCheck(s, src, dst)
       PROVE  Goal
  <2>1. s = r
    BY <1>5, <1>10 DEF TransferCheck
  <2> QED
    BY <1>1, <1>10, <2>1 DEF TransferCheck, Moves
<1>11. ASSUME NEW s \in Request,
              \/ \E o \in Org, last \in BOOLEAN : Archive(s, o, last)
              \/ \E p \in Policy : RemovePolicy(s, p)
       PROVE  Goal
  BY <1>11 DEF Archive, RemovePolicy, tree
\* A step of another request that is in flight leaves r idle.
<1>12. ASSUME NEW s \in Request, s # r, pc[s] # "idle",
              \A x \in Request \ {s} : pc'[x] = pc[x] /\ req'[x] = req[x]
       PROVE  FALSE
  <2>1. pc[r] # "idle"
    BY <1>4, <1>12
  <2> QED
    BY <1>6, <1>12, <2>1
<1>13. ASSUME NEW s \in Request, pc[s] # "idle",
              \/ \E o \in Org : CreateCommit(s, o)
              \/ UpdateCommit(s) \/ RemoveCommit(s) \/ HireCommit(s) \/ TransferCommit(s)
       PROVE  FALSE
  <2>1. Finish(s)
    BY <1>13 DEF CreateCommit, UpdateCommit, RemoveCommit, HireCommit, TransferCommit
  <2>2. s # r
    BY <1>3, <1>4, <2>1
  <2> QED
    BY <1>1, <1>12, <1>13, <2>1, <2>2 DEF Finish
<1>14. ASSUME NEW s \in Request, NEW t, NEW ok, Check(s, ok, t), t # "idle", pc[s] # "idle"
       PROVE  s = r /\ pc'[r] = t /\ req'[r] = req[r]
  <2>1. s = r
    BY <1>2, <1>12, <1>14
  <2> QED
    BY <1>2, <1>4, <1>14, <2>1
<1>15. ASSUME NEW s \in Request, UpdateCheckTree(s) PROVE Goal
  <2>1. s = r
    BY <1>14, <1>15 DEF UpdateCheckTree
  <2> QED
    BY <1>15, <2>1 DEF UpdateCheckTree, tree
<1>16. ASSUME NEW s \in Request,
              UpdateCheckParent(s) \/ UpdateCheckType(s) \/ UpdateCheckPolicy(s)
       PROVE  Goal
  <2>1. /\ s = r /\ req'[r] = req[r] /\ pc[r] \in Moves
        /\ pc'[r] \in Compared => pc[r] \in Compared
    <3>1. CASE UpdateCheckParent(s)
      <4>1. s = r /\ pc'[r] = "tree" /\ req'[r] = req[r]
        BY <1>14, <3>1 DEF UpdateCheckParent
      <4> QED
        BY <3>1, <4>1 DEF UpdateCheckParent, Moves, Compared
    <3>2. CASE UpdateCheckType(s)
      <4>1. s = r /\ req'[r] = req[r]
        BY <1>14, <3>2 DEF UpdateCheckType
      <4> QED
        BY <3>2, <4>1 DEF UpdateCheckType, Moves, Compared
    <3>3. CASE UpdateCheckPolicy(s)
      <4>1. s = r /\ req'[r] = req[r]
        BY <1>14, <3>3 DEF UpdateCheckPolicy
      <4> QED
        BY <3>3, <4>1 DEF UpdateCheckPolicy, Moves, Compared
    <3> QED
      BY <1>16, <3>1, <3>2, <3>3
  <2> QED
    BY <1>16, <2>1 DEF UpdateCheckParent, UpdateCheckType, UpdateCheckPolicy, tree
<1>17. ASSUME NEW s \in Request, RemoveCheckChildren(s) \/ RemoveCheckStaff(s)
       PROVE  Goal
  <2>1. s = r /\ pc'[r] \in {"staff", "archive"}
    BY <1>14, <1>17 DEF RemoveCheckChildren, RemoveCheckStaff
  <2> QED
    BY <2>1 DEF Moves
<1>18. ASSUME NEW s \in Request, RemoveMoveArchived(s) PROVE Goal
  <2>1. /\ pc[s] # "idle" /\ pc'[s] = "purge"
        /\ \A x \in Request \ {s} : pc'[x] = pc[x] /\ req'[x] = req[x]
    BY <1>18 DEF RemoveMoveArchived, Goto, TypeOK
  <2>2. s = r
    BY <1>12, <2>1
  <2> QED
    BY <2>1, <2>2 DEF Moves
<1> HIDE DEF Goal
<1>19. ASSUME NEW s \in Request,
              \/ \E o \in Org : CreateCommit(s, o)
              \/ UpdateCommit(s) \/ RemoveCommit(s) \/ HireCommit(s) \/ TransferCommit(s)
       PROVE  Goal
  <2>1. pc[s] # "idle"
    BY <1>19 DEF CreateCommit, UpdateCommit, RemoveCommit, HireCommit, TransferCommit
  <2> QED
    BY <1>13, <1>19, <2>1
<1>20. Goal
  BY <1>7, <1>8, <1>9, <1>10, <1>11, <1>15, <1>16, <1>17, <1>18, <1>19 DEF Next
<1> QED
  BY <1>20 DEF Goal

\* The rows stay, and with them the companies.
LEMMA SameCompanies ==
    ASSUME UNCHANGED <<parent, coded, status>>
    PROVE  \A x : CompanyOf(x)' = CompanyOf(x) /\ Class(x)' = Class(x)
BY DEF CompanyOf, Above, Live, Class, ClassOf

LEMMA CarriedKept ==
    ASSUME TypeOK, TypeOK', TreeInv, OneAtATime, OneAtATime', Next, NEW r \in Request,
           Carried(r)
    PROVE  Carried(r)'
<1> SUFFICES ASSUME pc'[r] \in Moves PROVE Carried(r)'
  BY DEF Carried, Moves, Compared
<1>1. /\ UNCHANGED <<parent, coded, status>>
      /\ \/ \E o \in Org, to \in Org \cup {NoOrg, Keep},
               c \in Policy \cup {NoPolicy, Keep} : UpdateRead(r, o, to, c)
         \/ UpdateCheckTree(r)
         \/ /\ pc[r] \in Moves /\ req'[r] = req[r]
            /\ pc'[r] \in Compared => pc[r] \in Compared
  BY IntoMoves
<1>2. \A x : CompanyOf(x)' = CompanyOf(x) /\ Class(x)' = Class(x)
  BY <1>1, SameCompanies
<1>3. CASE pc[r] \in Moves /\ req'[r] = req[r] /\ (pc'[r] \in Compared => pc[r] \in Compared)
  BY <1>1, <1>2, <1>3 DEF Carried
<1>4. ASSUME NEW o \in Org, NEW to \in Org \cup {NoOrg, Keep},
             NEW c \in Policy \cup {NoPolicy, Keep}, UpdateRead(r, o, to, c)
      PROVE  Carried(r)'
  <2>1. /\ req'[r].was = parent[o] /\ req'[r].org = o /\ req'[r].to = to
        /\ pc'[r] = IF to \in Org THEN "parent" ELSE "policy"
    BY <1>4 DEF UpdateRead, Enter, TypeOK
  <2> QED
    BY <1>1, <2>1 DEF Carried, Compared
<1>5. CASE UpdateCheckTree(r)
  <2> DEFINE q == req[r]
  <2>1. /\ pc[r] = "tree" /\ req'[r] = q
        /\ ReadClass(r, q.was) = "UNIT" /\ q.to # q.was => CompanyOf(q.org) = CompanyOf(q.to)
    BY <1>5 DEF UpdateCheckTree, Moving, Check, Finish, Enter, Goto, TypeOK, Moves
  <2>2. RowKnown(r) /\ q.was = parent[q.org]
    BY <2>1 DEF TreeInv, ReqOK, Carried, Moves
  <2>3. Class(q.org) = "UNIT" => ReadClass(r, q.was) = "UNIT"
    BY <2>2 DEF RowKnown, Class, ReadClass, ClassOf
  <2> QED
    BY <1>1, <1>2, <2>1, <2>2, <2>3 DEF Carried
<1> QED
  BY <1>1, <1>3, <1>4, <1>5

\* Only the commit of an update moves a row that lives.
LEMMA OnlyUpdatesMove ==
    ASSUME TypeOK, Next, NEW o \in Live, parent'[o] # parent[o]
    PROVE  \E r \in Request : UpdateCommit(r)
<1> SUFFICES ASSUME NEW r \in Request,
                    \/ \E p \in Org \cup {NoOrg}, t \in {"GROUP", "UNIT"} : CreateCheck(r, p, t)
                    \/ \E x \in Org : CreateCommit(r, x)
                    \/ \E x \in Org, to \in Org \cup {NoOrg, Keep},
                          c \in Policy \cup {NoPolicy, Keep} : UpdateRead(r, x, to, c)
                    \/ UpdateCheckParent(r) \/ UpdateCheckTree(r)
                    \/ UpdateCheckType(r) \/ UpdateCheckPolicy(r)
                    \/ \E x \in Org : RemoveRead(r, x) \/ HireCheck(r, x)
                    \/ RemoveCheckChildren(r) \/ RemoveCheckStaff(r)
                    \/ RemoveMoveArchived(r) \/ RemoveCommit(r)
                    \/ HireCommit(r) \/ TransferCommit(r)
                    \/ \E x \in Org, last \in BOOLEAN : Archive(r, x, last)
                    \/ \E src, dst \in Org : TransferCheck(r, src, dst)
                    \/ \E p \in Policy : RemovePolicy(r, p)
             PROVE  parent'[o] = parent[o]
  BY DEF Next
<1>1. ASSUME NEW x \in Org, CreateCommit(r, x) PROVE parent'[o] = parent[o]
  BY <1>1 DEF CreateCommit, Live, TypeOK
<1> QED
  BY <1>1
  DEF CreateCheck, UpdateRead, UpdateCheckParent, UpdateCheckTree, UpdateCheckType,
      UpdateCheckPolicy, RemoveRead, HireCheck, RemoveCheckChildren, RemoveCheckStaff,
      RemoveMoveArchived, RemoveCommit, HireCommit, TransferCommit, Archive,
      TransferCheck, RemovePolicy, tree

LEMMA MoveInCompany ==
    ASSUME TypeOK, TypeOK', TreeInv, Emptied, \A r \in Request : Carried(r), Next,
           NEW o \in Live, Class(o) = "UNIT", parent'[o] # parent[o]
    PROVE  CompanyOf(o)' = CompanyOf(o)
<1>1. PICK r \in Request : UpdateCommit(r)
  BY OnlyUpdatesMove
<1> DEFINE q == req[r]
           t == q.to
<1>2. /\ pc[r] = "write" /\ ReqOK(r) /\ Carried(r) /\ Holds(r) /\ NothingLeftBehind
      /\ parent' = [parent EXCEPT ![q.org] = IF t = Keep THEN @ ELSE t]
      /\ status' = status /\ coded' = [x \in Org |-> x # t /\ coded[x]]
  BY <1>1 DEF UpdateCommit, TreeInv, Emptied
<1>3. o \in Org /\ o = q.org /\ t # Keep /\ t # parent[o] /\ t # o /\ RowKnown(r)
      /\ t \in Org /\ parent' = [parent EXCEPT ![o] = t]
  <2>1. RowKnown(r) /\ t \in Org \cup {Keep} /\ t # q.org
    BY <1>2 DEF ReqOK
  <2>2. o = q.org /\ t # Keep
    BY <1>2 DEF Live, TypeOK
  <2> QED
    BY <1>2, <2>1, <2>2 DEF Live, TypeOK
<1>4. t \in Live
  BY <1>2, <1>3 DEF Holds, Moves
<1>5. q.was = parent[o] /\ CompanyOf(o) = CompanyOf(t)
  BY <1>2, <1>3 DEF Carried, Moves, Compared
<1>6. Kept(o) /\ o # Root
  <2>1. AllKept
    BY StepKeeps
  <2> QED
    BY <2>1 DEF AllKept, Live, Class, ClassOf
<1>7. Class(o)' = "UNIT"
  BY <1>2, <1>6 DEF Kept, Live, Class, ClassOf
<1>8. Class(t) = "GROUP" /\ ~ coded[t]
  <2>1. ParentFits(t, ReadClass(r, t)) /\ ReadClass(r, t) = ReadClass(r, q.was)
    BY <1>2, <1>3 DEF ReqOK
  <2>2. ReadClass(r, q.was) = "UNIT"
    BY <1>3 DEF RowKnown, Class, ReadClass, ClassOf
  <2> QED
    BY <2>1, <2>2 DEF ParentFits, Class, ClassOf
<1>9. \A x \in Org \ {o} : coded'[x] = coded[x]
  BY <1>2, <1>8 DEF TypeOK
<1>10. CompanyOf(t) = {x \in Live : x = parent[t]}
  <2>1. Cardinality(Org) >= 1
    BY <1>3, SeveralRows, TreeAssumption, FS_CardinalityType
  <2> QED
    BY <1>2, <1>4, <1>8, <2>1, GroupCompany
<1> HIDE DEF t, q
<1>11. CompanyOf(o)' = {x \in Live : x = parent[t]}
  BY <1>2, <1>3, <1>4, <1>6, <1>7, <1>8, <1>9, MovedCompany
<1> QED
  BY <1>5, <1>10, <1>11

\* While requests take turns, a unit is moved only between groups of one company, the
\* company it is in when the update commits, although the companies are compared some
\* steps before.
THEOREM UnitsStay ==
    ASSUME NullParent = FALSE PROVE Spec /\ []OneAtATime => UnitKeepsCompany
<1> DEFINE AllCarried == \A r \in Request : Carried(r)
<1>1. Init => AllCarried
  BY DEF Init, Carried, Moves, Compared
<1>2. TypeOK /\ TypeOK' /\ TreeInv /\ OneAtATime /\ OneAtATime' /\ AllCarried /\ [Next]_vars
      => AllCarried'
  <2> SUFFICES ASSUME TypeOK, TypeOK', TreeInv, OneAtATime, OneAtATime', AllCarried,
                      [Next]_vars, NEW r \in Request
               PROVE  Carried(r)'
    OBVIOUS
  <2>1. CASE UNCHANGED vars
    BY <2>1, SameCompanies DEF vars, Carried
  <2> QED
    BY <2>1, CarriedKept
<1>3. TypeOK /\ TypeOK' /\ TreeInv /\ Emptied /\ AllCarried /\ [Next]_vars
      => [\A o \in Live : Class(o) = "UNIT" /\ parent'[o] # parent[o]
            => CompanyOf(o)' = CompanyOf(o)]_vars
  BY MoveInCompany
<1> QED
  BY <1>1, <1>2, <1>3, TreeTypes, TreeOrder, TurnsEmptied, PTL DEF Spec, UnitKeepsCompany
=============================================================================
