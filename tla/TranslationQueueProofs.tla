------------------------- MODULE TranslationQueueProofs -------------------------
(***************************************************************************)
(* The translation queue for any rows, requests, loops, versions and crashes. *)
(***************************************************************************)
EXTENDS TranslationQueue, TLAPS

\* The types of the variables on their own.
Typed ==
    /\ alive \subseteq Entity
    /\ version \in [Entity -> Text]
    /\ blank \subseteq Entity
    /\ shown \in [Entity -> [Language -> Text]]
    /\ job \in [Job -> Status]
    /\ asked \subseteq Job
    /\ request \in [Request -> RequestType]
    /\ loop \in [Loop -> LoopType]
    /\ isProcessingJobs \in BOOLEAN
    /\ crashes \in 0..MaxCrashes

\* The steps at which a loop has taken a job, and those at which a request has one.
Working == {"claiming", "translate", "read", "save", "complete", "fail"}
Storing == {"read", "save"}

\* What is on its way is a text.
TakenIsText ==
    /\ \A r \in Request : request[r].at \in Storing => request[r].v \in Version
    /\ \A l \in Loop : loop[l].at \in Working => loop[l].v \in Version

\* One loop runs, and the flag says so.
OneLoop ==
    /\ isProcessingJobs = \E l \in Loop : loop[l].at # "idle"
    /\ \A k, l \in Loop : loop[k].at # "idle" /\ loop[l].at # "idle" => k = l

\* What a request and a loop carry is no newer than the row, and so is what is
\* stored and queued.
NothingNewer ==
    /\ \A e \in Entity, g \in Language : shown[e][g] <= version[e]
    /\ \A j \in Job : j \in asked \/ job[j] # "none" => j[2] <= version[j[1]]
    /\ \A r \in Request : request[r].v <= version[request[r].e]
    /\ \A l \in Loop : loop[l].v <= version[loop[l].e]

\* Nobody but the loop that read the stored translation replaces it.
SaveSawStored ==
    \A l \in Loop : loop[l].at = "save" =>
        shown[loop[l].e]["en"] \in {0, loop[l].seen}

\* The text an entity has now is v.
Current(e, v) == e \in alive \ blank /\ version[e] = v

\* What a job's completion stands for, from the moment its loop has stored the
\* translation; who takes a translation away has taken the text away before.
StoredWhenDone ==
    /\ \A r \in Request :
         /\ request[r].at = "bundle" => request[r].e \notin alive
         /\ request[r].at = "clearRows" => request[r].e \in blank
    /\ \A l \in Loop :
         /\ loop[l].at = "save" => loop[l].seen <= version[loop[l].e]
         /\ loop[l].at = "complete" /\ Current(loop[l].e, loop[l].v) =>
                shown[loop[l].e]["en"] = loop[l].v
    /\ CompletedIsStored

\* Requests that are made at the same time are about different rows.
Apart ==
    \A r, s \in Request :
        request[r].at # "idle" /\ request[s].at # "idle" /\ request[r].e = request[s].e
            => r = s

QueueInv == Typed /\ TakenIsText /\ OneLoop /\ NothingNewer /\ SaveSawStored

-----------------------------------------------------------------------------
(* Types. *)

LEMMA EntityExists == AnyEntity \in Entity
BY QueueAssumption DEF AnyEntity

\* A request or a loop that is put back to rest stays well typed.
LEMMA RestTyped == Resting \in RequestType /\ Stopped \in LoopType
BY EntityExists, QueueAssumption DEF Resting, Stopped, RequestType, LoopType, Text

LEMMA TypedInit == ASSUME Init PROVE Typed
<1> USE QueueAssumption, RestTyped DEF Init, Typed, Text
<1>1. version \in [Entity -> Text]
    OBVIOUS
<1>2. shown \in [Entity -> [Language -> Text]]
    OBVIOUS
<1>3. job \in [Job -> Status]
    BY DEF Status
<1>4. request \in [Request -> RequestType] /\ loop \in [Loop -> LoopType]
    OBVIOUS
<1>5. crashes \in 0..MaxCrashes
    OBVIOUS
<1> QED BY <1>1, <1>2, <1>3, <1>4, <1>5

\* What a request writes, about an entity that exists.
LEMMA BeginTyped ==
    ASSUME Typed, NEW r \in Request, NEW e \in Entity, NEW v \in Text,
           NEW at \in {"read", "bundle", "clearRows"}, Begin(r, e, at, v)
    PROVE  request' \in [Request -> RequestType]
BY QueueAssumption DEF Typed, Begin, RequestType, Text

LEMMA DropJobsTyped ==
    ASSUME Typed, NEW gone, DropJobs(gone)
    PROVE  job' \in [Job -> Status] /\ loop' \in [Loop -> LoopType]
<1>1. job' \in [Job -> Status]
    BY DEF Typed, DropJobs, Status
<1>2. loop' \in [Loop -> LoopType]
    BY DEF Typed, DropJobs, LoopType
<1> QED BY <1>1, <1>2

RequestStep(r) ==
    \/ \E e \in Entity : Change(r, e) \/ Rebuild(r, e) \/ Remove(r, e) \/ Clear(r, e)
    \/ KoreanRead(r) \/ KoreanSave(r) \/ RemoveBundle(r) \/ ClearRows(r) \/ ClearJobs(r)

\* The steps of the requests.
LEMMA RequestTyped ==
    ASSUME Typed, TakenIsText, NEW r \in Request, RequestStep(r)
    PROVE  Typed'
<1> USE DEF source
<1>0. 0 \in Text
    BY QueueAssumption DEF Text
<1>1. ASSUME NEW e \in Entity, Change(r, e) PROVE Typed'
    <2>1. version' = [version EXCEPT ![e] = version[e] + 1] /\ version[e] + 1 \in Text
        BY <1>1, QueueAssumption DEF Typed, Change, Text
    <2>2. version' \in [Entity -> Text] /\ version'[e] \in Text
        BY <2>1 DEF Typed
    <2>3. request' \in [Request -> RequestType]
        BY <1>1, <2>2, BeginTyped DEF Change
    <2> QED BY <1>1, <2>2, <2>3 DEF Typed, Change
<1>2. ASSUME NEW e \in Entity, Rebuild(r, e) PROVE Typed'
    <2>1. request' \in [Request -> RequestType]
        BY <1>0, <1>2, BeginTyped DEF Typed, Rebuild
    <2> QED BY <1>2, <2>1 DEF Typed, Rebuild
<1>3. ASSUME NEW e \in Entity, Remove(r, e) PROVE Typed'
    <2>1. request' \in [Request -> RequestType]
        BY <1>0, <1>3, BeginTyped DEF Remove
    <2> QED BY <1>3, <2>1 DEF Typed, Remove
<1>4. ASSUME NEW e \in Entity, Clear(r, e) PROVE Typed'
    <2>1. request' \in [Request -> RequestType]
        BY <1>0, <1>4, BeginTyped DEF Clear
    <2> QED BY <1>4, <2>1 DEF Typed, Clear
<1>5. CASE KoreanRead(r)
    <2>1. shown[request[r].e]["ko"] \in Text
        BY DEF Typed, RequestType, Language
    <2>2. request' \in [Request -> RequestType]
        BY <1>5, <2>1 DEF Typed, KoreanRead, RequestType
    <2> QED BY <1>5, <2>2 DEF Typed, KoreanRead
<1>6. CASE KoreanSave(r)
    <2>1. request' \in [Request -> RequestType]
        BY <1>6, RestTyped DEF Typed, KoreanSave
    <2>2. shown' \in [Entity -> [Language -> Text]]
        BY <1>6 DEF Typed, KoreanSave, RequestType, Language
    <2>3. asked' \subseteq Job
        BY <1>6 DEF Typed, KoreanSave, RequestType, TakenIsText, Storing, Job
    <2> QED BY <1>6, <2>1, <2>2, <2>3 DEF Typed, KoreanSave
<1>7. CASE RemoveBundle(r)
    <2>1. request' \in [Request -> RequestType]
        BY <1>7, RestTyped DEF Typed, RemoveBundle
    <2>2. shown' \in [Entity -> [Language -> Text]]
        BY <1>0, <1>7 DEF Typed, RemoveBundle
    <2>3. job' \in [Job -> Status] /\ loop' \in [Loop -> LoopType]
        BY <1>7, DropJobsTyped DEF RemoveBundle
    <2> QED BY <1>7, <2>1, <2>2, <2>3 DEF Typed, RemoveBundle
<1>8. CASE ClearRows(r)
    <2>1. request' \in [Request -> RequestType]
        BY <1>8 DEF Typed, ClearRows, RequestType
    <2>2. shown' \in [Entity -> [Language -> Text]]
        BY <1>0, <1>8 DEF Typed, ClearRows
    <2> QED BY <1>8, <2>1, <2>2 DEF Typed, ClearRows
<1>9. CASE ClearJobs(r)
    <2>1. request' \in [Request -> RequestType]
        BY <1>9, RestTyped DEF Typed, ClearJobs
    <2>2. job' \in [Job -> Status] /\ loop' \in [Loop -> LoopType]
        BY <1>9, DropJobsTyped DEF ClearJobs
    <2> QED BY <1>9, <2>1, <2>2 DEF Typed, ClearJobs
<1> QED BY <1>1, <1>2, <1>3, <1>4, <1>5, <1>6, <1>7, <1>8, <1>9 DEF RequestStep

JobStep(j) == Queue(j) \/ QueueFails(j) \/ Backoff(j) \/ Stale(j)

\* The upserts of the queue and the delays.
LEMMA JobTyped == ASSUME Typed, NEW j \in Job, JobStep(j) PROVE Typed'
<1>1. CASE Queue(j) \/ QueueFails(j)
    BY <1>1 DEF Typed, Queue, QueueFails, Status, source
<1>2. CASE Backoff(j) \/ Stale(j)
    BY <1>2 DEF Typed, Backoff, Stale, Status, source, memory
<1> QED BY <1>1, <1>2 DEF JobStep

\* A loop that goes on with the job it has.
LEMMA GotoTyped ==
    ASSUME Typed, NEW l \in Loop, NEW at \in Working \cup {"claim"}, Goto(l, at)
    PROVE  loop' \in [Loop -> LoopType]
BY DEF Typed, Goto, Working, LoopType

LEMMA StopTyped ==
    ASSUME Typed, NEW l \in Loop, Stop(l)
    PROVE  loop' \in [Loop -> LoopType] /\ isProcessingJobs' \in BOOLEAN
BY RestTyped DEF Typed, Stop

LEMMA ResetTyped ==
    ASSUME Typed, Reset
    PROVE  /\ asked' \subseteq Job /\ request' \in [Request -> RequestType]
           /\ loop' \in [Loop -> LoopType] /\ isProcessingJobs' \in BOOLEAN
BY RestTyped DEF Reset

AnyLoopStep(l) ==
    \/ Start(l) \/ LoopStep(l) \/ ApiFails(l)
    \/ \E j \in Job : ClaimRead(l, j) \/ Answer(l, j)

\* The steps of the loops.
LEMMA LoopTyped ==
    ASSUME Typed, NEW l \in Loop, AnyLoopStep(l)
    PROVE  Typed'
<1> USE DEF source
<1>1. CASE Start(l)
    <2>1. loop' \in [Loop -> LoopType]
        BY <1>1 DEF Typed, Start, LoopType
    <2>2. job' \in [Job -> Status]
        BY <1>1 DEF Typed, Start, Status
    <2> QED BY <1>1, <2>1, <2>2 DEF Typed, Start
<1>2. CASE ClaimNone(l) \/ ClaimLost(l)
    BY <1>2, StopTyped DEF Typed, ClaimNone, ClaimLost
<1>3. ASSUME NEW j \in Job, ClaimRead(l, j) PROVE Typed'
    <2>1. j[1] \in Entity /\ j[2] \in Text
        BY QueueAssumption DEF Job, Version, Text
    <2>2. [Stopped EXCEPT !.at = "claiming", !.e = j[1], !.v = j[2]] \in LoopType
        BY <2>1, RestTyped DEF LoopType
    <2>3. loop' \in [Loop -> LoopType]
        BY <1>3, <2>2 DEF Typed, ClaimRead
    <2> QED BY <1>3, <2>3 DEF Typed, ClaimRead
<1>4. CASE ClaimWrite(l)
    <2>1. loop' \in [Loop -> LoopType]
        BY <1>4 DEF Typed, ClaimWrite, LoopType
    <2>2. job' \in [Job -> Status]
        BY <1>4 DEF Typed, ClaimWrite, Status
    <2> QED BY <1>4, <2>1, <2>2 DEF Typed, ClaimWrite
<1>5. ASSUME NEW j \in Job, Answer(l, j) \/ ApiFails(l) PROVE Typed'
    <2>1. loop' \in [Loop -> LoopType]
        BY <1>5, GotoTyped DEF Answer, ApiFails, Working
    <2> QED BY <1>5, <2>1 DEF Typed, Answer, ApiFails, Goto
<1>6. CASE ApiFails(l)
    <2>1. loop' \in [Loop -> LoopType]
        BY <1>6, GotoTyped DEF ApiFails, Working
    <2> QED BY <1>6, <2>1 DEF Typed, ApiFails, Goto
<1>7. CASE TargetRead(l)
    <2>1. shown[loop[l].e]["en"] \in Text
        BY DEF Typed, LoopType, Language
    <2>2. loop' \in [Loop -> LoopType]
        BY <1>7, <2>1 DEF Typed, TargetRead, LoopType
    <2> QED BY <1>7, <2>2 DEF Typed, TargetRead
<1>8. CASE TargetSave(l)
    <2>1. loop' \in [Loop -> LoopType]
        BY <1>8 DEF Typed, TargetSave, LoopType
    <2>2. shown' \in [Entity -> [Language -> Text]]
        BY <1>8 DEF Typed, TargetSave, LoopType, Language
    <2> QED BY <1>8, <2>1, <2>2 DEF Typed, TargetSave
<1>9. CASE Complete(l)
    <2>1. loop' \in [Loop -> LoopType]
        BY <1>9, GotoTyped DEF Complete, Working
    <2>2. job' \in [Job -> Status]
        BY <1>9 DEF Typed, Complete, Status
    <2> QED BY <1>9, <2>1, <2>2 DEF Typed, Complete, Goto
<1>10. CASE Fail(l)
    <2>1. loop' \in [Loop -> LoopType]
        BY <1>10, GotoTyped DEF Fail
    <2>2. job' \in [Job -> Status]
        BY <1>10 DEF Typed, Fail, Status
    <2> QED BY <1>10, <2>1, <2>2 DEF Typed, Fail, Goto
<1>11. CASE FailUnhandled(l)
    BY <1>11, ResetTyped DEF Typed, FailUnhandled
<1> QED
    BY <1>1, <1>2, <1>3, <1>4, <1>5, <1>6, <1>7, <1>8, <1>9, <1>10, <1>11
    DEF AnyLoopStep, LoopStep

\* Next, by who takes the step.
LEMMA StepKinds ==
    ASSUME [Next]_vars
    PROVE  \/ \E r \in Request : RequestStep(r)
           \/ \E j \in Job : JobStep(j)
           \/ \E l \in Loop : AnyLoopStep(l)
           \/ Crash
           \/ UNCHANGED vars
BY DEF Next, RequestStep, JobStep, AnyLoopStep

LEMMA TypedStep == ASSUME Typed, TakenIsText, [Next]_vars PROVE Typed'
<1>1. CASE Crash
    <2>1. crashes' \in 0..MaxCrashes
        BY <1>1, QueueAssumption DEF Typed, Crash
    <2> QED BY <1>1, <2>1, ResetTyped DEF Typed, Crash, source
<1>2. CASE UNCHANGED vars
    BY <1>2 DEF Typed, vars, source, memory
<1> QED BY <1>1, <1>2, StepKinds, RequestTyped, JobTyped, LoopTyped

-----------------------------------------------------------------------------
(* What is on its way is a text; one loop runs. *)

LEMMA TextInit == ASSUME Init PROVE TakenIsText /\ OneLoop
<1>1. TakenIsText
    BY DEF Init, TakenIsText, Storing, Working, Resting, Stopped
<1>2. OneLoop
    BY DEF Init, OneLoop, Stopped
<1> QED BY <1>1, <1>2

LEMMA RequestText ==
    ASSUME Typed, TakenIsText, NEW r \in Request, RequestStep(r)
    PROVE  TakenIsText'
<1> USE DEF Typed, TakenIsText, Storing
<1>1. ASSUME NEW e \in Entity, Change(r, e) PROVE TakenIsText'
    <2>1. version'[e] \in Version
        BY <1>1, QueueAssumption DEF Change, Text, Version
    <2> QED BY <1>1, <2>1 DEF Change, Begin
<1>2. ASSUME NEW e \in Entity, Rebuild(r, e) PROVE TakenIsText'
    <2>1. version[e] \in Version
        BY <1>2, QueueAssumption DEF Rebuild, Text, Version
    <2> QED BY <1>2, <2>1 DEF Rebuild, Begin
<1>3. ASSUME NEW e \in Entity, Remove(r, e) \/ Clear(r, e) PROVE TakenIsText'
    BY <1>3 DEF Remove, Clear, Begin
<1>4. CASE KoreanRead(r)
    BY <1>4 DEF KoreanRead, RequestType
<1>8. CASE ClearRows(r)
    BY <1>8 DEF ClearRows, RequestType
<1>5. CASE KoreanSave(r)
    BY <1>5 DEF KoreanSave, Resting
<1>6. CASE RemoveBundle(r)
    BY <1>6 DEF RemoveBundle, DropJobs, Resting, LoopType
<1>7. CASE ClearJobs(r)
    BY <1>7 DEF ClearJobs, DropJobs, Resting, LoopType
<1> QED BY <1>1, <1>2, <1>3, <1>4, <1>5, <1>6, <1>7, <1>8 DEF RequestStep

LEMMA LoopText ==
    ASSUME Typed, TakenIsText, NEW l \in Loop, AnyLoopStep(l)
    PROVE  TakenIsText'
<1> USE DEF Typed, TakenIsText
<1>1. CASE Start(l)
    BY <1>1 DEF Start, Working
<1>2. CASE ClaimNone(l) \/ ClaimLost(l)
    BY <1>2 DEF ClaimNone, ClaimLost, Stop, Stopped, Working
<1>3. ASSUME NEW j \in Job, ClaimRead(l, j) PROVE TakenIsText'
    BY <1>3 DEF ClaimRead, Job, Stopped
<1>4. CASE ClaimWrite(l)
    BY <1>4 DEF ClaimWrite, Working
<1>5. ASSUME \E at \in Working \cup {"claim"} : Goto(l, at),
             loop[l].at \in Working
      PROVE  TakenIsText'
    BY <1>5 DEF Goto
<1>6. ASSUME NEW j \in Job, Answer(l, j) PROVE TakenIsText'
    BY <1>6, <1>5 DEF Answer, Working
<1>7. CASE ApiFails(l) \/ Complete(l) \/ Fail(l)
    BY <1>7, <1>5 DEF ApiFails, Complete, Fail, Working
<1>8. CASE TargetRead(l)
    BY <1>8 DEF TargetRead, Working
<1>9. CASE TargetSave(l)
    BY <1>9 DEF TargetSave, Working
<1>10. CASE FailUnhandled(l)
    BY <1>10 DEF FailUnhandled, Reset, Resting, Stopped, Storing, Working
<1> QED
    BY <1>1, <1>2, <1>3, <1>4, <1>6, <1>7, <1>8, <1>9, <1>10
    DEF AnyLoopStep, LoopStep

LEMMA TextStep == ASSUME Typed, TakenIsText, [Next]_vars PROVE TakenIsText'
<1>1. ASSUME NEW j \in Job, JobStep(j) PROVE TakenIsText'
    BY <1>1 DEF JobStep, Queue, QueueFails, Backoff, Stale, memory, TakenIsText
<1>2. CASE Crash
    BY <1>2 DEF Crash, Reset, Resting, Stopped, Storing, Working, TakenIsText
<1>3. CASE UNCHANGED vars
    BY <1>3 DEF vars, memory, TakenIsText
<1> QED BY <1>1, <1>2, <1>3, StepKinds, RequestText, LoopText

\* A step that is not a loop's leaves it at its place.
LEMMA LoopsStayPut ==
    ASSUME Typed, OneLoop, isProcessingJobs' = isProcessingJobs,
           \A l \in Loop : loop'[l].at = loop[l].at
    PROVE  OneLoop'
BY DEF OneLoop

\* A loop that goes on stays the one that runs.
LEMMA LoopGoesOn ==
    ASSUME Typed, OneLoop, NEW l \in Loop, loop[l].at # "idle", loop'[l].at # "idle",
           isProcessingJobs' = isProcessingJobs,
           \A k \in Loop \ {l} : loop'[k] = loop[k]
    PROVE  OneLoop'
BY DEF OneLoop

LEMMA LoopsAtRest ==
    ASSUME isProcessingJobs' = FALSE, \A l \in Loop : loop'[l].at = "idle"
    PROVE  OneLoop'
BY DEF OneLoop

LEMMA OneLoopStep == ASSUME Typed, OneLoop, [Next]_vars PROVE OneLoop'
<1>1. ASSUME NEW r \in Request, RequestStep(r) PROVE OneLoop'
    <2>1. CASE UNCHANGED <<loop, isProcessingJobs>>
        BY <2>1, LoopsStayPut
    <2>2. ASSUME NEW gone, DropJobs(gone), UNCHANGED isProcessingJobs PROVE OneLoop'
        BY <2>2, LoopsStayPut DEF DropJobs, Typed, LoopType
    <2>3. CASE RemoveBundle(r) \/ ClearJobs(r)
        BY <2>2, <2>3 DEF RemoveBundle, ClearJobs
    <2> QED
        BY <1>1, <2>1, <2>3
        DEF RequestStep, Change, Rebuild, Remove, Clear, KoreanRead, KoreanSave, ClearRows
<1>2. ASSUME NEW j \in Job, JobStep(j) PROVE OneLoop'
    BY <1>2, LoopsStayPut DEF JobStep, Queue, QueueFails, Backoff, Stale, memory
<1>3. ASSUME NEW l \in Loop, AnyLoopStep(l) PROVE OneLoop'
    <2> USE DEF Typed
    <2>1. CASE Start(l)
        BY <1>3, <2>1 DEF Start, OneLoop
    <2>2. CASE ClaimNone(l) \/ ClaimLost(l)
        <3>1. \A k \in Loop : loop'[k].at = "idle"
            BY <2>2 DEF ClaimNone, ClaimLost, Stop, Stopped, OneLoop
        <3> QED BY <2>2, <3>1, LoopsAtRest DEF ClaimNone, ClaimLost, Stop
    <2>3. ASSUME NEW j \in Job, ClaimRead(l, j) PROVE OneLoop'
        BY <2>3, LoopGoesOn DEF ClaimRead, Stopped
    <2>4. CASE ClaimWrite(l)
        BY <2>4, LoopGoesOn DEF ClaimWrite
    <2>5. ASSUME NEW at \in Working \cup {"claim"}, Goto(l, at), loop[l].at # "idle"
          PROVE  OneLoop'
        BY <2>5, LoopGoesOn DEF Goto, Working
    <2>6. ASSUME NEW j \in Job, Answer(l, j) PROVE OneLoop'
        BY <2>5, <2>6 DEF Answer, Working
    <2>7. CASE ApiFails(l) \/ Complete(l) \/ Fail(l)
        BY <2>5, <2>7 DEF ApiFails, Complete, Fail, Working
    <2>8. CASE TargetRead(l)
        BY <2>8, LoopGoesOn DEF TargetRead
    <2>9. CASE TargetSave(l)
        BY <2>9, LoopGoesOn DEF TargetSave
    <2>10. CASE FailUnhandled(l)
        BY <2>10, LoopsAtRest DEF FailUnhandled, Reset, Stopped
    <2> QED
        BY <1>3, <2>1, <2>2, <2>3, <2>4, <2>6, <2>7, <2>8, <2>9, <2>10
        DEF AnyLoopStep, LoopStep
<1>4. CASE Crash
    BY <1>4, LoopsAtRest DEF Crash, Reset, Stopped
<1>5. CASE UNCHANGED vars
    BY <1>5, LoopsStayPut DEF vars, memory
<1> QED BY <1>1, <1>2, <1>3, <1>4, <1>5, StepKinds

-----------------------------------------------------------------------------
(* Nothing is newer than the row it comes from. *)

LEMMA NewerInit == ASSUME Init PROVE NothingNewer /\ SaveSawStored
<1> USE EntityExists DEF Init
<1>1. \A e \in Entity, g \in Language : shown[e][g] <= version[e]
    BY DEF Language
<1>2. \A r \in Request : request[r].v <= version[request[r].e]
    BY DEF Resting
<1>3. \A l \in Loop : loop[l].v <= version[loop[l].e]
    BY DEF Stopped
<1> QED BY <1>1, <1>2, <1>3 DEF NothingNewer, SaveSawStored, Stopped

\* A text that is taken from the row, or given up, is not newer than the row.
LEMMA BeginNewer ==
    ASSUME Typed, NothingNewer, NEW r \in Request, NEW e \in Entity, NEW at, NEW v \in Text,
           Begin(r, e, at, v), v <= version'[e],
           version' = version \/ version' = [version EXCEPT ![e] = @ + 1],
           UNCHANGED <<shown, job, asked, loop>>
    PROVE  NothingNewer'
<1>1. \A f \in Entity : version[f] \in Int /\ version'[f] \in Int /\ version[f] <= version'[f]
    BY QueueAssumption DEF Typed, Text
<1>2. ASSUME NEW f \in Entity, NEW g \in Language PROVE shown'[f][g] <= version'[f]
    BY <1>1, QueueAssumption DEF Typed, NothingNewer, Text
<1>3. ASSUME NEW j \in Job, j \in asked' \/ job'[j] # "none" PROVE j[2] <= version'[j[1]]
    BY <1>1, <1>3, QueueAssumption DEF Typed, NothingNewer, Job, Version
<1>4. ASSUME NEW q \in Request PROVE request'[q].v <= version'[request'[q].e]
    BY <1>1, QueueAssumption DEF Typed, NothingNewer, Begin, RequestType, Text
<1>5. ASSUME NEW l \in Loop PROVE loop'[l].v <= version'[loop'[l].e]
    BY <1>1, QueueAssumption DEF Typed, NothingNewer, LoopType, Text
<1> QED BY <1>2, <1>3, <1>4, <1>5 DEF NothingNewer

\* The rest of the steps leave the rows alone and take nothing from elsewhere.
LEMMA NewerKept ==
    ASSUME Typed, NothingNewer, version' = version,
           \A e \in Entity, g \in Language :
              \/ shown'[e][g] \in {shown[e][g], 0}
              \/ \E r \in Request : shown'[e][g] = request[r].v /\ e = request[r].e
              \/ \E l \in Loop : shown'[e][g] = loop[l].v /\ e = loop[l].e,
           \A j \in Job : j \in asked' \/ job'[j] # "none" =>
              \/ j \in asked \/ job[j] # "none"
              \/ \E r \in Request : j = <<request[r].e, request[r].v>>,
           \A r \in Request :
              \/ request'[r].v = request[r].v /\ request'[r].e = request[r].e
              \/ request'[r] = Resting,
           \A l \in Loop :
              \/ loop'[l].v = loop[l].v /\ loop'[l].e = loop[l].e
              \/ loop'[l] = Stopped
              \/ \E j \in Job : job[j] # "none" /\ loop'[l].e = j[1] /\ loop'[l].v = j[2]
    PROVE  NothingNewer'
<1>0. \A e \in Entity : version[e] \in Int /\ 0 <= version[e]
    BY QueueAssumption DEF Typed, Text
<1>1. ASSUME NEW e \in Entity, NEW g \in Language PROVE shown'[e][g] <= version'[e]
    BY <1>0 DEF NothingNewer
<1>2. ASSUME NEW j \in Job, j \in asked' \/ job'[j] # "none" PROVE j[2] <= version'[j[1]]
    BY <1>2 DEF NothingNewer
<1>3. ASSUME NEW r \in Request PROVE request'[r].v <= version'[request'[r].e]
    BY <1>0, EntityExists DEF NothingNewer, Resting
<1>4. ASSUME NEW l \in Loop PROVE loop'[l].v <= version'[loop'[l].e]
    BY <1>0, EntityExists DEF NothingNewer, Stopped
<1> QED BY <1>1, <1>2, <1>3, <1>4 DEF NothingNewer

LEMMA RequestNewer ==
    ASSUME Typed, TakenIsText, NothingNewer, NEW r \in Request, RequestStep(r)
    PROVE  NothingNewer'
<1> USE DEF source
<1>0. 0 \in Text /\ \A e \in Entity : 0 <= version[e] /\ version[e] <= version[e]
    BY QueueAssumption DEF Typed, Text
<1>1. ASSUME NEW e \in Entity, Change(r, e) PROVE NothingNewer'
    <2>1. version' = [version EXCEPT ![e] = @ + 1]
        BY <1>1 DEF Change
    <2>2. version'[e] = version[e] + 1 /\ version'[e] \in Text /\ version'[e] <= version'[e]
        BY <1>1, <2>1, QueueAssumption DEF Change, Typed, Text
    <2> QED BY <1>1, <2>1, <2>2, BeginNewer DEF Change
<1>2. ASSUME NEW e \in Entity, Rebuild(r, e) PROVE NothingNewer'
    <2>1. \E at : \E v \in {0, version[e]} : Begin(r, e, at, v)
        BY <1>2 DEF Rebuild
    <2>2. version[e] \in Text
        BY DEF Typed
    <2> QED BY <1>0, <1>2, <2>1, <2>2, BeginNewer DEF Rebuild
<1>3. ASSUME NEW e \in Entity, Remove(r, e) PROVE NothingNewer'
    BY <1>0, <1>3, BeginNewer DEF Remove
<1>4. ASSUME NEW e \in Entity, Clear(r, e) PROVE NothingNewer'
    BY <1>0, <1>4, BeginNewer DEF Clear
<1>5. CASE KoreanRead(r)
    BY <1>5, NewerKept DEF KoreanRead, Typed, RequestType
<1>6. CASE KoreanSave(r)
    <2>1. \A e \in Entity, g \in Language :
              shown'[e][g] # shown[e][g] => shown'[e][g] = request[r].v /\ e = request[r].e
        BY <1>6 DEF KoreanSave, Typed
    <2>2. \A q \in Request :
              \/ request'[q].v = request[q].v /\ request'[q].e = request[q].e
              \/ request'[q] = Resting
        BY <1>6 DEF KoreanSave, Typed
    <2>3. \A j \in Job : j \in asked' => j \in asked \/ j = <<request[r].e, request[r].v>>
        BY <1>6 DEF KoreanSave
    <2> QED BY <1>6, <2>1, <2>2, <2>3, NewerKept DEF KoreanSave
<1>7. ASSUME NEW gone, DropJobs(gone)
      PROVE  /\ \A j \in Job : job'[j] # "none" => job[j] # "none"
             /\ \A l \in Loop : loop'[l].v = loop[l].v /\ loop'[l].e = loop[l].e
    BY <1>7 DEF DropJobs, Typed, LoopType
<1>8. CASE RemoveBundle(r)
    <2>1. \A e \in Entity, g \in Language : shown'[e][g] \in {shown[e][g], 0}
        BY <1>8 DEF RemoveBundle, Typed
    <2>2. \A q \in Request :
              \/ request'[q].v = request[q].v /\ request'[q].e = request[q].e
              \/ request'[q] = Resting
        BY <1>8 DEF RemoveBundle, Typed
    <2> QED BY <1>7, <1>8, <2>1, <2>2, NewerKept DEF RemoveBundle
<1>9. CASE ClearRows(r)
    <2>1. \A e \in Entity, g \in Language : shown'[e][g] \in {shown[e][g], 0}
        BY <1>9 DEF ClearRows, Typed
    <2> QED BY <1>9, <2>1, NewerKept DEF ClearRows, Typed, RequestType
<1>10. CASE ClearJobs(r)
    <2>1. \A q \in Request :
              \/ request'[q].v = request[q].v /\ request'[q].e = request[q].e
              \/ request'[q] = Resting
        BY <1>10 DEF ClearJobs, Typed
    <2> QED BY <1>7, <1>10, <2>1, NewerKept DEF ClearJobs
<1> QED
    BY <1>1, <1>2, <1>3, <1>4, <1>5, <1>6, <1>8, <1>9, <1>10 DEF RequestStep

LEMMA LoopNewer ==
    ASSUME Typed, TakenIsText, NothingNewer, NEW l \in Loop, AnyLoopStep(l)
    PROVE  NothingNewer'
<1> USE DEF source
<1>1. CASE Start(l)
    <2>1. \A j \in Job : job'[j] # "none" => job[j] # "none"
        BY <1>1 DEF Start, Typed
    <2> QED BY <1>1, <2>1, NewerKept DEF Start, Typed, LoopType
<1>2. CASE ClaimNone(l) \/ ClaimLost(l)
    BY <1>2, NewerKept DEF ClaimNone, ClaimLost, Stop, Typed
<1>3. ASSUME NEW j \in Job, ClaimRead(l, j) PROVE NothingNewer'
    <2>1. job[j] # "none"
        BY <1>3 DEF ClaimRead, Claimable
    <2>2. loop'[l] = [Stopped EXCEPT !.at = "claiming", !.e = j[1], !.v = j[2]]
        BY <1>3 DEF ClaimRead, Typed
    <2>3. loop'[l].e = j[1] /\ loop'[l].v = j[2]
        BY <2>2 DEF Stopped
    <2>4. \A k \in Loop \ {l} : loop'[k] = loop[k]
        BY <1>3 DEF ClaimRead, Typed
    <2> QED BY <1>3, <2>1, <2>3, <2>4, NewerKept DEF ClaimRead
<1>4. CASE ClaimWrite(l)
    <2>1. \A j \in Job : job'[j] # "none" => job[j] # "none"
        BY <1>4 DEF ClaimWrite, Winnable, Typed
    <2> QED BY <1>4, <2>1, NewerKept DEF ClaimWrite, Typed, LoopType
<1>5. ASSUME NEW at, Goto(l, at), version' = version,
             \A j \in Job : job'[j] # "none" => job[j] # "none" \/ j = Held(l)
      PROVE  NothingNewer'
    <2>1. \A k \in Loop : loop'[k].v = loop[k].v /\ loop'[k].e = loop[k].e
        BY <1>5 DEF Goto, Typed, LoopType
    <2>2. ASSUME NEW j \in Job, j \in asked' \/ job'[j] # "none"
          PROVE  j[2] <= version'[j[1]]
        BY <1>5, <2>2 DEF Goto, NothingNewer, Held
    <2> QED BY <1>5, <2>1, <2>2 DEF Goto, NothingNewer
<1>6. ASSUME NEW j \in Job, Answer(l, j) PROVE NothingNewer'
    BY <1>5, <1>6 DEF Answer, Goto
<1>7. CASE ApiFails(l)
    BY <1>5, <1>7 DEF ApiFails, Goto
<1>8. CASE Complete(l) \/ Fail(l)
    <2>1. \A j \in Job : job'[j] # "none" => job[j] # "none" \/ j = Held(l)
        BY <1>8 DEF Complete, Fail, Typed
    <2> QED BY <1>5, <1>8, <2>1 DEF Complete, Fail, Goto
<1>9. CASE TargetRead(l)
    BY <1>9, NewerKept DEF TargetRead, Typed, LoopType
<1>10. CASE TargetSave(l)
    <2>1. \A e \in Entity, g \in Language :
              shown'[e][g] # shown[e][g] => shown'[e][g] = loop[l].v /\ e = loop[l].e
        BY <1>10 DEF TargetSave, Typed
    <2>2. \A k \in Loop : loop'[k].v = loop[k].v /\ loop'[k].e = loop[k].e
        BY <1>10 DEF TargetSave, Typed, LoopType
    <2> QED BY <1>10, <2>1, <2>2, NewerKept DEF TargetSave
<1>11. CASE FailUnhandled(l)
    BY <1>11, NewerKept DEF FailUnhandled, Reset
<1> QED
    BY <1>1, <1>2, <1>3, <1>4, <1>6, <1>7, <1>8, <1>9, <1>10, <1>11
    DEF AnyLoopStep, LoopStep

LEMMA NewerStep == ASSUME Typed, TakenIsText, NothingNewer, [Next]_vars PROVE NothingNewer'
<1>1. ASSUME NEW j \in Job, Queue(j) PROVE NothingNewer'
    <2>1. \A k \in Job : job'[k] # "none" => job[k] # "none" \/ k \in asked
        BY <1>1 DEF Queue, Typed
    <2> QED BY <1>1, <2>1, NewerKept DEF Queue, source
<1>2. ASSUME NEW j \in Job, QueueFails(j) PROVE NothingNewer'
    BY <1>2, NewerKept DEF QueueFails, source
<1>3. ASSUME NEW j \in Job, Backoff(j) \/ Stale(j) PROVE NothingNewer'
    <2>1. \A k \in Job : job'[k] # "none" => job[k] # "none"
        BY <1>3 DEF Backoff, Stale, Typed
    <2> QED BY <1>3, <2>1, NewerKept DEF Backoff, Stale, source, memory
<1>4. CASE Crash
    BY <1>4, NewerKept DEF Crash, Reset, source
<1>5. CASE UNCHANGED vars
    BY <1>5, NewerKept DEF vars, source, memory
<1> QED
    BY <1>1, <1>2, <1>3, <1>4, <1>5, StepKinds, RequestNewer, LoopNewer DEF JobStep

-----------------------------------------------------------------------------
(* No translation is replaced by an older one. *)

\* What becomes of the stored translations in one step.
LEMMA TranslationKept ==
    ASSUME Typed, TakenIsText, OneLoop, NothingNewer, SaveSawStored, [Next]_vars
    PROVE  /\ SaveSawStored'
           /\ \A e \in Entity :
                 shown'[e]["en"] # 0 => shown'[e]["en"] >= shown[e]["en"]
<1> DEFINE Kept == \A e \in Entity : shown'[e]["en"] \in {shown[e]["en"], 0}
           Saw == \A l \in Loop : loop'[l].at = "save" =>
                     loop[l].at = "save" /\ loop'[l].e = loop[l].e /\ loop'[l].seen = loop[l].seen
           Goal == /\ SaveSawStored'
                   /\ \A e \in Entity :
                         shown'[e]["en"] # 0 => shown'[e]["en"] >= shown[e]["en"]
<1>0. \A e \in Entity : shown[e]["en"] \in Nat /\ version[e] \in Nat
    BY QueueAssumption DEF Typed, Text, Language
<1>1. ASSUME Kept, Saw PROVE Goal
    BY <1>0, <1>1 DEF SaveSawStored, Typed, LoopType
<1> HIDE DEF Goal
<1>2. ASSUME NEW r \in Request, RequestStep(r) PROVE Goal
    <2>1. Saw
        <3>1. CASE UNCHANGED loop
            BY <3>1
        <3>2. ASSUME NEW gone, DropJobs(gone) PROVE Saw
            BY <3>2 DEF DropJobs, Typed, LoopType
        <3> QED
            BY <1>2, <3>1, <3>2
            DEF RequestStep, Change, Rebuild, Remove, Clear, KoreanRead, KoreanSave,
                RemoveBundle, ClearRows, ClearJobs
    <2>2. Kept
        BY <1>2, <1>0 DEF RequestStep, Change, Rebuild, Remove, Clear, KoreanRead, KoreanSave,
                    RemoveBundle, ClearRows, ClearJobs, Typed, Language
    <2> QED BY <1>1, <2>1, <2>2
<1>3. ASSUME NEW j \in Job, JobStep(j) PROVE Goal
    BY <1>1, <1>3 DEF JobStep, Queue, QueueFails, Backoff, Stale, memory
<1>4. ASSUME NEW l \in Loop, AnyLoopStep(l) PROVE Goal
    <2>1. CASE TargetRead(l)
        <3>1. loop'[l].e = loop[l].e /\ loop'[l].seen = shown[loop[l].e]["en"]
            BY <2>1 DEF TargetRead, Typed, LoopType
        <3>2. \A k \in Loop \ {l} : loop'[k] = loop[k]
            BY <2>1 DEF TargetRead, Typed
        <3>3. shown' = shown
            BY <2>1 DEF TargetRead
        <3> QED BY <1>0, <3>1, <3>2, <3>3 DEF Goal, SaveSawStored
    <2>2. CASE TargetSave(l)
        <3>1. \A k \in Loop : loop'[k].at # "save"
            BY <2>2 DEF TargetSave, Typed, LoopType, OneLoop
        <3>3. loop[l].v \in Nat /\ loop[l].seen \in Nat
            BY QueueAssumption DEF Typed, LoopType, Text
        <3>4. shown[loop[l].e]["en"] \in {0, loop[l].seen}
            BY <2>2 DEF TargetSave, SaveSawStored
        <3>5. CASE shown' = shown
            BY <1>0, <3>1, <3>5 DEF Goal, SaveSawStored
        <3>6. CASE shown' # shown
            <4>1. /\ ~ loop[l].seen > loop[l].v
                  /\ shown' = [shown EXCEPT ![loop[l].e]["en"] = loop[l].v]
                BY <2>2, <3>6 DEF TargetSave
            <4>2. \A e \in Entity : e # loop[l].e => shown'[e]["en"] = shown[e]["en"]
                BY <4>1 DEF Typed
            <4>3. shown'[loop[l].e]["en"] = loop[l].v
                BY <4>1 DEF Typed, Language, LoopType
            <4> QED BY <1>0, <3>1, <3>3, <3>4, <4>1, <4>2, <4>3 DEF Goal, SaveSawStored
        <3> QED BY <3>5, <3>6
    <2>3. CASE Start(l)
        BY <1>1, <2>3 DEF Start, Typed, LoopType
    <2>4. CASE ClaimNone(l) \/ ClaimLost(l)
        BY <1>1, <2>4 DEF ClaimNone, ClaimLost, Stop, Stopped, Typed
    <2>5. ASSUME NEW j \in Job, ClaimRead(l, j) PROVE Goal
        BY <1>1, <2>5 DEF ClaimRead, Stopped, Typed
    <2>6. CASE ClaimWrite(l)
        BY <1>1, <2>6 DEF ClaimWrite, Typed, LoopType
    <2>7. ASSUME NEW at, at # "save", Goto(l, at) PROVE Goal
        BY <1>1, <2>7 DEF Goto, Typed, LoopType
    <2>8. ASSUME NEW j \in Job, Answer(l, j) PROVE Goal
        BY <2>7, <2>8 DEF Answer
    <2>9. CASE ApiFails(l) \/ Complete(l) \/ Fail(l)
        BY <2>7, <2>9 DEF ApiFails, Complete, Fail
    <2>10. CASE FailUnhandled(l)
        BY <1>1, <2>10 DEF FailUnhandled, Reset, Stopped
    <2> QED
        BY <1>4, <2>1, <2>2, <2>3, <2>4, <2>5, <2>6, <2>8, <2>9, <2>10
        DEF AnyLoopStep, LoopStep
<1>5. CASE Crash
    <2>1. Kept /\ Saw
        BY <1>5 DEF Crash, Reset, Stopped
    <2> QED BY <1>1, <2>1 DEF Goal
<1>6. CASE UNCHANGED vars
    <2>1. Kept /\ Saw
        BY <1>6 DEF vars, memory
    <2> QED BY <1>1, <2>1 DEF Goal
<1> QED BY <1>2, <1>3, <1>4, <1>5, <1>6, StepKinds DEF Goal

LEMMA QueueInvariant == Spec => []QueueInv
<1>1. Init => QueueInv
    BY TypedInit, TextInit, NewerInit DEF QueueInv
<1>2. QueueInv /\ [Next]_vars => QueueInv'
    BY TypedStep, TextStep, OneLoopStep, NewerStep, TranslationKept DEF QueueInv
<1> QED BY <1>1, <1>2, PTL DEF Spec

\* The variables keep their types, and the flag says whether a loop runs, however many
\* timers and upserts start one, and whenever the process dies.
THEOREM QueueTypes == Spec => []TypeOK
<1>1. QueueInv => TypeOK
    BY DEF QueueInv, Typed, OneLoop, TypeOK
<1> QED BY <1>1, QueueInvariant, PTL

\* storeEntityTranslations: a translation is not replaced by that of an older text,
\* however many requests change, empty and remove the texts meanwhile.
THEOREM TranslationsGrowNewer == Spec => NoRegress
<1>1. QueueInv /\ [Next]_vars =>
        [\A e \in Entity : shown'[e]["en"] # 0 => shown'[e]["en"] >= shown[e]["en"]]_vars
    BY TranslationKept DEF QueueInv
<1> QED BY <1>1, QueueInvariant, PTL DEF Spec, NoRegress

-----------------------------------------------------------------------------
(* A job is completed when its translation is stored, for requests that overlap  *)
(* only when they are about different rows.                                     *)

LEMMA StoredInit == ASSUME Init PROVE StoredWhenDone
BY DEF Init, StoredWhenDone, CompletedIsStored, Resting, Stopped, Job

\* A text that is the current one after a step and is not new was it before.
LEMMA CurrentBefore ==
    ASSUME Typed, [Next]_vars,
           NEW e \in Entity, NEW v \in Text, v <= version[e], Current(e, v)'
    PROVE  Current(e, v)
<1> USE DEF Current
<1>1. ASSUME NEW r \in Request, RequestStep(r) PROVE Current(e, v)
    <2>1. ASSUME NEW f \in Entity, Change(r, f) PROVE Current(e, v)
        <3>1. CASE e = f
            BY <2>1, <3>1, QueueAssumption DEF Change, Typed, Text
        <3>2. CASE e # f
            BY <2>1, <3>2 DEF Change, Typed
        <3> QED BY <3>1, <3>2
    <2> QED
        BY <1>1, <2>1
        DEF RequestStep, Rebuild, Remove, Clear, KoreanRead, KoreanSave, RemoveBundle,
            ClearRows, ClearJobs, source
<1>2. ASSUME UNCHANGED source PROVE Current(e, v)
    BY <1>2 DEF source
<1>3. ASSUME NEW j \in Job, JobStep(j) PROVE Current(e, v)
    BY <1>2, <1>3 DEF JobStep, Queue, QueueFails, Backoff, Stale
<1>4. ASSUME NEW l \in Loop, AnyLoopStep(l) PROVE Current(e, v)
    BY <1>2, <1>4
    DEF AnyLoopStep, LoopStep, Start, ClaimNone, ClaimRead, ClaimWrite, ClaimLost, Goto,
        Answer, ApiFails, TargetRead, TargetSave, Complete, Fail, FailUnhandled
<1>5. CASE Crash \/ UNCHANGED vars
    BY <1>2, <1>5 DEF Crash, vars
<1> QED BY <1>1, <1>3, <1>4, <1>5, StepKinds

\* Who takes a translation away still has no text to translate.
LEMMA TakersKept ==
    ASSUME Typed, StoredWhenDone, Apart', [Next]_vars
    PROVE  \A r \in Request :
             /\ request'[r].at = "bundle" => request'[r].e \notin alive'
             /\ request'[r].at = "clearRows" => request'[r].e \in blank'
<1> DEFINE Goal == \A r \in Request :
             /\ request'[r].at = "bundle" => request'[r].e \notin alive'
             /\ request'[r].at = "clearRows" => request'[r].e \in blank'
<1> USE DEF StoredWhenDone
<1>1. ASSUME NEW r \in Request, RequestStep(r) PROVE Goal
    <2>1. ASSUME NEW e \in Entity, Change(r, e) PROVE Goal
        <3>1. request'[r].at = "read" /\ request'[r].e = e
            BY <2>1 DEF Change, Begin, Typed
        <3>2. \A s \in Request \ {r} : request'[s] = request[s]
            BY <2>1 DEF Change, Begin, Typed
        <3>3. \A s \in Request \ {r} : request'[s].at = "clearRows" => request'[s].e # e
            BY <3>1 DEF Apart
        <3> QED BY <2>1, <3>1, <3>2, <3>3 DEF Change
    <2>2. ASSUME NEW e \in Entity, Rebuild(r, e) PROVE Goal
        BY <2>2 DEF Rebuild, Begin, Typed, source
    <2>3. ASSUME NEW e \in Entity, Remove(r, e) PROVE Goal
        BY <2>3 DEF Remove, Begin, Typed
    <2>4. ASSUME NEW e \in Entity, Clear(r, e) PROVE Goal
        BY <2>4 DEF Clear, Begin, Typed
    <2>5. CASE KoreanRead(r)
        BY <2>5 DEF KoreanRead, Typed, RequestType, source
    <2>6. CASE KoreanSave(r) \/ RemoveBundle(r) \/ ClearJobs(r)
        BY <2>6 DEF KoreanSave, RemoveBundle, ClearJobs, Resting, Typed, source
    <2>7. CASE ClearRows(r)
        BY <2>7 DEF ClearRows, Typed, RequestType, source
    <2> QED BY <1>1, <2>1, <2>2, <2>3, <2>4, <2>5, <2>6, <2>7 DEF RequestStep
<1>2. ASSUME UNCHANGED source,
             \A r \in Request : request'[r] = request[r] \/ request'[r] = Resting
      PROVE  Goal
    BY <1>2 DEF source, Resting
<1>3. ASSUME NEW j \in Job, JobStep(j) PROVE Goal
    BY <1>2, <1>3 DEF JobStep, Queue, QueueFails, Backoff, Stale, memory
<1>4. ASSUME NEW l \in Loop, AnyLoopStep(l) PROVE Goal
    <2>1. CASE FailUnhandled(l)
        BY <1>2, <2>1 DEF FailUnhandled, Reset
    <2> QED
        BY <1>2, <1>4, <2>1
        DEF AnyLoopStep, LoopStep, Start, ClaimNone, ClaimRead, ClaimWrite, ClaimLost, Goto,
            Answer, ApiFails, TargetRead, TargetSave, Complete, Fail
<1>5. CASE Crash \/ UNCHANGED vars
    BY <1>2, <1>5 DEF Crash, Reset, vars, memory
<1> QED BY <1>1, <1>3, <1>4, <1>5, StepKinds

\* What the loop has saved and what is completed stays as it is, in a step that stores
\* no translation, completes no job and takes translations only of texts that are gone.
LEMMA StoredKept ==
    ASSUME QueueInv, StoredWhenDone, Apart', [Next]_vars,
           \A e \in Entity :
              shown'[e]["en"] = shown[e]["en"] \/ e \notin alive' \/ e \in blank',
           \A l \in Loop : loop'[l].at \in {"save", "complete"} =>
              /\ loop[l].at = loop'[l].at
              /\ loop'[l].e = loop[l].e /\ loop'[l].v = loop[l].v
              /\ loop'[l].seen = loop[l].seen,
           \A j \in Job : job'[j] = "completed" => job[j] = "completed",
           \A e \in Entity : version[e] <= version'[e]
    PROVE  StoredWhenDone'
<1> USE DEF QueueInv
<1>0. \A e \in Entity : version[e] \in Nat /\ version'[e] \in Nat
    BY TypedStep, QueueAssumption DEF Typed, Text
<1>1. ASSUME NEW l \in Loop, loop'[l].at = "save"
      PROVE  loop'[l].seen <= version'[loop'[l].e]
    <2>1. loop[l].seen \in Nat /\ loop[l].e \in Entity
        BY QueueAssumption DEF Typed, LoopType, Text
    <2>2. loop[l].seen <= version[loop[l].e]
        BY <1>1 DEF StoredWhenDone
    <2> QED BY <1>0, <1>1, <2>1, <2>2
<1>2. ASSUME NEW e \in Entity, NEW v \in Text, v <= version[e],
             Current(e, v) => shown[e]["en"] = v, Current(e, v)'
      PROVE  shown'[e]["en"] = v
    BY <1>2, CurrentBefore DEF Current
<1>3. ASSUME NEW l \in Loop, (loop[l].at = "complete" /\ Current(loop[l].e, loop[l].v))'
      PROVE  (shown[loop[l].e]["en"] = loop[l].v)'
    <2>1. PICK e \in Entity, v \in Text : loop[l].e = e /\ loop[l].v = v
        BY DEF Typed, LoopType
    <2>2. loop'[l].e = e /\ loop'[l].v = v /\ loop[l].at = "complete"
        BY <1>3, <2>1
    <2>3. v <= version[e]
        BY <2>1 DEF NothingNewer
    <2>4. Current(e, v) => shown[e]["en"] = v
        BY <2>1, <2>2 DEF StoredWhenDone
    <2>5. Current(e, v)'
        BY <1>3, <2>2 DEF Current
    <2> QED BY <1>2, <2>2, <2>3, <2>4, <2>5
<1>4. CompletedIsStored'
    <2> SUFFICES ASSUME NEW e \in alive' \ blank', NEW v \in Version, v = version'[e],
                        job'[<<e, v>>] = "completed"
                 PROVE  shown'[e]["en"] = v
        BY DEF CompletedIsStored
    <2>0. e \in Entity /\ Current(e, v)'
        BY TypedStep DEF Current, Typed
    <2>1. job[<<e, v>>] = "completed"
        BY <2>0 DEF Job
    <2>2. v \in Text /\ v <= version[e]
        BY <2>0, <2>1, QueueAssumption DEF NothingNewer, Job, Text, Version
    <2>3. Current(e, v) => shown[e]["en"] = v
        BY <2>1 DEF StoredWhenDone, CompletedIsStored, Current
    <2> QED BY <1>2, <2>0, <2>2, <2>3
<1> QED BY <1>1, <1>3, <1>4, TakersKept DEF StoredWhenDone

LEMMA StoredStep ==
    ASSUME QueueInv, StoredWhenDone, Apart', [Next]_vars
    PROVE  StoredWhenDone'
<1> USE DEF QueueInv
<1> DEFINE Rows == \A e \in Entity : version[e] <= version'[e]
           Shown == \A e \in Entity :
              shown'[e]["en"] = shown[e]["en"] \/ e \notin alive' \/ e \in blank'
           Loops == \A l \in Loop : loop'[l].at \in {"save", "complete"} =>
              /\ loop[l].at = loop'[l].at
              /\ loop'[l].e = loop[l].e /\ loop'[l].v = loop[l].v
              /\ loop'[l].seen = loop[l].seen
           Jobs == \A j \in Job : job'[j] = "completed" => job[j] = "completed"
<1>0. ASSUME Rows, Shown, Loops, Jobs PROVE StoredWhenDone'
    BY <1>0, StoredKept
<1>1. /\ \A e \in Entity : version[e] \in Nat
      /\ version' = version => Rows
    BY QueueAssumption DEF Typed, Text
<1>2. ASSUME NEW r \in Request, RequestStep(r) PROVE StoredWhenDone'
    <2>1. Rows
        <3>1. ASSUME NEW e \in Entity, Change(r, e) PROVE Rows
            BY <1>1, <3>1 DEF Change, Typed
        <3> QED
            BY <1>1, <1>2, <3>1
            DEF RequestStep, Rebuild, Remove, Clear, KoreanRead, KoreanSave, RemoveBundle,
                ClearRows, ClearJobs, source
    <2>2. Shown
        <3>1. CASE KoreanSave(r)
            BY <3>1 DEF KoreanSave, Typed, Language
        <3>2. CASE RemoveBundle(r)
            BY <3>2 DEF RemoveBundle, Typed, source, StoredWhenDone
        <3>3. CASE ClearRows(r)
            BY <3>3 DEF ClearRows, Typed, source, StoredWhenDone
        <3> QED
            BY <1>2, <3>1, <3>2, <3>3
            DEF RequestStep, Change, Rebuild, Remove, Clear, KoreanRead, ClearJobs
    <2>3. ASSUME NEW gone, DropJobs(gone) PROVE Loops /\ Jobs
        BY <2>3 DEF DropJobs, Typed, LoopType
    <2>4. Loops /\ Jobs
        BY <1>2, <2>3
        DEF RequestStep, Change, Rebuild, Remove, Clear, KoreanRead, KoreanSave,
            RemoveBundle, ClearRows, ClearJobs
    <2> QED BY <1>0, <2>1, <2>2, <2>4
<1>3. ASSUME NEW j \in Job, JobStep(j) PROVE StoredWhenDone'
    <2>1. version' = version /\ shown' = shown /\ loop' = loop
        BY <1>3 DEF JobStep, Queue, QueueFails, Backoff, Stale, memory, source
    <2>2. Jobs
        BY <1>3 DEF JobStep, Queue, QueueFails, Backoff, Stale, Typed
    <2> QED BY <1>0, <1>1, <2>1, <2>2
<1>4. ASSUME NEW l \in Loop, AnyLoopStep(l) PROVE StoredWhenDone'
    <2>0. version' = version /\ alive' = alive /\ blank' = blank /\ Rows
        BY <1>1, <1>4
        DEF AnyLoopStep, LoopStep, Start, ClaimNone, ClaimRead, ClaimWrite, ClaimLost, Goto,
            Answer, ApiFails, TargetRead, TargetSave, Complete, Fail, FailUnhandled, source
    <2>1. CASE Start(l)
        <3>1. shown' = shown /\ Loops
            BY <2>1 DEF Start, Typed, LoopType
        <3>2. Jobs
            BY <2>1 DEF Start, Typed
        <3> QED BY <1>0, <2>0, <3>1, <3>2
    <2>2. CASE ClaimNone(l) \/ ClaimLost(l)
        <3>1. shown' = shown /\ job' = job /\ Loops
            BY <2>2 DEF ClaimNone, ClaimLost, Stop, Stopped, Typed
        <3> QED BY <1>0, <2>0, <3>1
    <2>3. ASSUME NEW j \in Job, ClaimRead(l, j) PROVE StoredWhenDone'
        <3>1. shown' = shown /\ job' = job /\ Loops
            BY <2>3 DEF ClaimRead, Stopped, Typed
        <3> QED BY <1>0, <2>0, <3>1
    <2>4. CASE ClaimWrite(l)
        <3>1. shown' = shown /\ Loops
            BY <2>4 DEF ClaimWrite, Typed, LoopType
        <3>2. Jobs
            BY <2>4 DEF ClaimWrite, Typed
        <3> QED BY <1>0, <2>0, <3>1, <3>2
    <2>5. ASSUME NEW at, at \notin {"save", "complete"}, Goto(l, at)
          PROVE  shown' = shown /\ Loops
        BY <2>5 DEF Goto, Typed, LoopType
    <2>6. ASSUME NEW j \in Job, Answer(l, j) PROVE StoredWhenDone'
        BY <1>0, <2>0, <2>5, <2>6 DEF Answer
    <2>7. CASE ApiFails(l)
        BY <1>0, <2>0, <2>5, <2>7 DEF ApiFails
    <2>8. CASE Fail(l)
        <3>1. Jobs
            BY <2>8 DEF Fail, Typed
        <3> QED BY <1>0, <2>0, <2>5, <2>8, <3>1 DEF Fail
    <2>9. CASE FailUnhandled(l)
        <3>1. shown' = shown /\ job' = job /\ Loops
            BY <2>9 DEF FailUnhandled, Reset, Stopped
        <3> QED BY <1>0, <2>0, <3>1
    \* A translation that is read is not newer than its row.
    <2>10. CASE TargetRead(l)
        <3>1. /\ shown' = shown /\ job' = job
              /\ \A k \in Loop \ {l} : loop'[k] = loop[k]
              /\ loop'[l].at = "save" /\ loop'[l].e = loop[l].e
              /\ loop'[l].seen = shown[loop[l].e]["en"]
            BY <2>10 DEF TargetRead, Typed, LoopType
        <3>2. loop'[l].seen <= version'[loop'[l].e]
            BY <2>0, <3>1 DEF NothingNewer, Typed, LoopType, Language
        <3>3. CompletedIsStored'
            BY <2>0, <3>1 DEF StoredWhenDone, CompletedIsStored
        <3> QED
            BY <2>0, <3>1, <3>2, <3>3, TakersKept DEF StoredWhenDone, Current
    \* The current text's translation is stored, or was: a newer one there is not.
    <2>11. CASE TargetSave(l)
        <3>0. PICK e \in Entity, v \in Text : loop[l].e = e /\ loop[l].v = v
            BY DEF Typed, LoopType
        <3>1. v \in Nat /\ loop[l].seen \in Nat /\ v <= version[e]
            BY <3>0, QueueAssumption DEF Typed, LoopType, Text, NothingNewer
        <3>2. loop[l].seen <= version[e] /\ shown[e]["en"] \in {0, loop[l].seen}
            BY <2>11, <3>0 DEF StoredWhenDone, SaveSawStored, TargetSave
        <3>3. /\ job' = job /\ loop'[l].at = "complete" /\ loop'[l].e = e /\ loop'[l].v = v
              /\ \A k \in Loop \ {l} : loop'[k] = loop[k] /\ loop[k].at = "idle"
            BY <2>11, <3>0 DEF TargetSave, Typed, LoopType, OneLoop
        <3>4. \A f \in Entity \ {e} : shown'[f]["en"] = shown[f]["en"]
            BY <2>11, <3>0 DEF TargetSave, Typed
        <3>5. shown'[e]["en"] = IF loop[l].seen > v THEN shown[e]["en"] ELSE v
            BY <2>11, <3>0, <3>1 DEF TargetSave, Typed, Language
        <3>6. Current(e, v) => shown'[e]["en"] = v
            BY <1>1, <3>1, <3>2, <3>5 DEF Current
        <3>7. ASSUME NEW f \in Entity, NEW w \in Version, Current(f, w),
                     job[<<f, w>>] = "completed"
              PROVE  shown'[f]["en"] = w
            <4>1. shown[f]["en"] = w /\ w \in Nat /\ w # 0
                BY <3>7, QueueAssumption
                DEF StoredWhenDone, CompletedIsStored, Current, Version
            <4>2. CASE f = e
                BY <1>1, <3>1, <3>2, <3>5, <3>7, <4>1, <4>2 DEF Current
            <4> QED BY <3>4, <4>1, <4>2
        <3>8. CompletedIsStored'
            BY <2>0, <3>3, <3>7 DEF CompletedIsStored, Current, Typed
        <3>9. Current(e, v)' => Current(e, v)
            BY <2>0 DEF Current
        <3>10. \A k \in Loop : (loop[k].at = "complete" => k = l)'
            BY <3>3
        <3>11. (loop[l].at = "complete" /\ Current(loop[l].e, loop[l].v) =>
                  shown[loop[l].e]["en"] = loop[l].v)'
            BY <3>3, <3>6, <3>9 DEF Current
        <3>12. \A k \in Loop : (loop[k].at # "save")'
            BY <3>3
        <3> QED
            BY <3>8, <3>10, <3>11, <3>12, TakersKept DEF StoredWhenDone
    \* The job that is completed is the one whose translation the loop stored.
    <2>12. CASE Complete(l)
        <3>1. shown' = shown /\ Loops
            BY <2>5, <2>12 DEF Complete
        <3>2. CASE loop[l].lost
            BY <1>0, <2>0, <2>12, <3>1, <3>2 DEF Complete
        <3>3. CASE ~ loop[l].lost
            <4>1. \A j \in Job : job'[j] = "completed" => job[j] = "completed" \/ j = Held(l)
                BY <2>12, <3>3 DEF Complete, Typed
            <4>2. PICK e \in Entity, v \in Text : loop[l].e = e /\ loop[l].v = v
                BY DEF Typed, LoopType
            <4>3. Current(e, v) => shown[e]["en"] = v
                BY <2>12, <4>2 DEF StoredWhenDone, Complete
            <4>4. ASSUME NEW f \in Entity, NEW w \in Version, Current(f, w),
                         job'[<<f, w>>] = "completed"
                  PROVE  shown[f]["en"] = w
                <5>1. CASE job[<<f, w>>] = "completed"
                    BY <4>4, <5>1 DEF StoredWhenDone, CompletedIsStored, Current
                <5>2. CASE job[<<f, w>>] # "completed"
                    <6>1. <<f, w>> = <<e, v>>
                        BY <4>1, <4>2, <4>4, <5>2 DEF Held, Job
                    <6> QED BY <4>3, <4>4, <6>1
                <5> QED BY <5>1, <5>2
            <4>5. CompletedIsStored'
                BY <2>0, <3>1, <4>4 DEF CompletedIsStored, Current, Typed
            <4>6. \A k \in Loop : (loop[k].at = "save" => loop[k].seen <= version[loop[k].e])'
                BY <2>0, <3>1 DEF StoredWhenDone
            <4>7. ASSUME NEW k \in Loop, (loop[k].at = "complete")'
                  PROVE  (Current(loop[k].e, loop[k].v) => shown[loop[k].e]["en"] = loop[k].v)'
                BY <2>0, <3>1, <4>7 DEF StoredWhenDone, Current
            <4> QED BY <4>5, <4>6, <4>7, TakersKept DEF StoredWhenDone
        <3> QED BY <3>2, <3>3
    <2> QED
        BY <1>4, <2>1, <2>2, <2>3, <2>4, <2>6, <2>7, <2>8, <2>9, <2>10, <2>11, <2>12
        DEF AnyLoopStep, LoopStep
<1>5. CASE Crash
    <2>1. version' = version /\ shown' = shown /\ job' = job /\ Loops
        BY <1>5 DEF Crash, Reset, Stopped, source
    <2> QED BY <1>0, <1>1, <2>1
<1>6. CASE UNCHANGED vars
    <2>1. version' = version /\ shown' = shown /\ job' = job /\ Loops
        BY <1>6 DEF vars, source, memory
    <2> QED BY <1>0, <1>1, <2>1
<1> QED BY <1>2, <1>3, <1>4, <1>5, <1>6, StepKinds

\* processJob: whatever is queued again, retried, recovered, lost or deleted meanwhile,
\* the job of the text an entity has is completed only when its translation is stored, as
\* long as no two requests are about the same row at the same time.
THEOREM CompletionMeansStored == Spec /\ []Apart => []CompletedIsStored
<1>1. Init => StoredWhenDone
    BY StoredInit
<1>2. QueueInv /\ StoredWhenDone /\ Apart' /\ [Next]_vars => StoredWhenDone'
    BY StoredStep
<1>3. StoredWhenDone => CompletedIsStored
    BY DEF StoredWhenDone
<1> QED BY <1>1, <1>2, <1>3, QueueInvariant, PTL DEF Spec
================================================================================
