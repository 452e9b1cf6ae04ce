---------------------------- MODULE TranslationQueue ----------------------------
(***************************************************************************)
(* The translation job queue: common/translation/translation.service.ts    *)
(* and the services that store a Korean text and queue its translation.    *)
(*                                                                         *)
(* A text is the value of `updatedAt' of the row it comes from; version 0  *)
(* is a row that does not exist yet, and the `updatedAt' of a row whose     *)
(* text is empty is left out, for nothing is stored under it.  One field    *)
(* and one target language stand for all of them: fields and languages are  *)
(* stored by independent statements.  A job that fails waits for its        *)
(* backoff, a claim grows stale after five minutes; both delays are steps   *)
(* that may come at any time.  Requests, queue writes and the processing    *)
(* loop live in the memory of one process.                                  *)
(***************************************************************************)
EXTENDS Integers, FiniteSets

CONSTANTS
    Entity,      \* the rows whose text is translated
    Request,     \* requests in flight at the same time
    Loop,        \* the calls of processPendingJobs that may be running
    MaxVersion,  \* bound: the versions of a text
    MaxCrashes   \* bound: how often the process is killed from outside

ASSUME QueueAssumption ==
    /\ Entity # {}
    /\ MaxVersion \in Nat \ {0}
    /\ MaxCrashes \in Nat

Version == 1..MaxVersion
Text == 0..MaxVersion
Language == {"ko", "en"}
Job == Entity \X Version

VARIABLES
    alive,             \* the entities that are not deleted
    version,           \* Entity -> the version of its row
    blank,             \* the entities whose text was emptied
    shown,             \* Entity -> Language -> sourceUpdatedAt in ContentTranslation
    job,               \* Job -> status of its TranslationJob row
    asked,             \* jobs whose upsert has been sent and not answered
    request,           \* Request -> what it does next and has read
    loop,              \* Loop -> what it does next and has read
    isProcessingJobs,  \* a loop is running
    crashes            \* how often the process was killed

memory == <<asked, request, loop, isProcessingJobs>>
source == <<alive, version, blank>>
vars == <<source, shown, job, memory, crashes>>

\* "failed" waits for nextAttemptAt, "due" is FAILED with that time past;
\* "stale" is PROCESSING with processingStartedAt five minutes past.
Status == {"none", "pending", "processing", "stale", "failed", "due", "completed"}

RequestType == [at : {"idle", "read", "save", "bundle", "clearRows", "clearJobs"},
                e : Entity, v : Text, seen : Text]

\* lost: the row of the job has been deleted since the loop read it.
LoopType == [at : {"idle", "claim", "claiming", "translate", "read", "save",
                   "complete", "fail"},
             e : Entity, v : Text, seen : Text, lost : BOOLEAN]

\* A request and a loop that have nothing to do.
AnyEntity == CHOOSE e \in Entity : TRUE
Resting == [at |-> "idle", e |-> AnyEntity, v |-> 0, seen |-> 0]
Stopped == [at |-> "idle", e |-> AnyEntity, v |-> 0, seen |-> 0,
            lost |-> FALSE]

Init ==
    /\ alive = Entity
    /\ version = [e \in Entity |-> 0]
    /\ blank = {}
    /\ shown = [e \in Entity |-> [l \in Language |-> 0]]
    /\ job = [j \in Job |-> "none"]
    /\ asked = {}
    /\ request = [r \in Request |-> Resting]
    /\ loop = [l \in Loop |-> Stopped]
    /\ isProcessingJobs = FALSE
    /\ crashes = 0

-----------------------------------------------------------------------------
(* Requests.  A service writes its row and calls sync...Translations, which  *)
(* stores the Korean text and queues the job without waiting for the queue.  *)

Begin(r, e, at, v) ==
    /\ request[r].at = "idle"
    /\ e \in alive
    /\ request' = [request EXCEPT ![r] = [at |-> at, e |-> e, v |-> v, seen |-> 0]]

\* create or update of the row.
Change(r, e) ==
    /\ version[e] < MaxVersion
    /\ version' = [version EXCEPT ![e] = @ + 1]
    /\ blank' = blank \ {e}
    /\ Begin(r, e, "read", version'[e])
    /\ UNCHANGED <<alive, shown, job, asked, loop, isProcessingJobs, crashes>>

\* rebuildTranslations: the same for a row as it is.
Rebuild(r, e) ==
    /\ version[e] > 0
    /\ IF e \in blank THEN Begin(r, e, "clearRows", 0) ELSE Begin(r, e, "read", version[e])
    /\ UNCHANGED <<source, shown, job, asked, loop, isProcessingJobs, crashes>>

\* storeEntityTranslations reads what is stored ...
KoreanRead(r) ==
    /\ request[r].at = "read"
    /\ request' = [request EXCEPT ![r].at = "save",
                                  ![r].seen = shown[request[r].e]["ko"]]
    /\ UNCHANGED <<source, shown, job, asked, loop, isProcessingJobs, crashes>>

\* ... and keeps it if it is newer.  queueEntityTranslations is not awaited.
KoreanSave(r) ==
    LET q == request[r] IN
    /\ q.at = "save"
    /\ shown' = IF q.seen > q.v THEN shown ELSE [shown EXCEPT ![q.e]["ko"] = q.v]
    /\ asked' = asked \cup {<<q.e, q.v>>}
    /\ request' = [request EXCEPT ![r] = Resting]
    /\ UNCHANGED <<source, job, loop, isProcessingJobs, crashes>>

\* The rows of these jobs go: a loop that holds one of them has lost it.
DropJobs(gone) ==
    /\ job' = [j \in Job |-> IF j \in gone THEN "none" ELSE job[j]]
    /\ loop' = [l \in Loop |-> [loop[l] EXCEPT !.lost = @ \/ <<loop[l].e, loop[l].v>> \in gone]]

\* The row is deleted, then deleteEntityTranslationBundle runs in a transaction.
Remove(r, e) ==
    /\ Begin(r, e, "bundle", 0)
    /\ alive' = alive \ {e}
    /\ UNCHANGED <<version, blank, shown, job, asked, loop, isProcessingJobs, crashes>>

RemoveBundle(r) ==
    LET e == request[r].e IN
    /\ request[r].at = "bundle"
    /\ shown' = [shown EXCEPT ![e] = [l \in Language |-> 0]]
    /\ DropJobs({j \in Job : j[1] = e /\ job[j] # "none"})
    /\ request' = [request EXCEPT ![r] = Resting]
    /\ UNCHANGED <<source, asked, isProcessingJobs, crashes>>

\* The text is emptied: deleteEntityTranslations, then deletePendingTranslationJobs,
\* which keeps the rows of completed jobs.
Clear(r, e) ==
    /\ version[e] > 0
    /\ blank' = blank \cup {e}
    /\ Begin(r, e, "clearRows", 0)
    /\ UNCHANGED <<alive, version, shown, job, asked, loop, isProcessingJobs, crashes>>

ClearRows(r) ==
    /\ request[r].at = "clearRows"
    /\ shown' = [shown EXCEPT ![request[r].e] = [l \in Language |-> 0]]
    /\ request' = [request EXCEPT ![r].at = "clearJobs"]
    /\ UNCHANGED <<source, job, asked, loop, isProcessingJobs, crashes>>

ClearJobs(r) ==
    /\ request[r].at = "clearJobs"
    /\ DropJobs({j \in Job : j[1] = request[r].e /\ job[j] \notin {"none", "completed"}})
    /\ request' = [request EXCEPT ![r] = Resting]
    /\ UNCHANGED <<source, shown, asked, isProcessingJobs, crashes>>

\* The upsert of queueEntityTranslations: a row that is there starts again,
\* even while a loop is working on it.
Queue(j) ==
    /\ j \in asked
    /\ asked' = asked \ {j}
    /\ job' = [job EXCEPT ![j] = "pending"]
    /\ UNCHANGED <<source, shown, request, loop, isProcessingJobs, crashes>>

\* It fails: the job is logged and forgotten.
QueueFails(j) ==
    /\ j \in asked
    /\ asked' = asked \ {j}
    /\ UNCHANGED <<source, shown, job, request, loop, isProcessingJobs, crashes>>

-----------------------------------------------------------------------------
(* processPendingJobs *)

Held(l) == <<loop[l].e, loop[l].v>>

\* Mutant: no loop looks whether another one is running.
StartAnother(l) ==
    /\ loop[l].at = "idle"
    /\ isProcessingJobs' = TRUE
    /\ job' = [j \in Job |-> IF job[j] = "stale" THEN "due" ELSE job[j]]
    /\ loop' = [loop EXCEPT ![l].at = "claim"]
    /\ UNCHANGED <<source, shown, asked, request, crashes>>

\* Mutant: stale claims are not recovered.
StartForgetful(l) ==
    /\ loop[l].at = "idle"
    /\ ~ isProcessingJobs
    /\ isProcessingJobs' = TRUE
    /\ loop' = [loop EXCEPT ![l].at = "claim"]
    /\ UNCHANGED <<source, shown, job, asked, request, crashes>>

\* The timer, or the end of a queue upsert, calls it; recoverStaleJobs.
Start(l) ==
    /\ loop[l].at = "idle"
    /\ ~ isProcessingJobs
    /\ isProcessingJobs' = TRUE
    /\ job' = [j \in Job |-> IF job[j] = "stale" THEN "due" ELSE job[j]]
    /\ loop' = [loop EXCEPT ![l].at = "claim"]
    /\ UNCHANGED <<source, shown, asked, request, crashes>>

\* Mutant: the flag stays up.
StopWithoutFinally(l) ==
    /\ isProcessingJobs' = isProcessingJobs
    /\ loop' = [loop EXCEPT ![l] = Stopped]

\* The loop ends: the finally block.
Stop(l) ==
    /\ isProcessingJobs' = FALSE
    /\ loop' = [loop EXCEPT ![l] = Stopped]

Claimable == {j \in Job : job[j] \in {"pending", "due"}}

ClaimNone(l) ==
    /\ loop[l].at = "claim"
    /\ Claimable = {}
    /\ Stop(l)
    /\ UNCHANGED <<source, shown, job, asked, request, crashes>>

\* claimNextJob: the read ...
ClaimRead(l, j) ==
    /\ loop[l].at = "claim"
    /\ j \in Claimable
    /\ loop' = [loop EXCEPT ![l] = [Stopped EXCEPT !.at = "claiming", !.e = j[1], !.v = j[2]]]
    /\ UNCHANGED <<source, shown, job, asked, request, isProcessingJobs, crashes>>

Winnable(l) == ~ loop[l].lost /\ job[Held(l)] \in {"pending", "due", "failed"}

\* ... and the conditional update.  A claim that fails ends the loop.
ClaimWrite(l) ==
    /\ loop[l].at = "claiming"
    /\ Winnable(l)
    /\ job' = [job EXCEPT ![Held(l)] = "processing"]
    /\ loop' = [loop EXCEPT ![l].at = "translate"]
    /\ UNCHANGED <<source, shown, asked, request, isProcessingJobs, crashes>>

ClaimLost(l) ==
    /\ loop[l].at = "claiming"
    /\ ~ Winnable(l)
    /\ Stop(l)
    /\ UNCHANGED <<source, shown, job, asked, request, crashes>>

Goto(l, at) ==
    /\ loop' = [loop EXCEPT ![l].at = at]
    /\ UNCHANGED <<source, shown, asked, request, isProcessingJobs, crashes>>

\* processJob: the translation API answers, or fails or times out.
Answer(l, j) == loop[l].at = "translate" /\ Held(l) = j /\ Goto(l, "read") /\ UNCHANGED job

\* Mutant: the failure of the API is ignored.
ApiIgnored(l) == loop[l].at = "translate" /\ Goto(l, "complete") /\ UNCHANGED job

ApiFails(l) == loop[l].at = "translate" /\ Goto(l, "fail") /\ UNCHANGED job

TargetRead(l) ==
    /\ loop[l].at = "read"
    /\ loop' = [loop EXCEPT ![l].at = "save", ![l].seen = shown[loop[l].e]["en"]]
    /\ UNCHANGED <<source, shown, job, asked, request, isProcessingJobs, crashes>>

TargetSave(l) ==
    LET w == loop[l] IN
    /\ w.at = "save"
    /\ shown' = IF w.seen > w.v THEN shown ELSE [shown EXCEPT ![w.e]["en"] = w.v]
    /\ loop' = [loop EXCEPT ![l].at = "complete"]
    /\ UNCHANGED <<source, job, asked, request, isProcessingJobs, crashes>>

\* The update of a row that is gone throws, here into the catch block ...
Complete(l) ==
    /\ loop[l].at = "complete"
    /\ IF loop[l].lost
       THEN Goto(l, "fail") /\ UNCHANGED job
       ELSE Goto(l, "claim") /\ job' = [job EXCEPT ![Held(l)] = "completed"]

\* What a process that ends takes with it.  It is started again.
Reset ==
    /\ asked' = {}
    /\ request' = [r \in Request |-> Resting]
    /\ loop' = [l \in Loop |-> Stopped]
    /\ isProcessingJobs' = FALSE

Fail(l) ==
    /\ loop[l].at = "fail"
    /\ ~ loop[l].lost
    /\ Goto(l, "claim")
    /\ job' = [job EXCEPT ![Held(l)] = "failed"]

\* ... and in the catch block out of the loop: nobody handles the rejection of
\* processPendingJobs, which ends the process.
FailUnhandled(l) ==
    /\ loop[l].at = "fail"
    /\ loop[l].lost
    /\ Reset
    /\ UNCHANGED <<source, shown, job, crashes>>

Crash ==
    /\ crashes < MaxCrashes
    /\ crashes' = crashes + 1
    /\ Reset
    /\ UNCHANGED <<source, shown, job>>

\* Time passes.
Backoff(j) ==
    /\ job[j] = "failed"
    /\ job' = [job EXCEPT ![j] = "due"]
    /\ UNCHANGED <<source, shown, memory, crashes>>

Stale(j) ==
    /\ job[j] = "processing"
    /\ job' = [job EXCEPT ![j] = "stale"]
    /\ UNCHANGED <<source, shown, memory, crashes>>

-----------------------------------------------------------------------------
LoopStep(l) ==
    \/ ClaimNone(l) \/ ClaimWrite(l) \/ ClaimLost(l)
    \/ TargetRead(l) \/ TargetSave(l)
    \/ Complete(l) \/ Fail(l) \/ FailUnhandled(l)

Next ==
    \/ \E r \in Request, e \in Entity :
           Change(r, e) \/ Rebuild(r, e) \/ Remove(r, e) \/ Clear(r, e)
    \/ \E r \in Request :
           KoreanRead(r) \/ KoreanSave(r) \/ RemoveBundle(r) \/ ClearRows(r) \/ ClearJobs(r)
    \/ \E j \in Job : Queue(j) \/ QueueFails(j) \/ Backoff(j) \/ Stale(j)
    \/ \E l \in Loop : Start(l) \/ LoopStep(l) \/ ApiFails(l)
    \/ \E l \in Loop, j \in Job : ClaimRead(l, j) \/ Answer(l, j)
    \/ Crash

\* The timer starts a loop again and again, its steps and the delays come to an
\* end, jobs are taken in the order of nextAttemptAt, which a retry moves back,
\* and an API that is asked again and again answers in the end.
Fairness ==
    /\ WF_vars(\E l \in Loop : Start(l))
    /\ \A l \in Loop : /\ WF_vars(LoopStep(l))
                       /\ WF_vars(ApiFails(l) \/ \E j \in Job : Answer(l, j))
    /\ \A j \in Job : /\ WF_vars(Backoff(j)) /\ WF_vars(Stale(j))
                      /\ SF_vars(\E l \in Loop : ClaimRead(l, j))
                      /\ SF_vars(\E l \in Loop : Answer(l, j))

Spec == Init /\ [][Next]_vars /\ Fairness

-----------------------------------------------------------------------------
(* Properties. *)

\* The types; the flag is up exactly while a loop runs.
TypeOK ==
    /\ alive \subseteq Entity
    /\ version \in [Entity -> Text]
    /\ blank \subseteq Entity
    /\ shown \in [Entity -> [Language -> Text]]
    /\ job \in [Job -> Status]
    /\ asked \subseteq Job
    /\ request \in [Request -> RequestType]
    /\ loop \in [Loop -> LoopType]
    /\ isProcessingJobs = \E l \in Loop : loop[l].at # "idle"
    /\ crashes \in 0..MaxCrashes

\* processJob: the job of the text an entity has now is completed only when the
\* translation of that text is stored, whatever was queued again, retried,
\* recovered or deleted meanwhile.
CompletedIsStored ==
    \A e \in alive \ blank, v \in Version :
        v = version[e] /\ job[<<e, v>>] = "completed" => shown[e]["en"] = v

\* storeEntityTranslations: a translation is not replaced by that of an older
\* text, though its check and its write are two statements.
NoRegress == [][\A e \in Entity : shown'[e]["en"] # 0 => shown'[e]["en"] >= shown[e]["en"]]_vars

\* recoverStaleJobs and the backoff: a queued job is completed in the end, or its
\* text is gone, though the process may die while it holds the claim.  Only a loop
\* that starts recovers: the queue must run dry again and again, for one that is
\* never out of work leaves a stale claim as it is.
JobsFinish ==
    []<>(~ isProcessingJobs) =>
        \A j \in Job : job[j] \notin {"none", "completed"} ~> job[j] \in {"none", "completed"}
=============================================================================
