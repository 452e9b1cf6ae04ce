----------------------------- MODULE LogRetention -----------------------------
(***************************************************************************)
(* The archiving of old data: modules/system-storage/ (the controller and   *)
(* its two job runners), and the services that write the tables meanwhile.  *)
(*                                                                         *)
(* One request starts two jobs in the memory of the process.  The cleanup  *)
(* takes table after table: it copies the expired rows to a file, writes a  *)
(* manifest and deletes batch by batch whatever is expired by then.  The    *)
(* partition job dumps and drops the expired months of device_locations.   *)
(*                                                                         *)
(* Time is counted in months.  A row expires when `now' has passed it, which *)
(* is two years ago.  The last month stands for all later ones, this moment *)
(* included: what is dated then does not expire before the model ends.      *)
(***************************************************************************)
EXTENDS Integers, FiniteSets, Sequences

CONSTANTS
    Row,       \* rows of the cleaned tables and of device_locations
    Order,     \* the tables of RETENTION_POLICIES in their order
    TableOf,   \* Row -> its table; "device_locations" is not among the others
    BatchSize, \* SAFEIN_RETENTION_BATCH_SIZE
    MaxNow     \* bound: how far time goes on

Locations == {r \in Row : TableOf[r] = "device_locations"}
Tables == {Order[i] : i \in DOMAIN Order}

ASSUME RetentionAssumption ==
    /\ IsFiniteSet(Row)
    /\ Order \in Seq(STRING) /\ Len(Order) > 0
    /\ "device_locations" \notin Tables
    /\ TableOf \in [Row -> Tables \cup {"device_locations"}]
    /\ BatchSize \in Nat \ {0}
    /\ MaxNow \in Nat \ {0}

Month == 0..MaxNow
Recent == MaxNow

VARIABLES
    now,        \* the cutoff of a job that computes it at this moment
    stamp,      \* Row -> the month it is dated
    state,      \* Row -> "absent", "kept", "removed" with its device, "cleaned"
    late,       \* the rows written since the last copy of their table
    archived,   \* the rows that a file with a manifest holds as they are now
    attached,   \* the months that device_locations has a partition for
    cleanup,    \* RetentionCleanupRunner.current, and where run() is
    partitions  \* PartitionArchiveRunner.current, and where run() is

data == <<stamp, state, late, archived, attached>>
vars == <<now, data, cleanup, partitions>>

JobStatus == {"idle", "running", "completed", "failed"}
CleanupType == [status : JobStatus, dryRun : BOOLEAN,
                at : {"end", "count", "copy", "manifest", "delete"},
                table : DOMAIN Order, cutoff : Month, copied : SUBSET Row]
PartitionType == [status : JobStatus, dryRun : BOOLEAN,
                  at : {"end", "list", "dump", "drop"},
                  left : SUBSET Month]

IdleCleanup == [status |-> "idle", dryRun |-> TRUE, at |-> "end", table |-> 1,
                cutoff |-> 0, copied |-> {}]
IdlePartitions ==
    [status |-> "idle", dryRun |-> TRUE, at |-> "end", left |-> {}]

\* Any rows, dated as their writers would have.
Init ==
    /\ now = 1
    /\ \E S \in SUBSET Row :
          state = [r \in Row |-> IF r \in S THEN "kept" ELSE "absent"]
    /\ stamp \in {f \in [Row -> 0..1] :
                    \A r \in Row : state[r] = "absent" => f[r] = 0}
    /\ late = {}
    /\ archived = {}
    /\ attached = Month
    /\ cleanup = IdleCleanup
    /\ partitions = IdlePartitions

Kept == {r \in Row : state[r] = "kept"}

-----------------------------------------------------------------------------
(* The controller: both jobs or none. *)

Idle == cleanup.status # "running" /\ partitions.status # "running"

StartArchiveAll(dryRun) ==
    /\ Idle
    /\ cleanup' = [IdleCleanup EXCEPT !.status = "running", !.dryRun = dryRun,
                                      !.at = "count"]
    /\ partitions' = [IdlePartitions EXCEPT !.status = "running",
                                            !.dryRun = dryRun, !.at = "list"]
    /\ UNCHANGED <<now, data>>

-----------------------------------------------------------------------------
(* RetentionCleanupRunner.run *)

At(step) == cleanup.status = "running" /\ cleanup.at = step

Current == Order[cleanup.table]
Expired(cutoff) == {r \in Kept : TableOf[r] = Current /\ stamp[r] < cutoff}

\* Mutant: a failed job is not finished.
FinishCompletedOnly(status) ==
    cleanup' = [IdleCleanup EXCEPT !.status = IF status = "failed" THEN "running"
                                              ELSE status]

\* What the steps of the job were is only reported.
Finish(status) == cleanup' = [IdleCleanup EXCEPT !.status = status]

NextTable ==
    IF cleanup.table = Len(Order) THEN Finish("completed")
    ELSE cleanup' = [cleanup EXCEPT !.at = "count", !.table = @ + 1,
                                    !.cutoff = 0]

\* Every table gets a cutoff of its own.
CountExpired ==
    /\ At("count")
    /\ IF cleanup.dryRun \/ Expired(now) = {} THEN NextTable
       ELSE cleanup' = [cleanup EXCEPT !.at = "copy", !.cutoff = now]
    /\ UNCHANGED <<now, data, partitions>>

\* psql COPY, as of one moment.
CopyRows ==
    /\ At("copy")
    /\ cleanup' = [cleanup EXCEPT !.at = "manifest",
                                  !.copied = Expired(cleanup.cutoff)]
    /\ late' = {r \in late : r \in Kept => TableOf[r] # Current}
    /\ UNCHANGED <<now, stamp, state, archived, attached, partitions>>

\* The file is read back, and only then named in a manifest.
WriteManifest ==
    /\ At("manifest")
    /\ archived' = archived \cup (cleanup.copied \ late)
    /\ cleanup' = [cleanup EXCEPT !.at = "delete", !.copied = {}]
    /\ UNCHANGED <<now, stamp, state, late, attached, partitions>>

\* The rows one batch takes: the oldest of those given, BatchSize at most.
Batches(rows) ==
    {S \in SUBSET rows :
        /\ \/ Cardinality(S) = BatchSize
           \/ S = rows /\ Cardinality(S) < BatchSize
        /\ \A r \in S, q \in rows \ S : stamp[r] <= stamp[q]}

\* Mutant: the cutoff is computed again.
DeleteBatchRecomputed ==
    /\ At("delete")
    /\ \E S \in Batches(Expired(now)) :
          /\ state' = [r \in Row |-> IF r \in S THEN "cleaned" ELSE state[r]]
          /\ IF Cardinality(S) < BatchSize THEN NextTable ELSE UNCHANGED cleanup
    /\ UNCHANGED <<now, stamp, late, archived, attached, partitions>>

\* Mutant: one batch and no more.
DeleteBatchOnce ==
    /\ At("delete")
    /\ \E S \in Batches(Expired(cleanup.cutoff)) :
          state' = [r \in Row |-> IF r \in S THEN "cleaned" ELSE state[r]]
    /\ NextTable
    /\ UNCHANGED <<now, stamp, late, archived, attached, partitions>>

\* A batch that is not full is the last one.
DeleteBatch ==
    /\ At("delete")
    /\ \E S \in Batches(Expired(cleanup.cutoff)) :
          /\ state' = [r \in Row |-> IF r \in S THEN "cleaned" ELSE state[r]]
          /\ IF Cardinality(S) < BatchSize THEN NextTable ELSE UNCHANGED cleanup
    /\ UNCHANGED <<now, stamp, late, archived, attached, partitions>>

\* A query, psql or the file system fails: the job is over.
CleanupFails ==
    /\ cleanup.status = "running"
    /\ Finish("failed")
    /\ UNCHANGED <<now, data, partitions>>

-----------------------------------------------------------------------------
(* PartitionArchiveRunner.run *)

PartitionAt(step) == partitions.status = "running" /\ partitions.at = step

\* The partitions are taken in the order of their names.
Partition == CHOOSE m \in partitions.left : \A n \in partitions.left : m <= n

InPartition(m) == {r \in Kept \cap Locations : stamp[r] = m}

NextPartition(left) ==
    partitions' =
        IF left = {} THEN [IdlePartitions EXCEPT !.status = "completed"]
        ELSE [partitions EXCEPT !.left = left, !.at = "dump"]

\* The upper bound of a partition must not lie after the cutoff.
ListPartitions ==
    /\ PartitionAt("list")
    /\ NextPartition({m \in attached : m + 1 <= now})
    /\ UNCHANGED <<now, data, cleanup>>

\* A preview counts the rows and goes on.
CountRows ==
    /\ PartitionAt("dump")
    /\ partitions.dryRun
    /\ NextPartition(partitions.left \ {Partition})
    /\ UNCHANGED <<now, data, cleanup>>

DumpPartition ==
    /\ PartitionAt("dump")
    /\ ~ partitions.dryRun
    /\ archived' = archived \cup InPartition(Partition)
    /\ partitions' = [partitions EXCEPT !.at = "drop"]
    /\ UNCHANGED <<now, stamp, state, late, attached, cleanup>>

DropPartition ==
    /\ PartitionAt("drop")
    /\ attached' = attached \ {Partition}
    /\ state' = [r \in Row |-> IF r \in InPartition(Partition) THEN "cleaned"
                               ELSE state[r]]
    /\ NextPartition(partitions.left \ {Partition})
    /\ UNCHANGED <<now, stamp, late, archived, cleanup>>

\* A dump or a drop that fails leaves its partition and goes on with the next.
PartitionFails ==
    /\ PartitionAt("dump") \/ PartitionAt("drop")
    /\ ~ partitions.dryRun
    /\ NextPartition(partitions.left \ {Partition})
    /\ UNCHANGED <<now, data, cleanup>>

\* A list or a count that fails ends the job.
PartitionsFail ==
    /\ PartitionAt("list") \/ PartitionAt("dump")
    /\ partitions' = [IdlePartitions EXCEPT !.status = "failed"]
    /\ UNCHANGED <<now, data, cleanup>>

-----------------------------------------------------------------------------
(* The rest of the system. *)

\* ControlLogsService.create: dated by the client, as far back as it likes.
CreateLog(r, m) ==
    /\ r \notin Locations
    /\ state[r] = "absent"
    /\ state' = [state EXCEPT ![r] = "kept"]
    /\ stamp' = [stamp EXCEPT ![r] = m]
    /\ late' = late \cup {r}
    /\ UNCHANGED <<now, archived, attached, cleanup, partitions>>

\* DevicesService.updateLocation: dated at this moment.
UpdateLocation(r) ==
    /\ r \in Locations
    /\ state[r] = "absent"
    /\ state' = [state EXCEPT ![r] = "kept"]
    /\ stamp' = [stamp EXCEPT ![r] = Recent]
    /\ UNCHANGED <<now, late, archived, attached, cleanup, partitions>>

\* A row is written again under its date: reaggregateDay replaces statistics,
\* the id of an employee changes in its logs.
Rewrite(r) ==
    /\ r \in Kept \ Locations
    /\ late' = late \cup {r}
    /\ archived' = archived \ {r}
    /\ UNCHANGED <<now, stamp, state, attached, cleanup, partitions>>

\* DevicesService.remove deletes the logs and locations of the device: there is
\* nothing left of them to keep track of.
RemoveDevice(S) ==
    /\ S # {}
    /\ state' = [r \in Row |-> IF r \in S THEN "removed" ELSE state[r]]
    /\ stamp' = [r \in Row |-> IF r \in S THEN 0 ELSE stamp[r]]
    /\ late' = late \ S
    /\ archived' = archived \ S
    /\ UNCHANGED <<now, attached, cleanup, partitions>>

MonthPasses ==
    /\ now < MaxNow
    /\ now' = now + 1
    /\ UNCHANGED <<data, cleanup, partitions>>

\* A restart forgets both jobs; psql and pg_dump die with the pipe.
Restart ==
    /\ ~ Idle
    /\ cleanup' = IdleCleanup
    /\ partitions' = IdlePartitions
    /\ UNCHANGED <<now, data>>

CleanupStep ==
    CountExpired \/ CopyRows \/ WriteManifest \/ DeleteBatch \/ CleanupFails

PartitionStep ==
    \/ ListPartitions \/ CountRows \/ DumpPartition \/ DropPartition
    \/ PartitionFails \/ PartitionsFail

Next ==
    \/ \E dryRun \in BOOLEAN : StartArchiveAll(dryRun)
    \/ CleanupStep
    \/ PartitionStep
    \/ \E r \in Row :
          \/ \E m \in Month : CreateLog(r, m)
          \/ UpdateLocation(r)
          \/ Rewrite(r)
    \/ \E S \in SUBSET Kept : RemoveDevice(S)
    \/ MonthPasses
    \/ Restart

\* The queries and the processes a job waits for end, one way or the other.
Fairness == WF_vars(CleanupStep) /\ WF_vars(PartitionStep)

Spec == Init /\ [][Next]_vars /\ Fairness

-----------------------------------------------------------------------------
(* Properties. *)

\* The types; a job that is at a step is running, and one that ended is not, so
\* that the controller's test of the status is a test of the job.
TypeOK ==
    /\ now \in 1..MaxNow
    /\ stamp \in [Row -> Month]
    /\ state \in [Row -> {"absent", "kept", "removed", "cleaned"}]
    /\ late \subseteq Row
    /\ archived \subseteq Row
    /\ attached \subseteq Month
    /\ cleanup \in CleanupType
    /\ partitions \in PartitionType
    /\ cleanup.status = "running" <=> cleanup.at # "end"
    /\ partitions.status = "running" <=> partitions.at # "end"

\* The cleanup deletes a row only if an archive holds it as it was, whatever
\* fails, restarts, ages or is written meanwhile; except for a row that was
\* written after its table was copied.  A partition is dropped only with all its
\* rows dumped: nothing is written to a month that has expired, and a dump that
\* failed is not followed by a drop.
CleanedIsArchived ==
    \A r \in Row : state[r] = "cleaned" => r \in archived \cup (late \ Locations)

\* A cleanup that is past the copy of a table takes all its expired rows, in as
\* many batches as it needs, or reports that it failed.
ExpiredIsCleaned ==
    \A r \in Row \ Locations :
        (At("delete") /\ r \in Expired(cleanup.cutoff))
            ~> (r \notin Kept \/ cleanup.status \in {"failed", "idle"})

\* A job that runs ends, so that another can be started.
JobsEnd ==
    /\ cleanup.status = "running" ~> cleanup.status # "running"
    /\ partitions.status = "running" ~> partitions.status # "running"
================================================================================
