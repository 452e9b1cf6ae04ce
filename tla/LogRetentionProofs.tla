-------------------------- MODULE LogRetentionProofs --------------------------
(***************************************************************************)
(* The archiving of old data, for any tables, rows, batch size and number   *)
(* of months: what a cleanup or a partition job deletes has been archived.  *)
(***************************************************************************)
EXTENDS LogRetention, WellFoundedInduction, TLAPS

LEMMA LeastMonth ==
    ASSUME NEW S \in SUBSET Nat, S # {}
    PROVE  \E m \in S : \A n \in S : m <= n
<1> DEFINE R == OpToRel(<, Nat)
<1>1. IsWellFoundedOn(R, Nat)
    BY NatLessThanWellFounded
<1>2. \A x, y \in Nat : y < x => <<y, x>> \in R
    BY DEF OpToRel
<1> HIDE DEF R
<1>3. PICK m \in S : \A y \in S : <<y, m>> \notin R
    BY <1>1, WFMin
<1>4. \A n \in S : ~ (n < m)
    BY <1>2, <1>3
<1> QED BY <1>4

-----------------------------------------------------------------------------
(* Types.                                                                   *)

LEMMA TablesInOrder ==
    ASSUME RetentionAssumption
    PROVE  /\ Len(Order) \in Nat \ {0} /\ DOMAIN Order = 1..Len(Order)
           /\ \A i \in DOMAIN Order : Order[i] # "device_locations"
BY DEF RetentionAssumption, Tables

\* What a job is when nothing of it runs, in whatever way it ended.
LEMMA IdleTyped ==
    ASSUME RetentionAssumption, NEW status \in JobStatus, NEW dryRun \in BOOLEAN
    PROVE  /\ [IdleCleanup EXCEPT !.status = status] \in CleanupType
           /\ [IdlePartitions EXCEPT !.status = status] \in PartitionType
           /\ [IdleCleanup EXCEPT !.status = status, !.dryRun = dryRun, !.at = "count"]
                  \in CleanupType
           /\ [IdlePartitions EXCEPT !.status = status, !.dryRun = dryRun, !.at = "list"]
                  \in PartitionType
<1>1. 1 \in DOMAIN Order /\ 0 \in Month
    BY TablesInOrder DEF Month, RetentionAssumption
<1> QED BY <1>1 DEF IdleCleanup, IdlePartitions, CleanupType, PartitionType

\* The two jobs, apart from the rows.
CleanupTyped ==
    cleanup \in CleanupType /\ (cleanup.status = "running" <=> cleanup.at # "end")

PartitionsTyped ==
    /\ partitions \in PartitionType
    /\ partitions.status = "running" <=> partitions.at # "end"

RowsTyped ==
    /\ now \in 1..MaxNow
    /\ stamp \in [Row -> Month]
    /\ state \in [Row -> {"absent", "kept", "removed", "cleaned"}]
    /\ late \subseteq Row
    /\ archived \subseteq Row
    /\ attached \subseteq Month

LEMMA TypesSplit == TypeOK <=> RowsTyped /\ CleanupTyped /\ PartitionsTyped
BY DEF TypeOK, RowsTyped, CleanupTyped, PartitionsTyped

LEMMA CleanupEnds ==
    ASSUME RetentionAssumption, NEW status \in JobStatus \ {"running"}, Finish(status)
    PROVE  CleanupTyped'
<1>1. cleanup' = [IdleCleanup EXCEPT !.status = status]
    BY DEF Finish
<1>2. cleanup' \in CleanupType
    BY <1>1, IdleTyped
<1>3. cleanup'.status = status /\ cleanup'.at = "end"
    BY <1>1 DEF IdleCleanup
<1> QED BY <1>2, <1>3 DEF CleanupTyped

LEMMA NextTableTyped ==
    ASSUME RetentionAssumption, CleanupTyped, cleanup.status = "running", NextTable
    PROVE  CleanupTyped'
<1>1. CASE cleanup.table = Len(Order)
    BY <1>1, CleanupEnds DEF NextTable, JobStatus
<1>2. CASE cleanup.table # Len(Order)
    <2>1. cleanup' = [cleanup EXCEPT !.at = "count", !.table = @ + 1, !.cutoff = 0]
        BY <1>2 DEF NextTable
    <2>2. cleanup.table + 1 \in DOMAIN Order /\ 0 \in Month
        BY <1>2, TablesInOrder DEF CleanupTyped, CleanupType, Month, RetentionAssumption
    <2>3. cleanup' \in CleanupType
        BY <2>1, <2>2 DEF CleanupTyped, CleanupType
    <2>4. cleanup'.status = "running" /\ cleanup'.at = "count"
        BY <2>1 DEF CleanupTyped, CleanupType
    <2> QED BY <2>3, <2>4 DEF CleanupTyped
<1> QED BY <1>1, <1>2

LEMMA NextPartitionTyped ==
    ASSUME RetentionAssumption, PartitionsTyped, partitions.status = "running",
           NEW left \in SUBSET Month, NextPartition(left)
    PROVE  PartitionsTyped'
<1>1. CASE left = {}
    <2>1. partitions' = [IdlePartitions EXCEPT !.status = "completed"]
        BY <1>1 DEF NextPartition
    <2>2. partitions' \in PartitionType
        BY <2>1, IdleTyped DEF JobStatus
    <2>3. partitions'.status = "completed" /\ partitions'.at = "end"
        BY <2>1 DEF IdlePartitions
    <2> QED BY <2>2, <2>3 DEF PartitionsTyped
<1>2. CASE left # {}
    <2>1. partitions' = [partitions EXCEPT !.left = left, !.at = "dump"]
        BY <1>2 DEF NextPartition
    <2>2. partitions' \in PartitionType
        BY <2>1 DEF PartitionsTyped, PartitionType
    <2>3. partitions'.status = "running" /\ partitions'.at = "dump"
        BY <2>1 DEF PartitionsTyped, PartitionType
    <2> QED BY <2>2, <2>3 DEF PartitionsTyped
<1> QED BY <1>1, <1>2

LEMMA MonthsAre ==
    ASSUME RetentionAssumption, RowsTyped
    PROVE  now \in Month /\ 0 \in Month /\ Recent \in Month /\ Month \subseteq Nat
BY DEF Month, Recent, RowsTyped, RetentionAssumption

LEMMA CleanupStepTyped ==
    ASSUME RetentionAssumption, TypeOK, CleanupStep
    PROVE  TypeOK'
<1>1. RowsTyped /\ CleanupTyped /\ PartitionsTyped
    BY TypesSplit
<1>2. CASE CountExpired
    <2>1. At("count") /\ RowsTyped' /\ PartitionsTyped'
        BY <1>1, <1>2 DEF CountExpired, data, RowsTyped, PartitionsTyped
    <2>2. CleanupTyped'
        <3>1. CASE NextTable
            BY <1>1, <2>1, <3>1, NextTableTyped DEF At
        <3>2. CASE cleanup' = [cleanup EXCEPT !.at = "copy", !.cutoff = now]
            BY <1>1, <2>1, <3>2, MonthsAre DEF CleanupTyped, CleanupType, At
        <3> QED BY <1>2, <3>1, <3>2 DEF CountExpired
    <2> QED BY <2>1, <2>2 DEF TypeOK, RowsTyped, CleanupTyped, PartitionsTyped
<1>3. CASE CopyRows
    <2>1. At("copy") /\ RowsTyped' /\ PartitionsTyped'
        BY <1>1, <1>3 DEF CopyRows, RowsTyped, PartitionsTyped
    <2>2. CleanupTyped'
        <3> DEFINE rows == Expired(cleanup.cutoff)
        <3>1. rows \subseteq Row
            BY DEF Expired, Kept
        <3>2. cleanup' = [cleanup EXCEPT !.at = "manifest", !.copied = rows]
            BY <1>3 DEF CopyRows
        <3> HIDE DEF rows
        <3> QED BY <1>1, <2>1, <3>1, <3>2 DEF CleanupTyped, CleanupType, At
    <2> QED BY <2>1, <2>2 DEF TypeOK, RowsTyped, CleanupTyped, PartitionsTyped
<1>4. CASE WriteManifest
    <2>1. At("manifest") /\ RowsTyped' /\ PartitionsTyped'
        BY <1>1, <1>4 DEF WriteManifest, RowsTyped, PartitionsTyped, CleanupTyped, CleanupType
    <2>2. CleanupTyped'
        BY <1>1, <1>4 DEF WriteManifest, CleanupTyped, CleanupType, At
    <2> QED BY <2>1, <2>2 DEF TypeOK, RowsTyped, CleanupTyped, PartitionsTyped
<1>5. CASE DeleteBatch
    <2>1. At("delete") /\ RowsTyped' /\ PartitionsTyped'
        BY <1>1, <1>5 DEF DeleteBatch, RowsTyped, PartitionsTyped
    <2>2. NextTable \/ UNCHANGED cleanup
        BY <1>5 DEF DeleteBatch
    <2>3. CleanupTyped'
        BY <1>1, <2>1, <2>2, NextTableTyped DEF At, CleanupTyped
    <2> QED BY <2>1, <2>3 DEF TypeOK, RowsTyped, CleanupTyped, PartitionsTyped
<1>6. CASE CleanupFails
    <2>1. RowsTyped' /\ PartitionsTyped'
        BY <1>1, <1>6 DEF CleanupFails, data, RowsTyped, PartitionsTyped
    <2>2. CleanupTyped'
        BY <1>6, CleanupEnds DEF CleanupFails, JobStatus
    <2> QED BY <2>1, <2>2 DEF TypeOK, RowsTyped, CleanupTyped, PartitionsTyped
<1> QED BY <1>2, <1>3, <1>4, <1>5, <1>6 DEF CleanupStep

LEMMA PartitionStepTyped ==
    ASSUME RetentionAssumption, TypeOK, PartitionStep
    PROVE  TypeOK'
<1>1. RowsTyped /\ CleanupTyped /\ PartitionsTyped
    BY TypesSplit
<1>2. partitions.status = "running" /\ CleanupTyped'
    BY <1>1 DEF PartitionStep, ListPartitions, CountRows, DumpPartition, DropPartition,
                PartitionFails, PartitionsFail, PartitionAt, CleanupTyped
<1>3. RowsTyped'
    BY <1>1 DEF PartitionStep, ListPartitions, CountRows, DumpPartition, DropPartition,
                PartitionFails, PartitionsFail, RowsTyped, data, InPartition, Kept
<1>4. PartitionsTyped'
    <2>1. CASE ListPartitions
        <3> DEFINE left == {m \in attached : m + 1 <= now}
        <3>1. left \subseteq Month /\ NextPartition(left)
            BY <1>1, <2>1 DEF ListPartitions, RowsTyped
        <3> HIDE DEF left
        <3> QED BY <1>1, <1>2, <3>1, NextPartitionTyped
    <2>2. CASE CountRows \/ DropPartition \/ PartitionFails
        <3> DEFINE left == partitions.left \ {Partition}
        <3>1. left \subseteq Month /\ NextPartition(left)
            BY <1>1, <2>2 DEF CountRows, DropPartition, PartitionFails, PartitionsTyped,
                              PartitionType
        <3> HIDE DEF left
        <3> QED BY <1>1, <1>2, <3>1, NextPartitionTyped
    <2>3. CASE DumpPartition
        BY <1>1, <1>2, <2>3 DEF DumpPartition, PartitionsTyped, PartitionType
    <2>4. CASE PartitionsFail
        <3>1. partitions' = [IdlePartitions EXCEPT !.status = "failed"]
            BY <2>4 DEF PartitionsFail
        <3>2. partitions' \in PartitionType
            BY <3>1, IdleTyped DEF JobStatus
        <3>3. partitions'.status = "failed" /\ partitions'.at = "end"
            BY <3>1 DEF IdlePartitions
        <3> QED BY <3>2, <3>3 DEF PartitionsTyped
    <2> QED BY <2>1, <2>2, <2>3, <2>4 DEF PartitionStep
<1> QED BY <1>2, <1>3, <1>4 DEF TypeOK, RowsTyped, CleanupTyped, PartitionsTyped

LEMMA StartTyped ==
    ASSUME RetentionAssumption, TypeOK, NEW dryRun \in BOOLEAN, StartArchiveAll(dryRun)
    PROVE  TypeOK'
<1>1. RowsTyped'
    BY TypesSplit DEF StartArchiveAll, RowsTyped, data
<1>2. /\ cleanup' = [IdleCleanup EXCEPT !.status = "running", !.dryRun = dryRun, !.at = "count"]
      /\ partitions' = [IdlePartitions EXCEPT !.status = "running", !.dryRun = dryRun,
                                              !.at = "list"]
    BY DEF StartArchiveAll
<1>3. cleanup' \in CleanupType /\ partitions' \in PartitionType
    BY <1>2, IdleTyped DEF JobStatus
<1>4. /\ cleanup'.status = "running" /\ cleanup'.at = "count"
      /\ partitions'.status = "running" /\ partitions'.at = "list"
    BY <1>2 DEF IdleCleanup, IdlePartitions
<1> QED BY <1>1, <1>3, <1>4 DEF TypeOK, RowsTyped

LEMMA RestartTyped ==
    ASSUME RetentionAssumption, TypeOK, Restart
    PROVE  TypeOK'
<1>1. RowsTyped'
    BY TypesSplit DEF Restart, RowsTyped, data
<1>2. cleanup' = IdleCleanup /\ partitions' = IdlePartitions
    BY DEF Restart
<1>3. IdleCleanup \in CleanupType /\ IdlePartitions \in PartitionType
    <2>1. 1 \in DOMAIN Order /\ 0 \in Month
        BY TablesInOrder DEF Month, RetentionAssumption
    <2> QED BY <2>1 DEF IdleCleanup, IdlePartitions, CleanupType, PartitionType, JobStatus
<1>4. /\ IdleCleanup.status = "idle" /\ IdleCleanup.at = "end"
      /\ IdlePartitions.status = "idle" /\ IdlePartitions.at = "end"
    BY DEF IdleCleanup, IdlePartitions
<1> QED BY <1>1, <1>2, <1>3, <1>4 DEF TypeOK, RowsTyped

\* What the services and the clock do.
ElsewhereStep ==
    \/ \E r \in Row : \/ \E m \in Month : CreateLog(r, m)
                      \/ UpdateLocation(r)
                      \/ Rewrite(r)
    \/ \E S \in SUBSET Kept : RemoveDevice(S)
    \/ MonthPasses

LEMMA ElsewhereTyped ==
    ASSUME RetentionAssumption, TypeOK, ElsewhereStep
    PROVE  TypeOK'
<1>1. RowsTyped /\ 0 \in Month /\ Recent \in Month
    BY TypesSplit, MonthsAre
<1>2. cleanup' = cleanup /\ partitions' = partitions
    BY DEF ElsewhereStep, CreateLog, UpdateLocation, Rewrite, RemoveDevice, MonthPasses
<1>3. RowsTyped'
    <2>1. CASE \E r \in Row : \/ \E m \in Month : CreateLog(r, m)
                              \/ UpdateLocation(r) \/ Rewrite(r)
        BY <1>1, <2>1 DEF CreateLog, UpdateLocation, Rewrite, RowsTyped
    <2>2. CASE \E S \in SUBSET Kept : RemoveDevice(S)
        BY <1>1, <2>2 DEF RemoveDevice, RowsTyped
    <2>3. CASE MonthPasses
        BY <1>1, <2>3 DEF MonthPasses, RowsTyped, data, RetentionAssumption
    <2> QED BY <2>1, <2>2, <2>3 DEF ElsewhereStep
<1> QED BY <1>2, <1>3 DEF TypeOK, RowsTyped

LEMMA NextIsOneOf ==
    Next <=> \/ \E dryRun \in BOOLEAN : StartArchiveAll(dryRun)
             \/ CleanupStep \/ PartitionStep \/ ElsewhereStep \/ Restart
BY Zenon DEF Next, ElsewhereStep

LEMMA TypesInit ==
    ASSUME RetentionAssumption, Init
    PROVE  TypeOK
<1>1. RowsTyped
    BY DEF Init, RowsTyped, Month, RetentionAssumption
<1>2. IdleCleanup \in CleanupType /\ IdlePartitions \in PartitionType
    <2>1. 1 \in DOMAIN Order /\ 0 \in Month
        BY TablesInOrder DEF Month, RetentionAssumption
    <2> QED BY <2>1 DEF IdleCleanup, IdlePartitions, CleanupType, PartitionType, JobStatus
<1> QED BY <1>1, <1>2 DEF Init, TypeOK, RowsTyped, IdleCleanup, IdlePartitions

LEMMA TypesNext ==
    ASSUME RetentionAssumption, TypeOK, [Next]_vars
    PROVE  TypeOK'
<1>1. CASE UNCHANGED vars
    BY <1>1 DEF vars, data, TypeOK
<1>2. CASE Next
    BY <1>2, NextIsOneOf, StartTyped, CleanupStepTyped, PartitionStepTyped, ElsewhereTyped,
       RestartTyped
<1> QED BY <1>1, <1>2

\* Rows, files and jobs keep their types, and the status of a job, by which the
\* controller decides whether another may start, says whether it is at a step.
THEOREM RetentionTypes == ASSUME RetentionAssumption PROVE Spec => []TypeOK
<1>1. Init => TypeOK
    BY TypesInit
<1>2. TypeOK /\ [Next]_vars => TypeOK'
    BY TypesNext
<1> QED BY <1>1, <1>2, PTL DEF Spec

-----------------------------------------------------------------------------
(* What is deleted has been archived.                                       *)

\* Past the copy, an expired row is in the copy or was written after it; past
\* the manifest, in an archive or written after the copy.  A partition that is
\* to be dropped lies in the past, and has been dumped as it is.
JobsSafe ==
    /\ cleanup.at = "manifest" =>
           \A r \in Expired(cleanup.cutoff) : r \in cleanup.copied \cup late
    /\ cleanup.at = "delete" =>
           \A r \in Expired(cleanup.cutoff) : r \in archived \cup late
    /\ partitions.at \in {"dump", "drop"} =>
           partitions.left # {} /\ \A m \in partitions.left : m < now
    /\ partitions.at = "drop" => InPartition(Partition) \subseteq archived

\* Locations are never rewritten, so that none is late.
Archiving == TypeOK /\ CleanedIsArchived /\ JobsSafe /\ late \cap Locations = {}

\* The partition a job is at is one of those left, and no new location falls in it.
LEMMA PartitionIsLeft ==
    ASSUME Archiving, partitions.at \in {"dump", "drop"}
    PROVE  Partition \in partitions.left /\ Partition < now
<1>1. partitions.left \subseteq Nat
    BY DEF Archiving, TypeOK, PartitionType, Month
<1>2. partitions.left # {}
    BY DEF Archiving, JobsSafe
<1>3. \E m \in partitions.left : \A n \in partitions.left : m <= n
    BY <1>1, <1>2, LeastMonth
<1>4. Partition \in partitions.left
    BY <1>3 DEF Partition
<1> QED BY <1>4 DEF Archiving, JobsSafe

\* The rows a cleanup can take are none of device_locations.
LEMMA ExpiredAreOthers ==
    ASSUME RetentionAssumption, Archiving, NEW cutoff
    PROVE  Expired(cutoff) \cap Locations = {} /\ Expired(cutoff) \subseteq Kept
<1>1. cleanup.table \in DOMAIN Order
    BY DEF Archiving, TypeOK, CleanupType
<1>2. Current # "device_locations"
    BY <1>1, TablesInOrder DEF Current
<1> QED BY <1>2 DEF Expired, Locations

\* The steps of the cleanup.
LEMMA CleanupArchives ==
    ASSUME RetentionAssumption, Archiving, CleanupStep
    PROVE  Archiving'
<1>1. TypeOK /\ TypeOK'
    BY CleanupStepTyped DEF Archiving
<1>2. CASE CountExpired \/ CleanupFails
    <2>1. /\ now' = now /\ stamp' = stamp /\ state' = state /\ late' = late
          /\ archived' = archived /\ partitions' = partitions
        BY <1>2 DEF CountExpired, CleanupFails, data
    <2>2. cleanup'.at \in {"end", "count", "copy"}
        BY <1>1, <1>2 DEF CountExpired, CleanupFails, NextTable, Finish, IdleCleanup, TypeOK,
                          CleanupType
    <2>3. JobsSafe'
        BY <2>1, <2>2 DEF Archiving, JobsSafe, InPartition, Partition, Kept
    <2> QED BY <1>1, <2>1, <2>3 DEF Archiving, CleanedIsArchived
<1>3. CASE CopyRows
    <2> DEFINE rows == Expired(cleanup.cutoff)
    <2>1. /\ now' = now /\ stamp' = stamp /\ state' = state /\ archived' = archived
          /\ partitions' = partitions
          /\ cleanup' = [cleanup EXCEPT !.at = "manifest", !.copied = rows]
          /\ late' = {r \in late : r \in Kept => TableOf[r] # Current}
        BY <1>3 DEF CopyRows
    <2>2. /\ cleanup'.at = "manifest" /\ cleanup'.copied = rows
          /\ cleanup'.cutoff = cleanup.cutoff /\ cleanup'.table = cleanup.table
        BY <1>1, <2>1 DEF TypeOK, CleanupType
    <2>3. \A r \in Expired(cleanup.cutoff)' : r \in rows
        BY <2>1, <2>2 DEF Expired, Kept, Current
    <2>4. CleanedIsArchived'
        <3>1. \A r \in Row : state[r] = "cleaned" => r \notin Kept
            BY DEF Kept
        <3> QED BY <2>1, <3>1, <1>1 DEF Archiving, CleanedIsArchived, TypeOK
    <2>5. JobsSafe'
        BY <2>1, <2>2, <2>3 DEF Archiving, JobsSafe, InPartition, Partition, Kept
    <2> QED BY <1>1, <2>1, <2>4, <2>5 DEF Archiving
<1>4. CASE WriteManifest
    <2>1. /\ now' = now /\ stamp' = stamp /\ state' = state /\ late' = late
          /\ partitions' = partitions /\ archived' = archived \cup (cleanup.copied \ late)
          /\ cleanup' = [cleanup EXCEPT !.at = "delete", !.copied = {}]
          /\ cleanup.at = "manifest"
        BY <1>4 DEF WriteManifest, At
    <2>2. /\ cleanup'.at = "delete"
          /\ cleanup'.cutoff = cleanup.cutoff /\ cleanup'.table = cleanup.table
        BY <1>1, <2>1 DEF TypeOK, CleanupType
    <2>3. \A r \in Expired(cleanup.cutoff)' : r \in Expired(cleanup.cutoff)
        BY <2>1, <2>2 DEF Expired, Kept, Current
    <2>4. CleanedIsArchived'
        BY <2>1 DEF Archiving, CleanedIsArchived
    <2>5. JobsSafe'
        BY <2>1, <2>2, <2>3 DEF Archiving, JobsSafe, InPartition, Partition, Kept
    <2> QED BY <1>1, <2>1, <2>4, <2>5 DEF Archiving
<1>5. CASE DeleteBatch
    <2>1. PICK S \in Batches(Expired(cleanup.cutoff)) :
              /\ state' = [r \in Row |-> IF r \in S THEN "cleaned" ELSE state[r]]
              /\ NextTable \/ UNCHANGED cleanup
        BY <1>5 DEF DeleteBatch
    <2>2. /\ now' = now /\ stamp' = stamp /\ late' = late /\ archived' = archived
          /\ partitions' = partitions /\ cleanup.at = "delete"
        BY <1>5 DEF DeleteBatch, At
    <2>3. S \subseteq Expired(cleanup.cutoff)
        BY DEF Batches
    <2>4. \A r \in S : r \in archived \cup (late \ Locations)
        BY <2>2, <2>3, ExpiredAreOthers DEF Archiving, JobsSafe
    <2>5. CleanedIsArchived'
        BY <2>1, <2>2, <2>4 DEF Archiving, CleanedIsArchived
    <2>6. Kept' \subseteq Kept
        BY <2>1 DEF Kept
    <2>7. cleanup'.at \in {"end", "count"} \/ cleanup' = cleanup
        BY <1>1, <2>1 DEF NextTable, Finish, IdleCleanup, TypeOK, CleanupType
    <2>8. JobsSafe'
        <3>1. InPartition(Partition)' \subseteq InPartition(Partition)
            BY <2>2, <2>6 DEF InPartition, Partition
        <3>2. cleanup' = cleanup =>
                  \A r \in Expired(cleanup.cutoff)' : r \in Expired(cleanup.cutoff)
            BY <2>2, <2>6 DEF Expired, Current
        <3> QED BY <2>2, <2>7, <3>1, <3>2 DEF Archiving, JobsSafe
    <2> QED BY <1>1, <2>2, <2>5, <2>8 DEF Archiving
<1> QED BY <1>2, <1>3, <1>4, <1>5 DEF CleanupStep

\* What a cleanup relies on does not depend on the other job.
LEMMA CleanupUndisturbed ==
    ASSUME Archiving, UNCHANGED <<stamp, late, cleanup>>, Kept' \subseteq Kept,
           archived \subseteq archived'
    PROVE  /\ cleanup'.at = "manifest" =>
                  \A r \in Expired(cleanup.cutoff)' : r \in cleanup'.copied \cup late'
           /\ cleanup'.at = "delete" =>
                  \A r \in Expired(cleanup.cutoff)' : r \in archived' \cup late'
<1>1. \A r \in Expired(cleanup.cutoff)' : r \in Expired(cleanup.cutoff)
    BY DEF Expired, Current
<1> QED BY <1>1 DEF Archiving, JobsSafe

LEMMA PartitionsArchive ==
    ASSUME RetentionAssumption, Archiving, PartitionStep
    PROVE  Archiving'
<1>1. TypeOK /\ TypeOK'
    BY PartitionStepTyped DEF Archiving
<1>2. UNCHANGED <<now, stamp, late, cleanup>>
    BY DEF PartitionStep, ListPartitions, CountRows, DumpPartition, DropPartition,
           PartitionFails, PartitionsFail, data
<1>3. CASE ListPartitions \/ CountRows \/ PartitionFails \/ PartitionsFail
    <2>1. state' = state /\ archived' = archived
        BY <1>3 DEF ListPartitions, CountRows, PartitionFails, PartitionsFail, data
    <2>2. /\ partitions'.at \in {"end", "dump"}
          /\ partitions'.at = "dump" =>
                 partitions'.left # {} /\ \A m \in partitions'.left : m < now
        <3>1. CASE ListPartitions
            <4> DEFINE left == {m \in attached : m + 1 <= now}
            <4>1. \A m \in left : m < now
                BY <1>1 DEF TypeOK, Month
            <4>2. NextPartition(left)
                BY <3>1 DEF ListPartitions
            <4> HIDE DEF left
            <4> QED BY <1>1, <4>1, <4>2 DEF NextPartition, IdlePartitions, TypeOK, PartitionType
        <3>2. CASE CountRows \/ PartitionFails
            <4> DEFINE left == partitions.left \ {Partition}
            <4>1. partitions.at \in {"dump", "drop"} /\ NextPartition(left)
                BY <3>2 DEF CountRows, PartitionFails, PartitionAt
            <4>2. \A m \in left : m < now
                BY <4>1 DEF Archiving, JobsSafe
            <4> HIDE DEF left
            <4> QED BY <1>1, <4>1, <4>2 DEF NextPartition, IdlePartitions, TypeOK, PartitionType
        <3>3. CASE PartitionsFail
            BY <3>3 DEF PartitionsFail, IdlePartitions
        <3> QED BY <1>3, <3>1, <3>2, <3>3
    <2>3. Kept' = Kept
        BY <2>1 DEF Kept
    <2>4. JobsSafe'
        BY <1>2, <2>1, <2>2, <2>3, CleanupUndisturbed DEF JobsSafe
    <2> QED BY <1>1, <1>2, <2>1, <2>4 DEF Archiving, CleanedIsArchived
<1>4. CASE DumpPartition
    <2>1. /\ state' = state /\ archived' = archived \cup InPartition(Partition)
          /\ partitions' = [partitions EXCEPT !.at = "drop"] /\ partitions.at = "dump"
        BY <1>4 DEF DumpPartition, PartitionAt
    <2>2. partitions'.at = "drop" /\ partitions'.left = partitions.left
        BY <1>1, <2>1 DEF TypeOK, PartitionType
    <2>3. Kept' = Kept
        BY <2>1 DEF Kept
    <2>4. InPartition(Partition)' = InPartition(Partition)
        BY <1>2, <2>2, <2>3 DEF InPartition, Partition
    <2>5. JobsSafe'
        BY <1>2, <2>1, <2>2, <2>3, <2>4, CleanupUndisturbed DEF Archiving, JobsSafe
    <2> QED BY <1>1, <1>2, <2>1, <2>5 DEF Archiving, CleanedIsArchived
<1>5. CASE DropPartition
    <2> DEFINE left == partitions.left \ {Partition}
               dropped == InPartition(Partition)
    <2>1. /\ state' = [r \in Row |-> IF r \in dropped THEN "cleaned" ELSE state[r]]
          /\ archived' = archived /\ NextPartition(left) /\ partitions.at = "drop"
        BY <1>5 DEF DropPartition, PartitionAt
    <2>2. dropped \subseteq archived /\ \A m \in left : m < now
        BY <2>1 DEF Archiving, JobsSafe
    <2> HIDE DEF left, dropped
    <2>3. /\ partitions'.at \in {"end", "dump"}
          /\ partitions'.at = "dump" =>
                 partitions'.left # {} /\ \A m \in partitions'.left : m < now
        BY <1>1, <2>1, <2>2 DEF NextPartition, IdlePartitions, TypeOK, PartitionType
    <2>4. Kept' \subseteq Kept
        BY <2>1 DEF Kept
    <2>5. CleanedIsArchived'
        BY <1>2, <2>1, <2>2 DEF Archiving, CleanedIsArchived
    <2>6. JobsSafe'
        BY <1>2, <2>1, <2>3, <2>4, CleanupUndisturbed DEF JobsSafe
    <2> QED BY <1>1, <1>2, <2>5, <2>6 DEF Archiving
<1> QED BY <1>3, <1>4, <1>5 DEF PartitionStep

\* What the services do while the jobs run.
LEMMA ElsewhereArchives ==
    ASSUME RetentionAssumption, Archiving, ElsewhereStep
    PROVE  Archiving'
<1>1. TypeOK /\ TypeOK'
    BY ElsewhereTyped DEF Archiving
<1>2. cleanup' = cleanup /\ partitions' = partitions
    BY DEF ElsewhereStep, CreateLog, UpdateLocation, Rewrite, RemoveDevice, MonthPasses
<1>3. /\ late' \cap Locations = {} /\ CleanedIsArchived'
      /\ \A r \in Kept' : r \in late' \/ (r \in Kept /\ stamp'[r] = stamp[r] /\ r \notin late)
                              \/ (r \in Locations /\ stamp'[r] = Recent /\ state[r] = "absent")
      /\ \A r \in Kept' : r \in archived /\ r \notin late' => r \in archived'
    <2>1. CASE \E r \in Row, m \in Month : CreateLog(r, m)
        BY <1>1, <2>1 DEF CreateLog, Archiving, CleanedIsArchived, Kept, TypeOK
    <2>2. CASE \E r \in Row : UpdateLocation(r)
        BY <1>1, <2>2 DEF UpdateLocation, Archiving, CleanedIsArchived, Kept, TypeOK
    <2>3. CASE \E r \in Row : Rewrite(r)
        BY <1>1, <2>3 DEF Rewrite, Archiving, CleanedIsArchived, Kept, TypeOK
    <2>4. CASE \E S \in SUBSET Kept : RemoveDevice(S)
        BY <1>1, <2>4 DEF RemoveDevice, Archiving, CleanedIsArchived, Kept, TypeOK
    <2>5. CASE MonthPasses
        BY <1>1, <2>5 DEF MonthPasses, data, Archiving, CleanedIsArchived, Kept, TypeOK
    <2> QED BY <2>1, <2>2, <2>3, <2>4, <2>5 DEF ElsewhereStep
<1>4. \A r \in Expired(cleanup.cutoff)' : r \in late' \/ r \in Expired(cleanup.cutoff)
    <2> SUFFICES ASSUME NEW r \in Expired(cleanup.cutoff)', r \notin late'
                 PROVE  r \in Expired(cleanup.cutoff)
        OBVIOUS
    <2>1. r \in Kept' /\ TableOf[r] = Current /\ stamp'[r] < cleanup.cutoff
        BY <1>2 DEF Expired, Current
    <2>2. r \notin Locations
        <3>1. Current # "device_locations"
            BY <1>1, TablesInOrder DEF Current, TypeOK, CleanupType
        <3> QED BY <2>1, <3>1 DEF Locations
    <2>3. r \in Kept /\ stamp'[r] = stamp[r]
        BY <1>3, <2>1, <2>2
    <2> QED BY <2>1, <2>3 DEF Expired
<1>5. now <= now' /\ now \in Nat /\ now' \in Nat
    BY <1>1 DEF ElsewhereStep, CreateLog, UpdateLocation, Rewrite, RemoveDevice, MonthPasses,
                TypeOK
<1>6. partitions.at \in {"dump", "drop"} =>
          partitions'.left # {} /\ \A m \in partitions'.left : m < now'
    BY <1>1, <1>2, <1>5 DEF Archiving, JobsSafe, TypeOK, PartitionType, Month
<1>7. partitions.at = "drop" => InPartition(Partition)' \subseteq archived'
    <2> SUFFICES ASSUME partitions.at = "drop", NEW r \in InPartition(Partition)'
                 PROVE  r \in archived'
        OBVIOUS
    <2>1. r \in Kept' /\ r \in Locations /\ stamp'[r] = Partition
        BY <1>2 DEF InPartition, Partition
    <2>2. Partition < Recent
        <3>1. Partition \in Nat /\ Partition < now
            BY <1>1, PartitionIsLeft DEF TypeOK, PartitionType, Month
        <3> QED BY <1>1, <3>1 DEF TypeOK, Recent, RetentionAssumption
    <2>3. r \in Kept /\ stamp'[r] = stamp[r] /\ r \notin late'
        <3>1. Recent \in Nat /\ Partition \in Nat
            BY <1>1, PartitionIsLeft DEF TypeOK, PartitionType, Month, Recent,
                                         RetentionAssumption
        <3> QED BY <1>3, <2>1, <2>2, <3>1
    <2>4. r \in archived
        BY <2>1, <2>3 DEF Archiving, JobsSafe, InPartition
    <2> QED BY <1>3, <2>1, <2>3, <2>4
<1>8. JobsSafe'
    BY <1>2, <1>3, <1>4, <1>6, <1>7 DEF Archiving, JobsSafe, Expired
<1> QED BY <1>1, <1>3, <1>8 DEF Archiving

\* A job that starts, and a restart, have nothing to rely on.
LEMMA NoJobArchives ==
    ASSUME RetentionAssumption, Archiving,
           Restart \/ \E dryRun \in BOOLEAN : StartArchiveAll(dryRun)
    PROVE  Archiving'
<1>1. TypeOK'
    BY StartTyped, RestartTyped DEF Archiving
<1>2. /\ cleanup'.at \in {"end", "count"} /\ partitions'.at \in {"end", "list"}
      /\ UNCHANGED <<now, data>>
    <2>1. CASE Restart
        BY <2>1 DEF Restart, IdleCleanup, IdlePartitions, data
    <2>2. CASE \E dryRun \in BOOLEAN : StartArchiveAll(dryRun)
        <3>1. PICK dryRun \in BOOLEAN : StartArchiveAll(dryRun)
            BY <2>2
        <3>2. /\ cleanup'.at = "count" /\ partitions'.at = "list"
              /\ UNCHANGED <<now, data>>
            BY <3>1 DEF StartArchiveAll, IdleCleanup, IdlePartitions
        <3> QED BY <3>2
    <2> QED BY <2>1, <2>2
<1> QED BY <1>1, <1>2 DEF Archiving, CleanedIsArchived, JobsSafe, data

LEMMA ArchivingNext ==
    ASSUME RetentionAssumption, Archiving, [Next]_vars
    PROVE  Archiving'
<1>1. CASE UNCHANGED vars
    BY <1>1 DEF vars, data, Archiving, TypeOK, CleanedIsArchived, JobsSafe, Expired, Current,
                InPartition, Partition, Kept
<1>2. CASE Next
    BY <1>2, NextIsOneOf, NoJobArchives, CleanupArchives, PartitionsArchive, ElsewhereArchives
<1> QED BY <1>1, <1>2

\* Whatever fails, restarts, ages or is written meanwhile, a cleanup deletes only
\* rows that an archive holds as they were, or that were written after the copy,
\* and a partition is dropped only with all its rows dumped.
THEOREM DeletedIsArchived == ASSUME RetentionAssumption PROVE Spec => []CleanedIsArchived
<1>1. Init => Archiving
    <2> SUFFICES ASSUME Init PROVE Archiving
        OBVIOUS
    <2>1. TypeOK
        BY TypesInit
    <2> QED BY <2>1 DEF Init, Archiving, CleanedIsArchived, JobsSafe, IdleCleanup, IdlePartitions
<1>2. Archiving /\ [Next]_vars => Archiving'
    BY ArchivingNext
<1>3. Archiving => CleanedIsArchived
    BY DEF Archiving
<1> QED BY <1>1, <1>2, <1>3, PTL DEF Spec
===============================================================================
