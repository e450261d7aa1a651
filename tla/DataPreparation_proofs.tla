----------------------- MODULE DataPreparation_proofs -----------------------
(***************************************************************************)
(* Proofs about DataPreparation, for every set of requirements, periods    *)
(* and windows, and any number of faults.                                  *)
(***************************************************************************)
EXTENDS DataPreparation, FiniteSetTheorems, WellFoundedInduction, TLAPS

(* A call that is inside a step is at one of the four.                     *)
InAStep == at # "begin" => stage \in 1 .. 4

InAGroup == {"source", "parquet", "manifest", "partition"}

(* The month being normalised was acquired.                                *)
GroupAtHand == at \in InAGroup => month \in Acquired

TypeInv == TypeOK /\ InAStep /\ GroupAtHand

-----------------------------------------------------------------------------
(* A non-empty set of periods has a first one (the order in which groups   *)
(* and fetched objects are taken).                                         *)
LEMMA FirstIsMember ==
  ASSUME NEW S \in SUBSET Nat, S # {}
  PROVE  FirstOf(S) \in S /\ \A n \in S : FirstOf(S) <= n
<1> DEFINE Less == {p \in Nat \X Nat : p[1] < p[2]}
<1>1. IsWellFoundedOn(Less, Nat)
  BY NatLessThanWellFounded, Zenon DEF OpToRel
<1>2. PICK x \in S : \A y \in S : <<y, x>> \notin Less
  <2> HIDE DEF Less
  <2> QED
    BY <1>1, WFMin
<1>3. \A y \in S : x <= y
  <2> TAKE y \in S
  <2>1. <<y, x>> \in Nat \X Nat
    OBVIOUS
  <2>2. ~(<<y, x>>[1] < <<y, x>>[2])
    BY <1>2, <2>1
  <2> QED
    BY <2>2
<1> QED
  BY <1>3 DEF FirstOf

LEMMA FirstMonth ==
  ASSUME NEW S \in SUBSET Months, S # {}
  PROVE  FirstOf(S) \in S
<1>1. S \in SUBSET Nat
  BY NeedAssumption
<1> QED
  BY <1>1, FirstIsMember

LEMMA TypeInvInit == Init => TypeInv
<1> SUFFICES ASSUME Init PROVE TypeInv
  OBVIOUS
<1> USE NoneAssumption, MaxFaultsAssumption, NeedAssumption DEF Init
<1>1. Fresh \in JobRecords
  BY DEF Fresh, JobRecords, Statuses
<1>2. [Fresh EXCEPT !.status = "none"] \in JobRecords
  BY DEF Fresh, JobRecords, Statuses
<1>3. TypeOK
  BY <1>1, <1>2 DEF TypeOK, Places, NoWork
<1> QED
  BY <1>3 DEF TypeInv, InAStep, GroupAtHand, InAGroup

LEMMA FreshIsRecord == Fresh \in JobRecords
BY DEF Fresh, JobRecords, Statuses

(* The call and the job file keep their types.                             *)
LEMMA RecordKeepsType ==
  ASSUME TypeOK, active \in Jobs, NEW copy \in JobRecords, Record(copy)
  PROVE  job' \in [Jobs -> JobRecords]
BY DEF TypeOK, Record

LEMMA SteppedIsRecord ==
  ASSUME stage \in 1 .. 4, NEW copy \in JobRecords, NEW status \in Statuses
  PROVE  Stepped(copy, status) \in JobRecords
BY DEF Stepped, JobRecords

LEMMA CallEndsTyped ==
  ASSUME CallEnds
  PROVE  /\ active' = None /\ at' = "idle" /\ stage' = 1 /\ month' = 0
         /\ held' \in JobRecords
         /\ worker' \in [Months -> {"none", "queued", "placed", "fetched",
                                    "failed"}]
BY FreshIsRecord DEF CallEnds, Goes, NoWork

(* A call under way belongs to a job.                                      *)
LEMMA CallHasJob ==
  ASSUME TypeOK, at # "idle"
  PROVE  active \in Jobs
BY DEF TypeOK

LEMMA OutputsAreRecorded ==
  ASSUME TypeInv, at = "step_done", NEW copy \in JobRecords
  PROVE  WithOutputs(copy) \in JobRecords
<1>1. active \in Jobs /\ stage \in 1 .. 4
  BY CallHasJob DEF TypeInv, InAStep
<1>2. Acquired \subseteq Months
  BY DEF Acquired, TypeInv, TypeOK
<1>3. Need[active] \subseteq Months
  BY <1>1, NeedAssumption
<1>4. [release : {Acquired}, month : Acquired] \subseteq Partitions
  BY <1>2 DEF Partitions
<1>5. Snapshot \in Snapshots
  BY <1>1 DEF Snapshot, Snapshots, Registered, TypeInv, TypeOK
<1> QED
  BY <1>1, <1>3, <1>4, <1>5 DEF WithOutputs, JobRecords

LEMMA StepSuccessRecorded ==
  ASSUME TypeInv, StepSucceeds
  PROVE  held' \in JobRecords
<1>1. at = "step_done" /\ active \in Jobs /\ stage \in 1 .. 4
  BY CallHasJob DEF StepSucceeds, TypeInv, InAStep
<1>2. Stepped(job[active], "succeeded") \in JobRecords
  BY <1>1, SteppedIsRecord DEF TypeInv, TypeOK, Statuses
<1> QED
  BY <1>1, <1>2, OutputsAreRecorded DEF StepSucceeds

LEMMA TypeInvStep == TypeInv /\ [Next]_vars => TypeInv'
<1> SUFFICES ASSUME TypeInv, [Next]_vars PROVE TypeInv'
  OBVIOUS
<1> USE NoneAssumption DEF TypeInv, InAStep, GroupAtHand, InAGroup, Goes
<1>17. Acquired \subseteq Months /\ 0 \notin Months
  BY NeedAssumption DEF Acquired, TypeOK
<1>1. ASSUME NEW j \in Jobs, Plan(j) PROVE TypeInv'
  <2>1. Observed(j).release \subseteq Months
    BY DEF Observed, Candidates, TypeOK, Partitions
  <2> QED
    BY <1>1, <2>1 DEF Plan, TypeOK, disk, evidence, call
<1>2. ASSUME NEW j \in Jobs, Create(j) PROVE TypeInv'
  BY <1>2, FreshIsRecord DEF Create, CallBegins, TypeOK, disk, evidence, given,
     Places
<1>3. ASSUME NEW j \in Jobs, Resume(j) PROVE TypeInv'
  BY <1>3 DEF Resume, CallBegins, TypeOK, disk, evidence, given, Places
<1>4. CASE MarkRunning
  <2>1. held' \in JobRecords
    BY <1>4 DEF MarkRunning, TypeOK, JobRecords, Statuses
  <2>2. job' \in [Jobs -> JobRecords]
    BY <1>4, <2>1, CallHasJob, RecordKeepsType DEF MarkRunning
  <2> QED
    BY <1>4, <2>1, <2>2 DEF MarkRunning, TypeOK, disk, evidence, given, Places
<1>5. CASE OpenCatalog
  BY <1>5 DEF OpenCatalog, TypeOK, disk, evidence, given, Places
<1>6. CASE Migrate
  BY <1>6 DEF Migrate, TypeOK, disk, evidence, given, Places
<1>7. CASE RegisterSchemas
  BY <1>7 DEF RegisterSchemas, TypeOK, disk, evidence, given, Places
<1>8. CASE BeginStep
  <2>1. stage \in 1 .. 4 /\ stage + 1 \in 1 .. 5 /\ active \in Jobs
    BY <1>8, CallHasJob DEF BeginStep, TypeOK
  <2>2. FirstPlace[stage] \in Places /\ FirstPlace[stage] # "idle"
    BY <2>1 DEF FirstPlace, Places, InStep
  <2>3. CASE Skips
    BY <1>8, <2>1, <2>3 DEF BeginStep, TypeOK, disk, evidence, given
  <2>4. CASE ~Skips
    <3>1. Stepped(held, "running") \in JobRecords
      BY <2>1, SteppedIsRecord DEF TypeOK, Statuses
    <3>2. job' \in [Jobs -> JobRecords]
      BY <1>8, <2>1, <2>4, <3>1, RecordKeepsType DEF BeginStep
    <3>3. Acquired' = Acquired /\ at' = FirstPlace[stage]
      BY <1>8, <2>1, <2>4 DEF BeginStep, Acquired, disk
    <3>4. at' \notin InAGroup
      BY <2>1, <3>3 DEF FirstPlace
    <3> QED
      BY <1>8, <2>1, <2>2, <2>4, <3>2, <3>3, <3>4
         DEF BeginStep, TypeOK, disk, evidence, given
  <2> QED
    BY <2>3, <2>4
<1>9. CASE StepSucceeds
  <2>1. held' \in JobRecords
    BY <1>9, StepSuccessRecorded
  <2>2. job' \in [Jobs -> JobRecords]
    BY <1>9, <2>1, CallHasJob, RecordKeepsType DEF StepSucceeds
  <2> QED
    BY <1>9, <2>1, <2>2 DEF StepSucceeds, TypeOK, disk, evidence, given, Places
<1>10. CASE StepFails
  <2>1. active \in Jobs /\ stage \in 1 .. 4
    BY <1>10, CallHasJob DEF StepFails
  <2>2. Stepped(job[active], "failed") \in JobRecords
    BY <2>1, SteppedIsRecord DEF TypeOK, Statuses
  <2>3. job' \in [Jobs -> JobRecords]
    BY <1>10, <2>1, <2>2, RecordKeepsType DEF StepFails
  <2> QED
    BY <1>10, <2>3 DEF StepFails, TypeOK, disk, evidence, given, Places
<1>11. CASE JobFails \/ JobSucceeds
  <2>1. /\ [held EXCEPT !.status = "failed"] \in JobRecords
        /\ [held EXCEPT !.status = "succeeded"] \in JobRecords
    BY DEF TypeOK, JobRecords, Statuses
  <2>2. active \in Jobs
    BY <1>11, CallHasJob DEF JobFails, JobSucceeds
  <2>3. job' \in [Jobs -> JobRecords]
    BY <1>11, <2>1, <2>2, RecordKeepsType DEF JobFails, JobSucceeds
  <2> QED
    BY <1>11, <2>3, CallEndsTyped
       DEF JobFails, JobSucceeds, TypeOK, disk, evidence, given, Places
<1>12. CASE Discover
  <2>1. /\ at' \in Places /\ at' # "idle" /\ faults' \in 0 .. MaxFaults
        /\ worker' \in [Months -> {"none", "queued", "placed", "fetched",
                                   "failed"}]
    BY <1>12, MaxFaultsAssumption DEF Discover, Fault, TypeOK, Places
  <2> QED
    BY <1>12, <2>1 DEF Discover, TypeOK, disk, evidence, given
<1>13. ASSUME NEW m \in Months, FetchFile(m) \/ FetchManifest(m)
       PROVE  TypeInv'
  BY <1>13 DEF FetchFile, FetchManifest, FetchGoes, TypeOK, evidence, given
<1>14. CASE JoinFetches
  BY <1>14
     DEF JoinFetches, NoWork, TypeOK, disk, evidence, given, Places, InStep
<1>15. CASE RegisterFetched
  <2>1. Fetched # {} => FirstOf(Fetched) \in Months
    BY FirstMonth DEF Fetched
  <2> QED
    BY <1>15, <2>1 DEF RegisterFetched, FetchGoes, NoWork, TypeOK, disk,
       evidence, given, Places
<1>16. CASE CollectAcquired
  BY <1>16 DEF CollectAcquired, TypeOK, disk, evidence, given, Places
<1>18. CASE GroupMonths
  <2>1. Acquired' = Acquired
    BY <1>18 DEF GroupMonths, Acquired, disk
  <2>2. Acquired # {} => FirstOf(Acquired) \in Acquired
    BY <1>17, FirstMonth
  <2> QED
    BY <1>17, <1>18, <2>1, <2>2
       DEF GroupMonths, NextGroup, TypeOK, disk, evidence, given, Places,
           InStep
<1>19. CASE RegisterSource
  <2>1. month \in Months /\ Acquired' = Acquired
    BY <1>17, <1>19 DEF RegisterSource, Acquired, disk
  <2> QED
    BY <1>19, <2>1
       DEF RegisterSource, TypeOK, disk, evidence, given, Places, InStep
<1>20. ASSUME at \in InAGroup PROVE Partition \in Partitions
  BY <1>17, <1>20 DEF Partition, Partitions
<1>21. CASE WriteParquet
  <2>1. Acquired' = Acquired
    BY <1>21 DEF WriteParquet, Acquired
  <2> QED
    BY <1>20, <1>21, <2>1
       DEF WriteParquet, TypeOK, evidence, given, Places, InStep
<1>22. CASE WritePartitionManifest
  <2>1. Acquired' = Acquired
    BY <1>22 DEF WritePartitionManifest, Acquired
  <2> QED
    BY <1>20, <1>22, <2>1
       DEF WritePartitionManifest, TypeOK, evidence, given, Places, InStep
<1>23. CASE RegisterPartition
  <2>1. Acquired' = Acquired
    BY <1>23 DEF RegisterPartition, Acquired, disk
  <2> DEFINE later == {m \in Acquired : m > month}
  <2>2. later # {} => FirstOf(later) \in Acquired
    BY <1>17, FirstMonth
  <2> HIDE DEF later
  <2>3. NextGroup(later) =>
          \/ at' = "step_done" /\ month' = 0
          \/ at' = "source" /\ month' \in Acquired
    BY <2>2 DEF NextGroup
  <2>4. \/ at' = "step_failed" /\ UNCHANGED <<catalog, month>>
        \/ /\ catalog' = [catalog EXCEPT !.part = @ \cup {Partition}]
           /\ NextGroup(later)
    BY <1>23 DEF RegisterPartition, later
  <2> QED
    BY <1>17, <1>20, <1>23, <2>1, <2>3, <2>4
       DEF RegisterPartition, TypeOK, disk, evidence, given, Places, InStep
<1>24. at # "idle" => Snapshot \in Snapshots
  BY CallHasJob DEF Snapshot, Snapshots, Registered, TypeOK
<1>25. CASE ResolveSnapshot
  BY <1>24, <1>25
     DEF ResolveSnapshot, TypeOK, evidence, given, Places, InStep
<1>26. CASE WriteSnapshotFile
  BY <1>24, <1>26
     DEF WriteSnapshotFile, TypeOK, evidence, given, Places, InStep
<1>27. CASE RegisterDataset
  BY <1>24, <1>27
     DEF RegisterDataset, TypeOK, disk, evidence, given, Places
<1>28. CASE WriteReadiness
  <2>1. held.snapshot \in catalog.snap => held.snapshot \in Snapshots
    BY DEF TypeOK
  <2> QED
    BY <1>28, <2>1
       DEF WriteReadiness, TypeOK, disk, given, Places, InStep
<1>29. CASE WriteLineage
  <2>1. Inspected \subseteq Partitions
    BY DEF Inspected, Registered, TypeOK
  <2> QED
    BY <1>29, <2>1 DEF WriteLineage, TypeOK, disk, given, Places
<1>30. ASSUME NEW m \in Months, FetchRaises(m) PROVE TypeInv'
  BY <1>30, MaxFaultsAssumption
     DEF FetchRaises, FetchGoes, Fault, TypeOK, disk, evidence, given
<1>31. CASE Raises
  BY <1>31, MaxFaultsAssumption
     DEF Raises, Fault, NoWork, TypeOK, disk, evidence, given, Places, InStep
<1>32. CASE Interrupt
  BY <1>32, CallEndsTyped, MaxFaultsAssumption
     DEF Interrupt, Fault, TypeOK, disk, evidence, given, Places
<1>33. CASE UNCHANGED vars
  BY <1>33 DEF vars, TypeOK, disk, evidence, given, call, Acquired
<1> QED
  BY <1>1, <1>2, <1>3, <1>4, <1>5, <1>6, <1>7, <1>8, <1>9, <1>10, <1>11,
     <1>12, <1>13, <1>14, <1>15, <1>16, <1>18, <1>19, <1>21, <1>22, <1>23,
     <1>25, <1>26, <1>27, <1>28, <1>29, <1>30, <1>31, <1>32, <1>33
     DEF Next, CallStep

(* Every variable keeps its type.                                          *)
THEOREM TypeCorrect == Spec => []TypeOK
<1>1. TypeInv => TypeOK
  BY DEF TypeInv
<1> QED
  BY <1>1, TypeInvInit, TypeInvStep, PTL DEF Spec

-----------------------------------------------------------------------------
(* What is under way when an interruption may come: the files a fetch, a   *)
(* publication or a snapshot has put in place before it goes on.           *)

FilesInOrder ==
  /\ rawManifest \subseteq rawFile
  /\ partManifest \subseteq parquet
  /\ \A m \in Months :
       /\ worker[m] = "placed" => m \in rawFile
       /\ worker[m] = "fetched" => m \in rawManifest

PublicationAtHand ==
  /\ at \in {"parquet", "manifest", "partition"} => month \in catalog.raw
  /\ at \in {"manifest", "partition"} => Partition \in parquet
  /\ at = "partition" => Partition \in partManifest

SnapshotAtHand ==
  /\ at \in {"snapshot_file", "dataset"} => Registered(Release) # {}
  /\ at = "dataset" => Snapshot \in snapFile

BackedInv ==
  /\ CatalogIsBacked
  /\ FilesInOrder
  /\ PublicationAtHand
  /\ SnapshotAtHand

LEMMA BackedInvInit == Init => BackedInv
BY DEF Init, BackedInv, CatalogIsBacked, FilesInOrder, PublicationAtHand,
   SnapshotAtHand, NoWork

(* What the terms of a call depend on.                                     *)
LEMMA TermsFollow ==
  ASSUME UNCHANGED <<plan, active, held, month, rawManifest, catalog>>
  PROVE  /\ Acquired' = Acquired /\ Partition' = Partition
         /\ Release' = Release /\ Snapshot' = Snapshot
         /\ Registered(Release)' = Registered(Release)
BY DEF Acquired, Partition, Release, Snapshot, Registered

(* A step that leaves the disk, the catalog and the fetches alone and goes *)
(* to a place without work at hand keeps the invariant.                    *)
LEMMA QuietStep ==
  ASSUME BackedInv, UNCHANGED <<disk, catalog>>,
         worker' = worker \/ worker' = NoWork,
         at' \notin {"parquet", "manifest", "partition", "snapshot_file",
                     "dataset"}
  PROVE  BackedInv'
BY DEF BackedInv, CatalogIsBacked, FilesInOrder, PublicationAtHand,
   SnapshotAtHand, disk, NoWork

LEMMA BackedInvStep == TypeInv /\ BackedInv /\ [Next]_vars => BackedInv'
<1> SUFFICES ASSUME TypeInv, BackedInv, [Next]_vars PROVE BackedInv'
  OBVIOUS
<1> USE DEF Goes
<1>1. ASSUME \/ \E j \in Jobs : Plan(j) \/ Create(j) \/ Resume(j)
             \/ MarkRunning \/ StepSucceeds \/ StepFails \/ JobFails
             \/ JobSucceeds \/ JoinFetches \/ CollectAcquired \/ WriteReadiness
             \/ WriteLineage \/ Raises \/ Interrupt
      PROVE  BackedInv'
  <2>1. UNCHANGED <<disk, catalog>>
    BY <1>1 DEF Plan, Create, Resume, MarkRunning, StepSucceeds, StepFails,
       JobFails, JobSucceeds, JoinFetches, CollectAcquired, WriteReadiness,
       WriteLineage, Raises, Interrupt
  <2>2. worker' = worker \/ worker' = NoWork
    BY <1>1 DEF Plan, Create, Resume, MarkRunning, StepSucceeds, StepFails,
       JobFails, JobSucceeds, JoinFetches, CollectAcquired, WriteReadiness,
       WriteLineage, Raises, Interrupt, CallBegins, CallEnds, call
  <2>3. ASSUME NEW j \in Jobs, Plan(j) PROVE at' = "idle"
    BY <2>3, NoneAssumption DEF Plan, call, TypeInv, TypeOK
  <2>4. at' \notin {"parquet", "manifest", "partition", "snapshot_file",
                    "dataset"}
    BY <1>1, <2>3 DEF Create, Resume, MarkRunning, StepSucceeds, StepFails,
       JobFails, JobSucceeds, JoinFetches, CollectAcquired, WriteReadiness,
       WriteLineage, Raises, Interrupt, CallBegins, CallEnds
  <2> QED
    BY <2>1, <2>2, <2>4, QuietStep
<1>2. CASE OpenCatalog \/ Migrate \/ RegisterSchemas
  <2>1. /\ catalog'.raw = catalog.raw /\ catalog'.part = catalog.part
        /\ catalog'.snap = catalog.snap
    BY <1>2 DEF OpenCatalog, Migrate, RegisterSchemas, TypeInv, TypeOK
  <2>2. at' \in {"migrate", "seed", "begin"}
    BY <1>2 DEF OpenCatalog, Migrate, RegisterSchemas
  <2> QED
    BY <1>2, <2>1, <2>2 DEF OpenCatalog, Migrate, RegisterSchemas, BackedInv,
       CatalogIsBacked, FilesInOrder, PublicationAtHand, SnapshotAtHand, disk
<1>3. CASE BeginStep
  <2>1. at' \in {"begin", "discover", "group", "resolve", "verify"}
    <3>1. stage \in 1 .. 4
      BY <1>3 DEF BeginStep, TypeInv, TypeOK
    <3>2. at' = at \/ at' = FirstPlace[stage]
      BY <1>3 DEF BeginStep
    <3> QED
      BY <1>3, <3>1, <3>2 DEF BeginStep, FirstPlace
  <2> QED
    BY <1>3, <2>1, QuietStep DEF BeginStep
<1>4. CASE Discover
  <2>1. at' \in {"step_done", "collect", "fetch"}
    BY <1>4 DEF Discover
  <2>2. \A m \in Months : worker'[m] \in {"placed", "fetched"} =>
                            worker'[m] = worker[m]
    BY <1>4 DEF Discover
  <2> QED
    BY <1>4, <2>1, <2>2 DEF Discover, BackedInv, CatalogIsBacked,
       FilesInOrder, PublicationAtHand, SnapshotAtHand, disk
<1>5. ASSUME NEW m \in Months,
             FetchFile(m) \/ FetchManifest(m) \/ FetchRaises(m)
      PROVE  BackedInv'
  <2>1. at' = "fetch"
    BY <1>5 DEF FetchFile, FetchManifest, FetchRaises
  <2>2. \A n \in Months : worker'[n] = worker[n] \/ n = m
    BY <1>5 DEF FetchFile, FetchManifest, FetchRaises, FetchGoes, TypeInv,
       TypeOK
  <2>3. FilesInOrder'
    BY <1>5, <2>2 DEF FetchFile, FetchManifest, FetchRaises, FetchGoes,
       BackedInv, FilesInOrder, disk, TypeInv, TypeOK
  <2>4. CatalogIsBacked'
    BY <1>5 DEF FetchFile, FetchManifest, FetchRaises, BackedInv,
       CatalogIsBacked, disk
  <2> QED
    BY <2>1, <2>3, <2>4 DEF BackedInv, PublicationAtHand, SnapshotAtHand
<1>6. CASE RegisterFetched
  <2>1. at' \in {"register_raw", "collect", "step_failed"}
    BY <1>6 DEF RegisterFetched
  <2>2. ASSUME Fetched # {}
        PROVE  FirstOf(Fetched) \in rawManifest \cap rawFile
    <3>1. FirstOf(Fetched) \in Fetched
      BY <2>2, FirstMonth DEF Fetched
    <3> QED
      BY <3>1 DEF Fetched, BackedInv, FilesInOrder
  <2>3. CatalogIsBacked'
    BY <1>6, <2>2 DEF RegisterFetched, BackedInv, CatalogIsBacked, disk,
       TypeInv, TypeOK
  <2>4. FilesInOrder'
    BY <1>6 DEF RegisterFetched, FetchGoes, NoWork, BackedInv, FilesInOrder,
       disk, TypeInv, TypeOK
  <2> QED
    BY <2>1, <2>3, <2>4 DEF BackedInv, PublicationAtHand, SnapshotAtHand
<1>7. CASE GroupMonths
  <2>1. at' \in {"step_done", "step_failed", "source"}
    BY <1>7 DEF GroupMonths, NextGroup
  <2> QED
    BY <1>7, <2>1, QuietStep DEF GroupMonths
<1>8. CASE RegisterSource
  <2>1. month \in rawManifest \cap rawFile
    BY <1>8 DEF RegisterSource, TypeInv, GroupAtHand, InAGroup, Acquired,
       BackedInv, FilesInOrder
  <2>2. CatalogIsBacked' /\ FilesInOrder'
    BY <1>8, <2>1 DEF RegisterSource, BackedInv, CatalogIsBacked,
       FilesInOrder, disk, TypeInv, TypeOK
  <2>3. PublicationAtHand' /\ SnapshotAtHand'
    BY <1>8 DEF RegisterSource, PublicationAtHand, SnapshotAtHand, TypeInv,
       TypeOK
  <2> QED
    BY <2>2, <2>3 DEF BackedInv
<1>9. CASE WriteParquet
  <2>1. Partition' = Partition /\ Acquired' = Acquired
    BY <1>9 DEF WriteParquet, Partition, Acquired
  <2>2. CatalogIsBacked' /\ FilesInOrder'
    BY <1>9 DEF WriteParquet, BackedInv, CatalogIsBacked, FilesInOrder
  <2>3. PublicationAtHand' /\ SnapshotAtHand'
    BY <1>9, <2>1 DEF WriteParquet, BackedInv, PublicationAtHand,
       SnapshotAtHand
  <2> QED
    BY <2>2, <2>3 DEF BackedInv
<1>10. CASE WritePartitionManifest
  <2>1. Partition' = Partition
    BY <1>10 DEF WritePartitionManifest, Partition, Acquired
  <2>2. CatalogIsBacked' /\ FilesInOrder'
    BY <1>10 DEF WritePartitionManifest, BackedInv, CatalogIsBacked,
       FilesInOrder, PublicationAtHand
  <2>3. PublicationAtHand' /\ SnapshotAtHand'
    BY <1>10, <2>1 DEF WritePartitionManifest, BackedInv, PublicationAtHand,
       SnapshotAtHand
  <2> QED
    BY <2>2, <2>3 DEF BackedInv
<1>11. CASE RegisterPartition
  <2>1. Partition \in parquet \cap partManifest /\ month \in catalog.raw
    BY <1>11 DEF RegisterPartition, BackedInv, PublicationAtHand
  <2>2. at' \in {"step_done", "step_failed", "source"}
    BY <1>11 DEF RegisterPartition, NextGroup
  <2>3. CatalogIsBacked' /\ FilesInOrder'
    BY <1>11, <2>1 DEF RegisterPartition, Partition, BackedInv,
       CatalogIsBacked, FilesInOrder, disk, TypeInv, TypeOK
  <2> QED
    BY <2>2, <2>3 DEF BackedInv, PublicationAtHand, SnapshotAtHand
<1>12. CASE ResolveSnapshot
  <2>1. at' = "snapshot_file" => Registered(Release) # {}
    BY <1>12 DEF ResolveSnapshot
  <2>2. Registered(Release)' = Registered(Release)
    BY <1>12 DEF ResolveSnapshot, Registered, Release, given
  <2>3. CatalogIsBacked' /\ FilesInOrder'
    BY <1>12 DEF ResolveSnapshot, BackedInv, CatalogIsBacked, FilesInOrder
  <2>4. PublicationAtHand' /\ SnapshotAtHand'
    BY <1>12, <2>1, <2>2 DEF ResolveSnapshot, PublicationAtHand,
       SnapshotAtHand
  <2> QED
    BY <2>3, <2>4 DEF BackedInv
<1>13. CASE WriteSnapshotFile
  <2>1. Registered(Release)' = Registered(Release) /\ Snapshot' = Snapshot
    BY <1>13 DEF WriteSnapshotFile, Registered, Release, Snapshot, given
  <2>2. CatalogIsBacked' /\ FilesInOrder'
    BY <1>13 DEF WriteSnapshotFile, BackedInv, CatalogIsBacked, FilesInOrder
  <2>3. PublicationAtHand' /\ SnapshotAtHand'
    BY <1>13, <2>1 DEF WriteSnapshotFile, BackedInv, PublicationAtHand,
       SnapshotAtHand
  <2> QED
    BY <2>2, <2>3 DEF BackedInv
<1>14. CASE RegisterDataset
  <2>1. /\ Snapshot \in snapFile /\ Snapshot.parts # {}
        /\ Snapshot.parts \subseteq catalog.part
    BY <1>14 DEF RegisterDataset, BackedInv, SnapshotAtHand, Snapshot,
       Registered
  <2>2. CatalogIsBacked' /\ FilesInOrder'
    BY <1>14, <2>1 DEF RegisterDataset, BackedInv, CatalogIsBacked,
       FilesInOrder, disk, TypeInv, TypeOK
  <2>3. at' \in {"step_done", "step_failed"}
    BY <1>14 DEF RegisterDataset
  <2> QED
    BY <2>2, <2>3 DEF BackedInv, PublicationAtHand, SnapshotAtHand
<1>15. CASE UNCHANGED vars
  <2>1. UNCHANGED <<disk, catalog, plan, call>>
    BY <1>15 DEF vars, given
  <2>2. /\ Partition' = Partition /\ Snapshot' = Snapshot
        /\ Registered(Release)' = Registered(Release)
    BY <2>1, TermsFollow DEF call, disk
  <2> QED
    BY <2>1, <2>2 DEF BackedInv, CatalogIsBacked, FilesInOrder,
       PublicationAtHand, SnapshotAtHand, disk, call
<1> QED
  BY <1>1, <1>2, <1>3, <1>4, <1>5, <1>6, <1>7, <1>8, <1>9, <1>10, <1>11,
     <1>12, <1>13, <1>14, <1>15 DEF Next, CallStep

(* Whatever the catalog names is on disk and complete in the catalog,      *)
(* however the calls were interrupted (the order of file, manifest and     *)
(* registration in fetch, publish and _publish_snapshot).                  *)
THEOREM CatalogBacked == Spec => []CatalogIsBacked
<1>1. BackedInv => CatalogIsBacked
  BY DEF BackedInv
<1> QED
  BY <1>1, TypeInvInit, TypeInvStep, BackedInvInit, BackedInvStep, PTL
     DEF Spec

-----------------------------------------------------------------------------
(* The copy a call holds and the file agree on what succeeded, although    *)
(* the handler of prepare writes the copy over what _run_step recorded.    *)

Working == at \notin {"idle", "mark", "open", "migrate", "seed", "begin",
                      "job_failed"}

Agree(a, b) ==
  /\ a.acquired = b.acquired
  /\ a.normalized = b.normalized
  /\ a.snapshot = b.snapshot
  /\ \A k \in 1 .. 4 : a.step[k] = "succeeded" <=> b.step[k] = "succeeded"

HeldInv ==
  /\ \A j \in Jobs : job[j].status = "none" =>
       \A k \in 1 .. 4 : job[j].step[k] # "succeeded"
  /\ active \in Jobs =>
       /\ job[active].status # "none" /\ held.status # "none"
       /\ Agree(job[active], held)
       /\ Working => held.step[stage] # "succeeded"

(* What one step may not do to a job.                                      *)
Kept(j) ==
  /\ \A k \in 1 .. 4 : job[j].step[k] = "succeeded" =>
       job'[j].step[k] = "succeeded"
  /\ job[j].step[1] = "succeeded" => job'[j].acquired = job[j].acquired
  /\ job[j].step[2] = "succeeded" => job'[j].normalized = job[j].normalized
  /\ job[j].step[3] = "succeeded" => job'[j].snapshot = job[j].snapshot

LEMMA HeldInvInit == Init => HeldInv
BY NoneAssumption DEF Init, HeldInv, Fresh

LEMMA HeldInvStep ==
  TypeInv /\ HeldInv /\ [Next]_vars => HeldInv' /\ \A j \in Jobs : Kept(j)
<1> SUFFICES ASSUME TypeInv, HeldInv, [Next]_vars
             PROVE  HeldInv' /\ \A j \in Jobs : Kept(j)
  OBVIOUS
<1> DEFINE Goal == HeldInv' /\ \A j \in Jobs : Kept(j)
<1> USE NoneAssumption DEF Goes
<1>1. ASSUME UNCHANGED <<job, active, held, stage>>, Working' => Working
      PROVE  Goal
  BY <1>1 DEF HeldInv, Kept
<1>2. ASSUME NEW j \in Jobs, Plan(j) PROVE Goal
  BY <1>1, <1>2 DEF Plan, call, Working
<1>3. ASSUME NEW j \in Jobs, Create(j) PROVE Goal
  <2>1. job' = [job EXCEPT ![j] = Fresh] /\ active' = j /\ held' = Fresh
    BY <1>3 DEF Create, CallBegins
  <2>2. ~Working'
    BY <1>3 DEF Create, CallBegins, Working
  <2>3. \A k \in 1 .. 4 : job[j].step[k] # "succeeded"
    BY <1>3 DEF Create, HeldInv
  <2> QED
    BY <2>1, <2>2, <2>3 DEF HeldInv, Kept, Agree, Fresh, TypeInv, TypeOK
<1>4. ASSUME NEW j \in Jobs, Resume(j) PROVE Goal
  BY <1>4 DEF Resume, CallBegins, HeldInv, Kept, Agree, Working
<1>5. CASE MarkRunning
  <2>1. active \in Jobs
    BY <1>5, CallHasJob DEF MarkRunning, TypeInv
  <2>2. /\ held' = [held EXCEPT !.status = "running"]
        /\ job' = [job EXCEPT ![active] = held'] /\ active' = active
    BY <1>5 DEF MarkRunning, Record
  <2>3. Agree(held', held) /\ held'.status = "running"
    BY <2>2 DEF Agree, TypeInv, TypeOK, JobRecords
  <2>4. ~Working'
    BY <1>5 DEF MarkRunning, Working
  <2> QED
    BY <2>1, <2>2, <2>3, <2>4 DEF HeldInv, Kept, Agree, TypeInv, TypeOK
<1>6. CASE BeginStep
  <2>1. active \in Jobs /\ stage \in 1 .. 4
    BY <1>6, CallHasJob DEF BeginStep, TypeInv, TypeOK
  <2>2. CASE Skips
    <3>1. ~Working' /\ UNCHANGED <<job, active, held>>
      BY <1>6, <2>2 DEF BeginStep, Working
    <3> QED
      BY <3>1 DEF HeldInv, Kept
  <2>3. CASE ~Skips
    <3>1. /\ job' = [job EXCEPT ![active] = Stepped(held, "running")]
          /\ UNCHANGED <<active, held, stage>>
      BY <1>6, <2>3 DEF BeginStep, Record
    <3>2. held.step[stage] # "succeeded"
      BY <2>3 DEF Skips
    <3>3. /\ Agree(Stepped(held, "running"), held)
          /\ Stepped(held, "running").status = held.status
      BY <2>1, <3>2 DEF Stepped, Agree, TypeInv, TypeOK, JobRecords
    <3> QED
      BY <2>1, <3>1, <3>2, <3>3 DEF HeldInv, Kept, Agree, TypeInv, TypeOK
  <2> QED
    BY <2>2, <2>3
<1>7. CASE StepSucceeds
  <2>1. active \in Jobs /\ stage \in 1 .. 4 /\ at = "step_done"
    BY <1>7, CallHasJob DEF StepSucceeds, TypeInv, InAStep
  <2>2. job' = [job EXCEPT ![active] = held'] /\ active' = active
    BY <1>7 DEF StepSucceeds, Record
  <2>3. held' = WithOutputs(Stepped(job[active], "succeeded"))
    BY <1>7 DEF StepSucceeds
  <2>4. ~Working'
    BY <1>7 DEF StepSucceeds, Working
  <2>5. job[active].step[stage] # "succeeded"
    BY <2>1 DEF HeldInv, Agree, Working
  <2>6. job[active] \in JobRecords
    BY <2>1 DEF TypeInv, TypeOK
  <2> DEFINE copy == Stepped(job[active], "succeeded")
  <2>7. /\ copy \in JobRecords
        /\ copy.status = job[active].status
        /\ copy.acquired = job[active].acquired
        /\ copy.normalized = job[active].normalized
        /\ copy.snapshot = job[active].snapshot
        /\ copy.step = [job[active].step EXCEPT ![stage] = "succeeded"]
    BY <2>1, <2>6 DEF Stepped, JobRecords, Statuses
  <2> HIDE DEF copy
  <2>8. /\ held'.status = copy.status /\ held'.step = copy.step
        /\ stage # 1 => held'.acquired = copy.acquired
        /\ stage # 2 => held'.normalized = copy.normalized
        /\ stage # 3 => held'.snapshot = copy.snapshot
    <3>1. held' = WithOutputs(copy)
      BY <2>3 DEF copy
    <3> QED
      BY <2>1, <2>7, <3>1 DEF WithOutputs, JobRecords
  <2>9. Kept(active)
    BY <2>1, <2>2, <2>5, <2>6, <2>7, <2>8
       DEF Kept, JobRecords, TypeInv, TypeOK
  <2>10. \A j \in Jobs : Kept(j)
    BY <2>1, <2>2, <2>9 DEF Kept, TypeInv, TypeOK
  <2>11. held'.status # "none"
    BY <2>1, <2>7, <2>8 DEF HeldInv
  <2>12. HeldInv'
    BY <2>1, <2>2, <2>4, <2>11 DEF HeldInv, Agree, TypeInv, TypeOK
  <2> QED
    BY <2>10, <2>12
<1>8. CASE StepFails
  <2>1. active \in Jobs /\ stage \in 1 .. 4 /\ at = "step_failed"
    BY <1>8, CallHasJob DEF StepFails, TypeInv, InAStep
  <2>2. /\ job' = [job EXCEPT ![active] = Stepped(job[active], "failed")]
        /\ UNCHANGED <<active, held>>
    BY <1>8 DEF StepFails, Record
  <2>3. ~Working'
    BY <1>8 DEF StepFails, Working
  <2>4. /\ job[active].step[stage] # "succeeded"
        /\ job[active] \in JobRecords
    BY <2>1 DEF HeldInv, Agree, Working, TypeInv, TypeOK
  <2>5. /\ Agree(Stepped(job[active], "failed"), job[active])
        /\ Stepped(job[active], "failed").status = job[active].status
    BY <2>1, <2>4 DEF Stepped, Agree, JobRecords
  <2> QED
    BY <2>1, <2>2, <2>3, <2>5 DEF HeldInv, Kept, Agree, TypeInv, TypeOK
<1>9. CASE JobFails \/ JobSucceeds
  <2>1. active \in Jobs
    BY <1>9, CallHasJob DEF JobFails, JobSucceeds, TypeInv
  <2>2. PICK status \in {"failed", "succeeded"} :
          job' = [job EXCEPT ![active] = [held EXCEPT !.status = status]]
    BY <1>9 DEF JobFails, JobSucceeds, Record
  <2>3. active' = None
    BY <1>9 DEF JobFails, JobSucceeds, CallEnds
  <2>4. /\ Agree([held EXCEPT !.status = status], held)
        /\ [held EXCEPT !.status = status].status # "none"
    BY DEF Agree, TypeInv, TypeOK, JobRecords
  <2> QED
    BY <2>1, <2>2, <2>3, <2>4 DEF HeldInv, Kept, Agree, TypeInv, TypeOK
<1>10. CASE Interrupt
  BY <1>10 DEF Interrupt, CallEnds, HeldInv, Kept
<1>11. ASSUME \/ OpenCatalog \/ Migrate \/ RegisterSchemas
              \/ Discover \/ JoinFetches \/ RegisterFetched \/ CollectAcquired
              \/ \E m \in Months : \/ FetchFile(m) \/ FetchManifest(m)
                                   \/ FetchRaises(m)
       PROVE  Goal
  <2>1. UNCHANGED <<job, active, held, stage>> /\ (Working' => Working)
    BY <1>11 DEF OpenCatalog, Migrate, RegisterSchemas, Discover, JoinFetches,
       RegisterFetched, CollectAcquired, FetchFile, FetchManifest,
       FetchRaises, Working
  <2> QED
    BY <1>1, <2>1
<1>12. ASSUME \/ GroupMonths \/ RegisterSource \/ WriteParquet
              \/ WritePartitionManifest \/ RegisterPartition
              \/ ResolveSnapshot \/ WriteSnapshotFile \/ RegisterDataset
              \/ WriteReadiness \/ WriteLineage \/ Raises
       PROVE  Goal
  <2>1. UNCHANGED <<job, active, held, stage>>
    BY <1>12 DEF GroupMonths, RegisterSource, WriteParquet,
       WritePartitionManifest, RegisterPartition, ResolveSnapshot,
       WriteSnapshotFile, RegisterDataset, WriteReadiness, WriteLineage, Raises
  <2>2. Working' => Working
    BY <1>12 DEF GroupMonths, RegisterSource, WriteParquet,
       WritePartitionManifest, RegisterPartition, ResolveSnapshot,
       WriteSnapshotFile, RegisterDataset, WriteReadiness, WriteLineage,
       Raises, Working, InStep
  <2> QED
    BY <1>1, <2>1, <2>2
<1>13. CASE UNCHANGED vars
  BY <1>1, <1>13 DEF vars, call, Working
<1> QED
  BY <1>2, <1>3, <1>4, <1>5, <1>6, <1>7, <1>8, <1>9, <1>10, <1>11, <1>12,
     <1>13 DEF Next, CallStep

(* A recorded success and its outputs are never taken back, whatever step  *)
(* fails or is interrupted afterwards (_run_step, the handler of prepare). *)
THEOREM SuccessKept == Spec => SuccessIsKept
<1>1. TypeInv /\ HeldInv /\ [Next]_vars => [\A j \in Jobs : Kept(j)]_vars
  BY HeldInvStep
<1> QED
  BY <1>1, TypeInvInit, TypeInvStep, HeldInvInit, HeldInvStep, PTL
     DEF Spec, SuccessIsKept, Kept

-----------------------------------------------------------------------------
(* What makes a job that succeeded ready: the evidence each recorded step  *)
(* leaves, for a release of the job's own and for one that it reuses.      *)

AcquirePlaces == {"discover", "fetch", "register_raw", "collect"}

NormalizePlaces == {"group"} \cup InAGroup

(* A place belongs to its step, and the steps before it have succeeded.    *)
StageAtHand ==
  active \in Jobs =>
    /\ at \in AcquirePlaces => stage = 1
    /\ at \in NormalizePlaces => stage = 2
    /\ at \in {"resolve", "snapshot_file", "dataset"} => stage = 3
    /\ at \in {"verify", "lineage"} => stage = 4
    /\ \A k \in 1 .. 4 : k < stage => held.step[k] = "succeeded"
    /\ held.status # "succeeded"

(* A release is what some job needs, and its partitions are registered in  *)
(* the order of time.                                                      *)
PartitionsInOrder ==
  /\ IsFiniteSet(catalog.part)
  /\ \A p \in catalog.part :
       /\ \E k \in Jobs : p.release = Need[k]
       /\ p.month \in p.release
       /\ \A m \in p.release :
            m < p.month => [release |-> p.release, month |-> m] \in catalog.part

Covers(j, release) == Need[j] \subseteq MonthsOf(Registered(release))

PlansCover ==
  \A j \in Jobs :
    /\ job[j].status # "none" => plan[j] # None
    /\ plan[j] # None /\ plan[j].release # {} => Covers(j, plan[j].release)

Own == plan[active].release = {}

OwnPartition(m) == [release |-> Acquired, month |-> m]

(* What the step under way has done.                                       *)
WorkAtHand ==
  active \in Jobs =>
    /\ at = "step_done" /\ stage = 1 /\ Own =>
         Need[active] \subseteq rawManifest
    /\ at \in InAGroup =>
         Own /\ \A m \in Acquired : m < month => OwnPartition(m) \in catalog.part
    /\ at = "step_done" /\ stage = 2 /\ Own =>
         \A m \in Acquired : OwnPartition(m) \in catalog.part
    /\ at = "step_done" /\ stage = 3 => Snapshot \in catalog.snap
    /\ at = "lineage" => readiness[active] = held.snapshot
    /\ at = "step_done" /\ stage = 4 =>
         /\ readiness[active] = held.snapshot
         /\ held.snapshot.parts \subseteq lineage[active]

Acquires(j) ==
  job[j].step[1] = "succeeded" /\ plan[j].release = {} =>
    job[j].acquired = Need[j] /\ Need[j] \subseteq rawManifest

Normalizes(j) ==
  job[j].step[2] = "succeeded" /\ plan[j].release = {} =>
    /\ job[j].normalized = [release : {Need[j]}, month : Need[j]]
    /\ job[j].normalized \subseteq catalog.part

Publishes(j) ==
  job[j].step[3] = "succeeded" =>
    /\ job[j].snapshot \in catalog.snap
    /\ Need[j] \subseteq MonthsOf(job[j].snapshot.parts)
    /\ \A p, q \in job[j].snapshot.parts : p.release = q.release

IsReady(j) ==
  job[j].step[4] = "succeeded" =>
    /\ readiness[j] = job[j].snapshot
    /\ job[j].snapshot.parts \subseteq lineage[j]

Finishes(j) ==
  job[j].status = "succeeded" =>
    active # j /\ \A k \in 1 .. 4 : job[j].step[k] = "succeeded"

StepsInOrder(j) ==
  \A k, l \in 1 .. 4 :
    k < l /\ job[j].step[l] = "succeeded" => job[j].step[k] = "succeeded"

Evidence(j) ==
  /\ Acquires(j) /\ Normalizes(j) /\ Publishes(j) /\ IsReady(j)
  /\ Finishes(j) /\ StepsInOrder(j)

ReadyInv ==
  /\ StageAtHand
  /\ PartitionsInOrder
  /\ PlansCover
  /\ WorkAtHand
  /\ \A j \in Jobs : Evidence(j)

LEMMA ReadyInvInit == Init => ReadyInv
<1> SUFFICES ASSUME Init PROVE ReadyInv
  OBVIOUS
<1>1. active \notin Jobs
  BY NoneAssumption DEF Init
<1>2. PartitionsInOrder
  BY FS_EmptySet DEF Init, PartitionsInOrder
<1>3. \A j \in Jobs : Evidence(j) /\ job[j].status = "none" /\ plan[j] = None
  BY DEF Init, Fresh, Evidence, Acquires, Normalizes, Publishes, IsReady,
     Finishes, StepsInOrder
<1> QED
  BY <1>1, <1>2, <1>3 DEF ReadyInv, StageAtHand, WorkAtHand, PlansCover

-----------------------------------------------------------------------------
(* The span of a release's partitions.                                     *)

LEMMA LastIsMember ==
  ASSUME NEW S \in SUBSET Nat, S # {}, NEW b \in Nat, \A m \in S : m <= b
  PROVE  LastOf(S) \in S /\ \A n \in S : n <= LastOf(S)
<1> DEFINE D == {b - m : m \in S}
<1>1. D \in SUBSET Nat /\ D # {}
  <2>1. \A m \in S : b - m \in Nat
    OBVIOUS
  <2> QED
    BY <2>1
<1>2. FirstOf(D) \in D /\ \A n \in D : FirstOf(D) <= n
  BY <1>1, FirstIsMember
<1>3. PICK x \in S : FirstOf(D) = b - x
  BY <1>2
<1>4. \A n \in S : n <= x
  <2> TAKE n \in S
  <2>1. b - n \in D
    OBVIOUS
  <2>2. b - x <= b - n
    BY <1>2, <1>3, <2>1
  <2> QED
    BY <2>2
<1> QED
  BY <1>4 DEF LastOf

LEMMA WindowSpan ==
  ASSUME NEW j \in Jobs
  PROVE  /\ Need[j] \subseteq Months
         /\ Need[j] # {}
         /\ \A m \in Need[j] : FirstOf(Need[j]) <= m /\ m <= LastOf(Need[j])
         /\ FirstOf(Need[j]) \in Need[j] /\ LastOf(Need[j]) \in Need[j]
         /\ \A m \in Months :
              FirstOf(Need[j]) <= m /\ m <= LastOf(Need[j]) => m \in Need[j]
<1>1. PICK first, last \in Need[j] :
        Need[j] = {m \in Months : first <= m /\ m <= last}
  BY WindowAssumption
<1>2. Need[j] \subseteq Months /\ Months \subseteq Nat
  BY NeedAssumption
<1>3. FirstOf(Need[j]) \in Need[j] /\ \A m \in Need[j] : FirstOf(Need[j]) <= m
  BY <1>1, <1>2, FirstIsMember
<1>4. LastOf(Need[j]) \in Need[j] /\ \A m \in Need[j] : m <= LastOf(Need[j])
  <2>1. last \in Nat /\ \A m \in Need[j] : m <= last
    BY <1>1, <1>2
  <2> QED
    BY <1>1, <1>2, <2>1, LastIsMember
<1>5. ASSUME NEW m \in Months, FirstOf(Need[j]) <= m, m <= LastOf(Need[j])
      PROVE  m \in Need[j]
  <2>1. /\ first <= FirstOf(Need[j]) /\ LastOf(Need[j]) <= last
        /\ first \in Nat /\ last \in Nat /\ m \in Nat
        /\ FirstOf(Need[j]) \in Nat /\ LastOf(Need[j]) \in Nat
    BY <1>1, <1>2, <1>3, <1>4
  <2>2. first <= m /\ m <= last
    BY <1>5, <2>1
  <2> QED
    BY <1>1, <1>5, <2>2
<1> QED
  BY <1>1, <1>2, <1>3, <1>4, <1>5

(* A release whose registered partitions span a window covers it.          *)
LEMMA CandidateCovers ==
  ASSUME TypeInv, PartitionsInOrder, NEW j \in Jobs, NEW r \in Candidates(j)
  PROVE  Covers(j, r) /\ r # {}
<1> DEFINE covered == MonthsOf(Registered(r))
<1>1. PICK p \in catalog.part : r = p.release
  BY DEF Candidates
<1>2. PICK k \in Jobs : r = Need[k]
  BY <1>1 DEF PartitionsInOrder
<1>3. /\ FirstOf(covered) <= FirstOf(Need[j])
      /\ LastOf(Need[j]) <= LastOf(covered)
  <2>1. /\ FirstOf(covered) <= FirstOf(Need[j])
        /\ LastOf(covered) >= LastOf(Need[j])
    BY DEF Candidates
  <2> HIDE DEF covered
  <2>2. FirstOf(Need[j]) \in Nat /\ LastOf(Need[j]) \in Nat
    BY WindowSpan, NeedAssumption
  <2> QED
    BY <2>1
<1>4. \A m \in covered : \E q \in catalog.part : q.release = r /\ q.month = m
  BY DEF MonthsOf, Registered
<1>5. covered # {}
  BY <1>1 DEF MonthsOf, Registered
<1>6. \A m \in covered : m \in Need[k]
  BY <1>2, <1>4 DEF PartitionsInOrder
<1>7. ASSUME NEW m \in Months, [release |-> r, month |-> m] \in catalog.part
      PROVE  m \in covered
  BY <1>7 DEF MonthsOf, Registered
<1> HIDE DEF covered
<1>8. Need[k] \subseteq Months /\ Months \subseteq Nat /\ Need[j] \subseteq Months
  BY NeedAssumption
<1>9. FirstOf(covered) \in covered
  BY <1>5, <1>6, <1>8, FirstIsMember
<1>10. LastOf(covered) \in covered
  <2>1. LastOf(Need[k]) \in Nat /\ \A m \in covered : m <= LastOf(Need[k])
    BY <1>6, <1>8, WindowSpan
  <2> QED
    BY <1>5, <1>6, <1>8, <2>1, LastIsMember
<1>11. ASSUME NEW m \in Need[j] PROVE m \in covered
  <2> DEFINE a == FirstOf(covered)  b == LastOf(covered)
             f == FirstOf(Need[k])  l == LastOf(Need[k])
             fj == FirstOf(Need[j]) lj == LastOf(Need[j])
  <2>1. /\ f <= a /\ b <= l /\ fj <= m /\ m <= lj
        /\ f \in Need[k] /\ l \in Need[k] /\ fj \in Need[j] /\ lj \in Need[j]
    BY <1>6, <1>9, <1>10, WindowSpan
  <2>2. a <= fj /\ lj <= b /\ a \in Need[k] /\ b \in Need[k]
    BY <1>3, <1>6, <1>9, <1>10
  <2>3. b \in covered
    BY <1>10
  <2>4. f <= m /\ m <= l => m \in Need[k]
    BY <1>8, WindowSpan
  <2> HIDE DEF a, b, f, l, fj, lj
  <2>5. /\ a \in Nat /\ b \in Nat /\ f \in Nat /\ l \in Nat /\ m \in Nat
        /\ fj \in Nat /\ lj \in Nat
    BY <1>8, <2>1, <2>2
  <2>6. f <= m /\ m <= l /\ m <= b
    BY <2>1, <2>2, <2>5
  <2>7. m \in Need[k]
    BY <2>4, <2>6
  <2>8. PICK q \in catalog.part : q.release = r /\ q.month = b
    BY <1>4, <2>3
  <2>9. CASE m = b
    BY <2>3, <2>9
  <2>10. CASE m # b
    <3>1. m < b
      BY <2>5, <2>6, <2>10
    <3>2. [release |-> r, month |-> m] \in catalog.part
      BY <1>2, <2>7, <2>8, <3>1 DEF PartitionsInOrder
    <3> QED
      BY <1>7, <1>8, <3>2
  <2> QED
    BY <2>9, <2>10
<1>12. r # {}
  BY <1>2, WindowSpan
<1> QED
  BY <1>11, <1>12 DEF Covers, covered

(* With at most one candidate, the release of the plan is that one.        *)
LEMMA PlannedReleaseCovers ==
  ASSUME TypeInv, PartitionsInOrder, NEW j \in Jobs,
         Cardinality(Candidates(j)) <= 1, UNION Candidates(j) # {}
  PROVE  Covers(j, UNION Candidates(j))
<1>1. PICK r \in Candidates(j) : TRUE
  OBVIOUS
<1>2. IsFiniteSet({p.release : p \in catalog.part})
  <2> DEFINE releases == {p.release : p \in catalog.part}
             f == [p \in catalog.part |-> p.release]
  <2>1. f \in Surjection(catalog.part, releases)
    BY DEF Surjection
  <2> HIDE DEF releases, f
  <2>2. IsFiniteSet(releases)
    BY <2>1, FS_Surjection DEF PartitionsInOrder
  <2> QED
    BY <2>2 DEF releases
<1>3. Candidates(j) \subseteq {p.release : p \in catalog.part}
  BY DEF Candidates
<1>4. IsFiniteSet(Candidates(j))
  BY <1>2, <1>3, FS_Subset
<1> HIDE DEF Candidates
<1>5. /\ IsFiniteSet(Candidates(j) \ {r})
      /\ Cardinality(Candidates(j) \ {r}) = Cardinality(Candidates(j)) - 1
  BY <1>1, <1>4, FS_RemoveElement
<1>6. Cardinality(Candidates(j)) \in Nat /\ Cardinality(Candidates(j) \ {r}) \in Nat
  BY <1>4, <1>5, FS_CardinalityType
<1>7. Cardinality(Candidates(j) \ {r}) = 0
  BY <1>5, <1>6
<1>8. Candidates(j) \ {r} = {}
  BY <1>5, <1>7, FS_EmptySet
<1>9. UNION Candidates(j) = r
  BY <1>1, <1>8
<1> QED
  BY <1>1, <1>9, CandidateCovers

-----------------------------------------------------------------------------
(* What a step leaves of the evidence there is.                            *)

LEMMA Grows ==
  ASSUME TypeInv, [Next]_vars
  PROVE  /\ catalog.part \subseteq catalog'.part
         /\ catalog.snap \subseteq catalog'.snap
         /\ rawManifest \subseteq rawManifest'
<1>1. CASE UNCHANGED <<catalog, rawManifest>>
  BY <1>1
<1>2. ASSUME NEW m \in Months, FetchManifest(m)
      PROVE  UNCHANGED catalog /\ rawManifest \subseteq rawManifest'
  BY <1>2 DEF FetchManifest
<1>3. CASE OpenCatalog \/ Migrate \/ RegisterSchemas \/ RegisterFetched
           \/ RegisterSource \/ RegisterPartition \/ RegisterDataset
  BY <1>3 DEF OpenCatalog, Migrate, RegisterSchemas, RegisterFetched,
     RegisterSource, RegisterPartition, RegisterDataset, disk, TypeInv, TypeOK
<1>4. ASSUME \/ \E j \in Jobs : Plan(j) \/ Create(j) \/ Resume(j)
             \/ MarkRunning \/ BeginStep \/ StepSucceeds \/ StepFails
             \/ JobFails \/ JobSucceeds \/ Discover \/ JoinFetches
             \/ CollectAcquired \/ GroupMonths \/ WriteParquet
             \/ WritePartitionManifest \/ ResolveSnapshot
             \/ WriteSnapshotFile \/ WriteReadiness \/ WriteLineage
             \/ \E m \in Months : FetchFile(m) \/ FetchRaises(m)
             \/ Raises \/ Interrupt \/ UNCHANGED vars
      PROVE  UNCHANGED <<catalog, rawManifest>>
  BY <1>4 DEF Plan, Create, Resume, MarkRunning, BeginStep, StepSucceeds,
     StepFails, JobFails, JobSucceeds, Discover, JoinFetches, CollectAcquired,
     GroupMonths, WriteParquet, WritePartitionManifest, ResolveSnapshot,
     WriteSnapshotFile, WriteReadiness, WriteLineage, FetchFile, FetchRaises,
     Raises, Interrupt, disk, vars
<1> QED
  BY <1>1, <1>2, <1>3, <1>4 DEF Next, CallStep

LEMMA CoversLasts ==
  ASSUME catalog.part \subseteq catalog'.part, NEW j, NEW release,
         Covers(j, release)
  PROVE  Covers(j, release)'
BY DEF Covers, MonthsOf, Registered

(* The copy and the file agree, so that both have the evidence.            *)
LEMMA OwnAcquired ==
  ASSUME HeldInv, ReadyInv, active \in Jobs, held.step[1] = "succeeded", Own
  PROVE  Acquired = Need[active]
BY DEF HeldInv, Agree, ReadyInv, Evidence, Acquires, Own, Acquired

LEMMA OwnNormalized ==
  ASSUME HeldInv, ReadyInv, active \in Jobs, held.step[2] = "succeeded", Own
  PROVE  held.normalized = [release : {Need[active]}, month : Need[active]]
         /\ held.normalized \subseteq catalog.part
<1>1. job[active].step[2] = "succeeded" /\ held.normalized = job[active].normalized
  BY DEF HeldInv, Agree
<1>2. Normalizes(active)
  BY DEF ReadyInv, Evidence
<1> QED
  BY <1>1, <1>2 DEF Normalizes, Own

LEMMA ReleaseCovers ==
  ASSUME HeldInv, ReadyInv, active \in Jobs, held.step[2] = "succeeded"
  PROVE  Covers(active, Release)
<1>1. CASE Own
  <2>1. /\ held.normalized = [release : {Need[active]}, month : Need[active]]
        /\ held.normalized \subseteq catalog.part
    BY <1>1, OwnNormalized
  <2>2. PICK n \in Need[active] : TRUE
    BY WindowSpan
  <2>3. \A m \in Need[active] :
          [release |-> Need[active], month |-> m] \in held.normalized
    BY <2>1
  <2>4. \A p \in held.normalized : p.release = Need[active]
    BY <2>1
  <2>5. Release = Need[active]
    BY <1>1, <2>2, <2>3, <2>4 DEF Release, Own
  <2>6. \A m \in Need[active] :
          [release |-> Release, month |-> m] \in Registered(Release)
    BY <2>1, <2>3, <2>5 DEF Registered
  <2>7. ASSUME NEW m \in Need[active] PROVE m \in MonthsOf(Registered(Release))
    <3> DEFINE p == [release |-> Release, month |-> m]
    <3>1. p \in Registered(Release) /\ p.month = m
      BY <2>6
    <3> HIDE DEF p
    <3> QED
      BY <3>1 DEF MonthsOf
  <2> QED
    BY <2>7 DEF Covers
<1>2. CASE ~Own
  <2>1. plan[active] # None
    BY DEF HeldInv, ReadyInv, PlansCover
  <2>2. Release = plan[active].release /\ plan[active].release # {}
    BY <1>2 DEF Own, Release
  <2> QED
    BY <2>1, <2>2 DEF ReadyInv, PlansCover
<1> QED
  BY <1>1, <1>2

LEMMA PartitionsNext ==
  ASSUME TypeInv, HeldInv, ReadyInv, [Next]_vars
  PROVE  PartitionsInOrder'
<1>1. CASE UNCHANGED catalog.part
  BY <1>1 DEF ReadyInv, PartitionsInOrder
<1>2. CASE RegisterPartition
  <2>1. /\ at = "partition" /\ active \in Jobs
        /\ Own /\ held.step[1] = "succeeded"
    BY <1>2, CallHasJob DEF RegisterPartition, ReadyInv, StageAtHand,
       WorkAtHand, InAGroup, NormalizePlaces, TypeInv, TypeOK
  <2>2. Acquired = Need[active]
    BY <2>1, OwnAcquired
  <2>3. month \in Acquired /\ \A m \in Acquired : m < month =>
          OwnPartition(m) \in catalog.part
    BY <2>1 DEF ReadyInv, WorkAtHand, InAGroup, TypeInv, GroupAtHand
  <2>4. \/ catalog'.part = catalog.part
        \/ catalog'.part = catalog.part \cup {Partition}
    BY <1>2 DEF RegisterPartition, TypeInv, TypeOK
  <2>5. IsFiniteSet(catalog'.part)
    BY <2>4, FS_AddElement DEF ReadyInv, PartitionsInOrder
  <2> DEFINE Placed(p) ==
        /\ \E k \in Jobs : p.release = Need[k]
        /\ p.month \in p.release
        /\ \A m \in p.release : m < p.month =>
             [release |-> p.release, month |-> m] \in catalog'.part
  <2>6. Placed(Partition)
    <3>1. Partition.release = Acquired /\ Partition.month = month
      BY DEF Partition
    <3>2. \A m \in Acquired : m < month =>
            [release |-> Acquired, month |-> m] \in catalog'.part
      BY <2>3, <2>4 DEF OwnPartition
    <3> QED
      BY <2>1, <2>2, <2>3, <3>1, <3>2
  <2>7. ASSUME NEW p \in catalog.part PROVE Placed(p)
    BY <2>4, <2>7 DEF ReadyInv, PartitionsInOrder
  <2> HIDE DEF Placed
  <2>8. \A p \in catalog'.part : Placed(p)
    BY <2>4, <2>6, <2>7
  <2> QED
    BY <2>5, <2>8 DEF PartitionsInOrder, Placed
<1>3. CASE OpenCatalog \/ Migrate \/ RegisterSchemas \/ RegisterFetched
           \/ RegisterSource \/ RegisterDataset
  <2>1. catalog'.part = catalog.part
    BY <1>3 DEF OpenCatalog, Migrate, RegisterSchemas, RegisterFetched,
       RegisterSource, RegisterDataset, TypeInv, TypeOK
  <2> QED
    BY <1>1, <2>1
<1>4. ASSUME \/ \E j \in Jobs : Plan(j) \/ Create(j) \/ Resume(j)
             \/ MarkRunning \/ BeginStep \/ StepSucceeds \/ StepFails
             \/ JobFails \/ JobSucceeds \/ Discover \/ JoinFetches
             \/ CollectAcquired \/ GroupMonths \/ WriteParquet
             \/ WritePartitionManifest \/ ResolveSnapshot
             \/ WriteSnapshotFile \/ WriteReadiness \/ WriteLineage
             \/ \E m \in Months :
                  FetchFile(m) \/ FetchManifest(m) \/ FetchRaises(m)
             \/ Raises \/ Interrupt \/ UNCHANGED vars
      PROVE  UNCHANGED catalog
  BY <1>4 DEF Plan, Create, Resume, MarkRunning, BeginStep, StepSucceeds,
     StepFails, JobFails, JobSucceeds, Discover, JoinFetches, CollectAcquired,
     GroupMonths, WriteParquet, WritePartitionManifest, ResolveSnapshot,
     WriteSnapshotFile, WriteReadiness, WriteLineage, FetchFile,
     FetchManifest, FetchRaises, Raises, Interrupt, vars
<1> QED
  BY <1>1, <1>2, <1>3, <1>4 DEF Next, CallStep

(* Steps that write the job without adding to what has succeeded.          *)
LEMMA CopyWritten ==
  ASSUME TypeInv, HeldInv, ReadyInv,
         MarkRunning \/ BeginStep \/ StepFails \/ JobFails
  PROVE  /\ active \in Jobs
         /\ \A j \in Jobs \ {active} : job'[j] = job[j]
         /\ Agree(job'[active], job[active])
         /\ job'[active].status \notin {"none", "succeeded"}
<1> USE DEF Goes
<1>1. active \in Jobs
  BY CallHasJob DEF MarkRunning, BeginStep, StepFails, JobFails, TypeInv
<1>2. /\ job[active] \in JobRecords /\ held \in JobRecords
      /\ Agree(job[active], held)
      /\ held.status \notin {"none", "succeeded"}
      /\ job[active].status \notin {"none", "succeeded"}
  BY <1>1 DEF TypeInv, TypeOK, HeldInv, ReadyInv, StageAtHand, Evidence,
     Finishes
<1>3. PICK copy : /\ job' = [job EXCEPT ![active] = copy]
                  /\ Agree(copy, job[active])
                  /\ copy.status \notin {"none", "succeeded"}
  <2>1. CASE MarkRunning
    <3> DEFINE copy == [held EXCEPT !.status = "running"]
    <3>1. job' = [job EXCEPT ![active] = copy]
      BY <2>1 DEF MarkRunning, Record
    <3>2. Agree(copy, job[active]) /\ copy.status = "running"
      BY <1>2 DEF Agree, JobRecords
    <3> QED
      BY <3>1, <3>2
  <2>2. CASE BeginStep /\ Skips
    <3>1. job' = [job EXCEPT ![active] = job[active]]
      BY <2>2 DEF BeginStep, TypeInv, TypeOK
    <3> QED
      BY <1>2, <3>1 DEF Agree
  <2>3. CASE BeginStep /\ ~Skips
    <3> DEFINE copy == Stepped(held, "running")
    <3>1. job' = [job EXCEPT ![active] = copy] /\ stage \in 1 .. 4
      BY <2>3 DEF BeginStep, Record, TypeInv, TypeOK
    <3>2. held.step[stage] # "succeeded"
      BY <2>3 DEF Skips
    <3>3. Agree(copy, held) /\ copy.status = held.status
      BY <1>2, <3>1, <3>2 DEF Stepped, Agree, JobRecords
    <3>4. Agree(copy, job[active])
      BY <1>2, <3>3 DEF Agree
    <3> QED
      BY <1>2, <3>1, <3>3, <3>4
  <2>4. CASE StepFails
    <3> DEFINE copy == Stepped(job[active], "failed")
    <3>1. /\ job' = [job EXCEPT ![active] = copy]
          /\ at = "step_failed" /\ stage \in 1 .. 4
      BY <2>4 DEF StepFails, Record, TypeInv, InAStep
    <3>2. job[active].step[stage] # "succeeded"
      BY <1>1, <3>1 DEF HeldInv, Agree, Working
    <3>3. Agree(copy, job[active]) /\ copy.status = job[active].status
      BY <1>2, <3>1, <3>2 DEF Stepped, Agree, JobRecords
    <3> QED
      BY <1>2, <3>1, <3>3
  <2>5. CASE JobFails
    <3> DEFINE copy == [held EXCEPT !.status = "failed"]
    <3>1. job' = [job EXCEPT ![active] = copy]
      BY <2>5 DEF JobFails, Record
    <3>2. Agree(copy, job[active]) /\ copy.status = "failed"
      BY <1>2 DEF Agree, JobRecords
    <3> QED
      BY <3>1, <3>2
  <2> QED
    BY <2>1, <2>2, <2>3, <2>4, <2>5
<1>4. /\ job'[active] = copy
      /\ \A j \in Jobs \ {active} : job'[j] = job[j]
  BY <1>1, <1>3 DEF TypeInv, TypeOK
<1> QED
  BY <1>1, <1>3, <1>4

(* The step that succeeds keeps what the others left.                      *)
LEMMA OutcomeWritten ==
  ASSUME TypeInv, HeldInv, ReadyInv, StepSucceeds
  PROVE  /\ active \in Jobs /\ stage \in 1 .. 4 /\ at = "step_done"
         /\ active' = active /\ stage' = stage + 1 /\ at' = "begin"
         /\ job'[active] = held'
         /\ \A j \in Jobs \ {active} : job'[j] = job[j]
         /\ held'.status = job[active].status
         /\ \A k \in 1 .. 4 :
              (held'.step[k] = "succeeded")
                <=> (k = stage \/ job[active].step[k] = "succeeded")
         /\ held'.acquired = IF stage # 1 THEN job[active].acquired
                             ELSE IF Own THEN Need[active] ELSE {}
         /\ held'.normalized = IF stage # 2 THEN job[active].normalized
                               ELSE IF Own
                               THEN [release : {Acquired}, month : Acquired]
                               ELSE {}
         /\ held'.snapshot = IF stage = 3 THEN Snapshot
                             ELSE job[active].snapshot
<1>1. active \in Jobs /\ stage \in 1 .. 4 /\ at = "step_done"
  BY CallHasJob DEF StepSucceeds, TypeInv, InAStep
<1>2. job[active] \in JobRecords
  BY <1>1 DEF TypeInv, TypeOK
<1> DEFINE copy == Stepped(job[active], "succeeded")
<1>3. /\ copy \in JobRecords
      /\ copy.status = job[active].status
      /\ copy.acquired = job[active].acquired
      /\ copy.normalized = job[active].normalized
      /\ copy.snapshot = job[active].snapshot
      /\ copy.step = [job[active].step EXCEPT ![stage] = "succeeded"]
  BY <1>1, <1>2 DEF Stepped, JobRecords, Statuses
<1>4. held' = WithOutputs(copy)
  BY DEF StepSucceeds
<1>5. \A k \in 1 .. 4 : (copy.step[k] = "succeeded")
        <=> (k = stage \/ job[active].step[k] = "succeeded")
  BY <1>1, <1>2, <1>3 DEF JobRecords
<1> HIDE DEF copy
<1>6. /\ held'.status = copy.status /\ held'.step = copy.step
      /\ held'.acquired = IF stage # 1 THEN copy.acquired
                          ELSE IF Own THEN Need[active] ELSE {}
      /\ held'.normalized = IF stage # 2 THEN copy.normalized
                            ELSE IF Own
                            THEN [release : {Acquired}, month : Acquired]
                            ELSE {}
      /\ held'.snapshot = IF stage = 3 THEN Snapshot ELSE copy.snapshot
  BY <1>1, <1>3, <1>4 DEF WithOutputs, JobRecords, Own
<1>7. /\ job' = [job EXCEPT ![active] = held']
      /\ active' = active /\ stage' = stage + 1 /\ at' = "begin"
  BY DEF StepSucceeds, Record, Goes
<1>8. job'[active] = held' /\ \A j \in Jobs \ {active} : job'[j] = job[j]
  BY <1>1, <1>7 DEF TypeInv, TypeOK
<1> QED
  BY <1>1, <1>3, <1>5, <1>6, <1>7, <1>8

LEMMA PlansNext ==
  ASSUME TypeInv, HeldInv, ReadyInv, [Next]_vars
  PROVE  PlansCover'
<1>1. catalog.part \subseteq catalog'.part
  BY Grows
<1>2. ASSUME plan' = plan,
             \A j \in Jobs : job'[j].status # "none" => plan[j] # None
      PROVE  PlansCover'
  BY <1>1, <1>2, CoversLasts DEF ReadyInv, PlansCover
<1>3. ASSUME plan' = plan, job' = job PROVE PlansCover'
  BY <1>2, <1>3 DEF ReadyInv, PlansCover
<1>4. ASSUME NEW i \in Jobs, Plan(i) PROVE PlansCover'
  <2>1. /\ plan' = [plan EXCEPT ![i] = Observed(i)] /\ UNCHANGED <<job, catalog>>
        /\ job[i].status = "none" /\ Cardinality(Candidates(i)) <= 1
    BY <1>4 DEF Plan
  <2>2. Observed(i).release = UNION Candidates(i)
    BY DEF Observed
  <2>3. \A j \in Jobs : plan'[j] = IF j = i THEN Observed(i) ELSE plan[j]
    BY <2>1 DEF TypeInv, TypeOK
  <2>4. Observed(i).release # {} => Covers(i, Observed(i).release)
    BY <2>1, <2>2, PlannedReleaseCovers DEF ReadyInv
  <2> HIDE DEF Observed
  <2>5. \A j, r : Covers(j, r)' = Covers(j, r)
    BY <2>1 DEF Covers, MonthsOf, Registered
  <2> QED
    BY <2>1, <2>3, <2>4, <2>5 DEF ReadyInv, PlansCover
<1>5. ASSUME NEW i \in Jobs, Create(i) PROVE PlansCover'
  <2>1. /\ job' = [job EXCEPT ![i] = Fresh] /\ plan' = plan /\ plan[i] # None
    BY <1>5 DEF Create, given
  <2> QED
    BY <1>2, <2>1 DEF ReadyInv, PlansCover, TypeInv, TypeOK
<1>6. ASSUME NEW i \in Jobs, Resume(i) PROVE PlansCover'
  BY <1>3, <1>6 DEF Resume, given
<1>7. active \in Jobs => plan[active] # None
  BY DEF HeldInv, ReadyInv, PlansCover
<1>8. CASE MarkRunning \/ BeginStep \/ StepFails \/ JobFails
  <2>1. active \in Jobs /\ \A j \in Jobs \ {active} : job'[j] = job[j]
    BY <1>8, CopyWritten
  <2>2. plan' = plan
    BY <1>8 DEF MarkRunning, BeginStep, StepFails, JobFails, given
  <2> QED
    BY <1>2, <1>7, <2>1, <2>2 DEF ReadyInv, PlansCover
<1>9. CASE StepSucceeds
  <2>1. active \in Jobs /\ \A j \in Jobs \ {active} : job'[j] = job[j]
    BY <1>9, OutcomeWritten
  <2>2. plan' = plan
    BY <1>9 DEF StepSucceeds, given
  <2> QED
    BY <1>2, <1>7, <2>1, <2>2 DEF ReadyInv, PlansCover
<1>10. CASE JobSucceeds
  <2>1. active \in Jobs /\ \A j \in Jobs \ {active} : job'[j] = job[j]
    BY <1>10, CallHasJob DEF JobSucceeds, Record, TypeInv, TypeOK
  <2>2. plan' = plan
    BY <1>10 DEF JobSucceeds, given
  <2> QED
    BY <1>2, <1>7, <2>1, <2>2 DEF ReadyInv, PlansCover
<1>11. ASSUME \/ OpenCatalog \/ Migrate \/ RegisterSchemas \/ Discover
              \/ JoinFetches \/ RegisterFetched \/ CollectAcquired
              \/ \E m \in Months :
                   FetchFile(m) \/ FetchManifest(m) \/ FetchRaises(m)
              \/ GroupMonths \/ RegisterSource \/ WriteParquet
              \/ WritePartitionManifest \/ RegisterPartition
              \/ ResolveSnapshot \/ WriteSnapshotFile \/ RegisterDataset
              \/ WriteReadiness \/ WriteLineage \/ Raises \/ Interrupt
              \/ UNCHANGED vars
       PROVE  plan' = plan /\ job' = job
  BY <1>11 DEF OpenCatalog, Migrate, RegisterSchemas, Discover, JoinFetches,
     RegisterFetched, CollectAcquired, FetchFile, FetchManifest, FetchRaises,
     GroupMonths, RegisterSource, WriteParquet, WritePartitionManifest,
     RegisterPartition, ResolveSnapshot, WriteSnapshotFile, RegisterDataset,
     WriteReadiness, WriteLineage, Raises, Interrupt, vars, given
<1> QED
  BY <1>3, <1>4, <1>5, <1>6, <1>8, <1>9, <1>10, <1>11 DEF Next, CallStep

LEMMA StageNext ==
  ASSUME TypeInv, HeldInv, ReadyInv, [Next]_vars
  PROVE  StageAtHand'
<1> USE NoneAssumption DEF Goes
<1> DEFINE Elsewhere ==
      at' \notin AcquirePlaces \cup NormalizePlaces \cup
        {"resolve", "snapshot_file", "dataset", "verify", "lineage"}
<1>1. ASSUME UNCHANGED <<active, held, stage>>,
             active \in Jobs =>
               /\ at' \in AcquirePlaces => stage = 1
               /\ at' \in NormalizePlaces => stage = 2
               /\ at' \in {"resolve", "snapshot_file", "dataset"} => stage = 3
               /\ at' \in {"verify", "lineage"} => stage = 4
      PROVE  StageAtHand'
  BY <1>1 DEF ReadyInv, StageAtHand
<1>2. ASSUME UNCHANGED <<active, held, stage>>, Elsewhere PROVE StageAtHand'
  BY <1>1, <1>2
<1>3. ASSUME \/ \E j \in Jobs : Plan(j)
             \/ JobFails \/ JobSucceeds \/ Interrupt
      PROVE  StageAtHand'
  <2>1. active' = None
    BY <1>3 DEF Plan, JobFails, JobSucceeds, Interrupt, CallEnds, call
  <2> QED
    BY <2>1 DEF StageAtHand
<1>4. ASSUME NEW j \in Jobs, Create(j) \/ Resume(j) PROVE StageAtHand'
  <2>1. /\ active' = j /\ stage' = 1 /\ at' = "mark"
        /\ held'.status # "succeeded"
    BY <1>4 DEF Create, Resume, CallBegins, Fresh
  <2> QED
    BY <2>1 DEF StageAtHand, AcquirePlaces, NormalizePlaces, InAGroup
<1>5. CASE MarkRunning
  <2>1. /\ held' = [held EXCEPT !.status = "running"] /\ at' = "open"
        /\ UNCHANGED <<active, stage>>
    BY <1>5 DEF MarkRunning
  <2>2. held'.step = held.step /\ held'.status = "running"
    BY <2>1 DEF TypeInv, TypeOK, JobRecords
  <2> QED
    BY <2>1, <2>2 DEF ReadyInv, StageAtHand, AcquirePlaces, NormalizePlaces,
       InAGroup
<1>6. CASE StepSucceeds
  <2>1. /\ active \in Jobs /\ stage \in 1 .. 4 /\ at' = "begin"
        /\ stage' = stage + 1 /\ active' = active
        /\ held'.status = job[active].status
        /\ \A k \in 1 .. 4 : (held'.step[k] = "succeeded")
             <=> (k = stage \/ job[active].step[k] = "succeeded")
    BY <1>6, OutcomeWritten
  <2>2. job[active].status # "succeeded"
    BY <2>1 DEF ReadyInv, Evidence, Finishes
  <2>3. \A k \in 1 .. 4 : k < stage => job[active].step[k] = "succeeded"
    BY <2>1 DEF ReadyInv, StageAtHand, HeldInv, Agree
  <2>4. \A k \in 1 .. 4 : k < stage' => held'.step[k] = "succeeded"
    BY <2>1, <2>3
  <2> QED
    BY <2>1, <2>2, <2>4 DEF StageAtHand, AcquirePlaces, NormalizePlaces,
       InAGroup
<1>7. CASE BeginStep
  <2>1. stage \in 1 .. 4 /\ at = "begin" /\ UNCHANGED <<active, held>>
    BY <1>7 DEF BeginStep, TypeInv, TypeOK
  <2>2. CASE Skips
    <3>1. stage' = stage + 1 /\ at' = "begin"
      BY <1>7, <2>1, <2>2 DEF BeginStep
    <3>2. \A k \in 1 .. 4 :
            k < stage' => k < stage \/ held.step[k] = "succeeded"
      BY <2>1, <2>2, <3>1 DEF Skips
    <3> QED
      BY <2>1, <3>1, <3>2 DEF ReadyInv, StageAtHand, AcquirePlaces,
         NormalizePlaces, InAGroup
  <2>3. CASE ~Skips
    <3>1. at' = FirstPlace[stage] /\ stage' = stage
      BY <1>7, <2>3 DEF BeginStep
    <3>2. /\ at' \in AcquirePlaces => stage = 1
          /\ at' \in NormalizePlaces => stage = 2
          /\ at' \in {"resolve", "snapshot_file", "dataset"} => stage = 3
          /\ at' \in {"verify", "lineage"} => stage = 4
      BY <2>1, <3>1 DEF FirstPlace, AcquirePlaces, NormalizePlaces, InAGroup
    <3> QED
      BY <1>1, <2>1, <3>1, <3>2
  <2> QED
    BY <2>2, <2>3
<1>8. CASE OpenCatalog \/ Migrate \/ RegisterSchemas \/ StepFails \/ Raises
  <2>1. UNCHANGED <<active, held, stage>>
    BY <1>8 DEF OpenCatalog, Migrate, RegisterSchemas, StepFails, Raises
  <2>2. at' \in {"migrate", "seed", "begin", "job_failed", "step_failed"}
    BY <1>8 DEF OpenCatalog, Migrate, RegisterSchemas, StepFails, Raises
  <2> QED
    BY <1>2, <2>1, <2>2 DEF AcquirePlaces, NormalizePlaces, InAGroup
<1>9. ASSUME \/ Discover \/ JoinFetches \/ RegisterFetched \/ CollectAcquired
             \/ \E m \in Months :
                  FetchFile(m) \/ FetchManifest(m) \/ FetchRaises(m)
      PROVE  StageAtHand'
  <2>1. UNCHANGED <<active, held, stage>> /\ at \in AcquirePlaces
    BY <1>9 DEF Discover, JoinFetches, RegisterFetched, CollectAcquired,
       FetchFile, FetchManifest, FetchRaises, AcquirePlaces
  <2>2. at' \in AcquirePlaces \cup {"step_done", "step_failed"}
    BY <1>9 DEF Discover, JoinFetches, RegisterFetched, CollectAcquired,
       FetchFile, FetchManifest, FetchRaises, AcquirePlaces
  <2>3. active \in Jobs => stage = 1
    BY <2>1 DEF ReadyInv, StageAtHand
  <2> QED
    BY <1>1, <2>1, <2>2, <2>3 DEF AcquirePlaces, NormalizePlaces, InAGroup
<1>10. CASE GroupMonths \/ RegisterSource \/ WriteParquet
            \/ WritePartitionManifest \/ RegisterPartition
  <2>1. UNCHANGED <<active, held, stage>> /\ at \in NormalizePlaces
    BY <1>10 DEF GroupMonths, RegisterSource, WriteParquet,
       WritePartitionManifest, RegisterPartition, NormalizePlaces, InAGroup
  <2>2. at' \in NormalizePlaces \cup {"step_done", "step_failed"}
    BY <1>10 DEF GroupMonths, RegisterSource, WriteParquet,
       WritePartitionManifest, RegisterPartition, NextGroup, NormalizePlaces,
       InAGroup
  <2>3. active \in Jobs => stage = 2
    BY <2>1 DEF ReadyInv, StageAtHand
  <2> QED
    BY <1>1, <2>1, <2>2, <2>3 DEF AcquirePlaces, NormalizePlaces, InAGroup
<1>11. CASE ResolveSnapshot \/ WriteSnapshotFile \/ RegisterDataset
  <2>1. /\ UNCHANGED <<active, held, stage>>
        /\ at \in {"resolve", "snapshot_file", "dataset"}
    BY <1>11 DEF ResolveSnapshot, WriteSnapshotFile, RegisterDataset
  <2>2. at' \in {"snapshot_file", "dataset", "step_done", "step_failed"}
    BY <1>11 DEF ResolveSnapshot, WriteSnapshotFile, RegisterDataset
  <2>3. active \in Jobs => stage = 3
    BY <2>1 DEF ReadyInv, StageAtHand
  <2> QED
    BY <1>1, <2>1, <2>2, <2>3 DEF AcquirePlaces, NormalizePlaces, InAGroup
<1>12. CASE WriteReadiness \/ WriteLineage
  <2>1. UNCHANGED <<active, held, stage>> /\ at \in {"verify", "lineage"}
    BY <1>12 DEF WriteReadiness, WriteLineage
  <2>2. at' \in {"lineage", "step_done", "step_failed"}
    BY <1>12 DEF WriteReadiness, WriteLineage
  <2>3. active \in Jobs => stage = 4
    BY <2>1 DEF ReadyInv, StageAtHand
  <2> QED
    BY <1>1, <2>1, <2>2, <2>3 DEF AcquirePlaces, NormalizePlaces, InAGroup
<1>13. CASE UNCHANGED vars
  BY <1>13 DEF vars, call, ReadyInv, StageAtHand
<1> QED
  BY <1>3, <1>4, <1>5, <1>6, <1>7, <1>8, <1>9, <1>10, <1>11, <1>12, <1>13
     DEF Next, CallStep

(* The work of a step, up to its outcome.                                  *)
LEMMA WorkNext ==
  ASSUME TypeInv, BackedInv, HeldInv, ReadyInv, [Next]_vars
  PROVE  WorkAtHand'
<1> USE NoneAssumption DEF Goes
<1>1. ASSUME at' \notin {"step_done", "lineage"} \cup InAGroup PROVE WorkAtHand'
  BY <1>1 DEF WorkAtHand, InAGroup
<1>2. ASSUME \/ \E j \in Jobs : Plan(j) \/ Create(j) \/ Resume(j)
             \/ MarkRunning \/ OpenCatalog \/ Migrate \/ RegisterSchemas
             \/ StepSucceeds \/ StepFails \/ JobFails \/ JobSucceeds
             \/ JoinFetches \/ RegisterFetched
             \/ \E m \in Months :
                  FetchFile(m) \/ FetchManifest(m) \/ FetchRaises(m)
             \/ WriteSnapshotFile \/ Raises \/ Interrupt
      PROVE  WorkAtHand'
  <2>1. ASSUME NEW j \in Jobs, Plan(j) PROVE at' = "idle"
    BY <2>1 DEF Plan, call, TypeInv, TypeOK
  <2>2. at' \in {"idle", "mark", "open", "migrate", "seed", "begin",
                 "job_failed", "step_failed", "fetch", "register_raw",
                 "collect", "dataset"}
    BY <1>2, <2>1 DEF Create, Resume, CallBegins, MarkRunning, OpenCatalog,
       Migrate, RegisterSchemas, StepSucceeds, StepFails, JobFails,
       JobSucceeds, CallEnds, JoinFetches, RegisterFetched, FetchFile,
       FetchManifest, FetchRaises, WriteSnapshotFile, Raises, Interrupt
  <2> QED
    BY <1>1, <2>2 DEF InAGroup
<1>3. CASE BeginStep
  <2>1. stage \in 1 .. 4
    BY <1>3 DEF BeginStep, TypeInv, TypeOK
  <2>2. at' \in {"begin", "discover", "group", "resolve", "verify"}
    BY <1>3, <2>1 DEF BeginStep, FirstPlace
  <2> QED
    BY <1>1, <2>2 DEF InAGroup
<1>4. CASE Discover
  <2>1. at' = "step_done" => ~Own' /\ stage' = 1
    BY <1>4 DEF Discover, Own, given, ReadyInv, StageAtHand, AcquirePlaces,
       TypeInv, TypeOK
  <2>2. at' \in {"step_done", "collect", "fetch"}
    BY <1>4 DEF Discover
  <2> QED
    BY <2>1, <2>2 DEF WorkAtHand, InAGroup
<1>5. CASE CollectAcquired
  <2>1. /\ at' = "step_done" => Need[active] \subseteq rawManifest
        /\ at' \in {"step_done", "step_failed"}
        /\ UNCHANGED <<active, stage, rawManifest>>
        /\ active \in Jobs => stage = 1
    BY <1>5 DEF CollectAcquired, Complete, disk, ReadyInv, StageAtHand,
       AcquirePlaces
  <2> QED
    BY <2>1 DEF WorkAtHand, InAGroup
<1>6. ASSUME UNCHANGED <<plan, active, held, rawManifest>>
      PROVE  /\ Own' = Own /\ Acquired' = Acquired
             /\ \A m : OwnPartition(m)' = OwnPartition(m)
  BY <1>6 DEF Own, Acquired, OwnPartition
<1>7. CASE GroupMonths
  <2>1. UNCHANGED <<plan, active, held, rawManifest, stage>> /\ at = "group"
    BY <1>7 DEF GroupMonths, given, disk
  <2>2. /\ Own' = Own /\ Acquired' = Acquired
    BY <1>6, <2>1
  <2>3. active \in Jobs => stage = 2
    BY <2>1 DEF ReadyInv, StageAtHand, NormalizePlaces
  <2>4. CASE ~Own
    BY <1>7, <2>1, <2>2, <2>3, <2>4
       DEF GroupMonths, Own, WorkAtHand, InAGroup
  <2>5. CASE Own /\ Acquired = {}
    BY <1>1, <1>7, <2>5 DEF GroupMonths, Own, InAGroup
  <2>6. CASE Own /\ Acquired # {}
    <3>1. at' = "source" /\ month' = FirstOf(Acquired)
      BY <1>7, <2>6 DEF GroupMonths, Own, NextGroup
    <3>2. Acquired \subseteq Nat
      BY NeedAssumption DEF Acquired, TypeInv, TypeOK
    <3>3. \A m \in Acquired : ~(m < FirstOf(Acquired))
      <4> DEFINE S == Acquired
      <4>1. S \in SUBSET Nat /\ S # {}
        BY <2>6, <3>2
      <4> HIDE DEF S
      <4>2. FirstOf(S) \in S /\ \A n \in S : FirstOf(S) <= n
        BY <4>1, FirstIsMember
      <4>3. ASSUME NEW n \in S PROVE ~(n < FirstOf(S))
        <5>1. n \in Nat /\ FirstOf(S) \in Nat /\ FirstOf(S) <= n
          BY <4>1, <4>2
        <5> QED
          BY <5>1
      <4> QED
        BY <4>3 DEF S
    <3> QED
      BY <2>2, <2>6, <3>1, <3>3 DEF WorkAtHand, InAGroup
  <2> QED
    BY <2>4, <2>5, <2>6
<1>8. CASE RegisterSource \/ WriteParquet \/ WritePartitionManifest
  <2>1. /\ UNCHANGED <<plan, active, held, rawManifest, month>>
        /\ at \in InAGroup
        /\ at' \in {"parquet", "manifest", "partition", "step_failed"}
    BY <1>8 DEF RegisterSource, WriteParquet, WritePartitionManifest, given,
       disk, InAGroup
  <2>2. catalog'.part = catalog.part
    BY <1>8 DEF RegisterSource, WriteParquet, WritePartitionManifest,
       TypeInv, TypeOK
  <2>3. /\ Own' = Own /\ Acquired' = Acquired
        /\ \A m : OwnPartition(m)' = OwnPartition(m)
    BY <1>6, <2>1
  <2> QED
    BY <2>1, <2>2, <2>3 DEF ReadyInv, WorkAtHand
<1>9. CASE RegisterPartition
  <2>1. UNCHANGED <<plan, active, held, rawManifest, stage>> /\ at = "partition"
    BY <1>9 DEF RegisterPartition, given, disk
  <2>2. /\ Own' = Own /\ Acquired' = Acquired
        /\ \A m : OwnPartition(m)' = OwnPartition(m)
    BY <1>6, <2>1
  <2>3. /\ active \in Jobs /\ stage = 2 /\ Own
        /\ \A m \in Acquired : m < month => OwnPartition(m) \in catalog.part
        /\ month \in Acquired
    BY <2>1, CallHasJob DEF ReadyInv, StageAtHand, NormalizePlaces, WorkAtHand,
       InAGroup, TypeInv, GroupAtHand
  <2> DEFINE later == {m \in Acquired : m > month}
  <2>4. CASE at' = "step_failed"
    BY <1>1, <2>4 DEF InAGroup
  <2>5. CASE /\ catalog' = [catalog EXCEPT !.part = @ \cup {Partition}]
             /\ NextGroup(later)
    <3>1. catalog'.part = catalog.part \cup {OwnPartition(month)}
      BY <2>5 DEF Partition, OwnPartition, TypeInv, TypeOK
    <3>2. Acquired \subseteq Nat /\ later \subseteq Nat
      BY NeedAssumption DEF Acquired, TypeInv, TypeOK
    <3>3. \A m \in Acquired : m \in later \/ m < month \/ m = month
      BY <2>3, <3>2
    <3>4. \A m \in Acquired \ later : OwnPartition(m) \in catalog'.part
      BY <2>3, <3>1, <3>3
    <3>5. CASE later = {}
      <4>1. at' = "step_done"
        BY <2>5, <3>5 DEF NextGroup
      <4> QED
        BY <2>1, <2>2, <2>3, <3>4, <3>5, <4>1 DEF WorkAtHand, InAGroup
    <3>6. CASE later # {}
      <4>1. at' = "source" /\ month' = FirstOf(later)
        BY <2>5, <3>6 DEF NextGroup
      <4>2. \A m \in later : ~(m < FirstOf(later))
        BY <3>2, <3>6, FirstIsMember
      <4>3. \A m \in Acquired : m < month' => OwnPartition(m) \in catalog'.part
        BY <3>4, <4>1, <4>2
      <4> HIDE DEF later
      <4> QED
        BY <2>2, <2>3, <4>1, <4>3 DEF WorkAtHand, InAGroup
    <3> QED
      BY <3>5, <3>6
  <2> QED
    BY <1>9, <2>4, <2>5 DEF RegisterPartition
<1>10. CASE ResolveSnapshot
  <2>1. UNCHANGED <<given, active, held, catalog, stage>> /\ at = "resolve"
    BY <1>10 DEF ResolveSnapshot
  <2>2. Snapshot' = Snapshot
    BY <2>1 DEF Snapshot, Registered, Release, given
  <2>3. /\ at' = "step_done" => Snapshot \in catalog.snap
        /\ at' \in {"step_done", "step_failed", "snapshot_file"}
    BY <1>10 DEF ResolveSnapshot
  <2>4. active \in Jobs => stage = 3
    BY <2>1 DEF ReadyInv, StageAtHand
  <2> QED
    BY <2>1, <2>2, <2>3, <2>4 DEF WorkAtHand, InAGroup
<1>11. CASE RegisterDataset
  <2>1. UNCHANGED <<given, active, held, stage>> /\ at = "dataset"
    BY <1>11 DEF RegisterDataset
  <2>2. catalog'.part = catalog.part
        /\ (at' = "step_done" => Snapshot \in catalog'.snap)
        /\ at' \in {"step_done", "step_failed"}
    BY <1>11 DEF RegisterDataset, TypeInv, TypeOK
  <2>3. Snapshot' = Snapshot
    BY <2>1, <2>2 DEF Snapshot, Registered, Release, given
  <2>4. active \in Jobs => stage = 3
    BY <2>1 DEF ReadyInv, StageAtHand
  <2> QED
    BY <2>1, <2>2, <2>3, <2>4 DEF WorkAtHand, InAGroup
<1>12. CASE WriteReadiness
  <2>1. /\ UNCHANGED <<active, held>> /\ at' \in {"lineage", "step_failed"}
        /\ at' = "lineage" =>
             readiness' = [readiness EXCEPT ![active] = held.snapshot]
    BY <1>12 DEF WriteReadiness
  <2> QED
    BY <2>1 DEF WorkAtHand, InAGroup, TypeInv, TypeOK
<1>13. CASE WriteLineage
  <2>1. /\ UNCHANGED <<active, held, stage, readiness>> /\ at = "lineage"
        /\ lineage' = [lineage EXCEPT ![active] = Inspected]
        /\ at' = "step_done"
    BY <1>13 DEF WriteLineage
  <2>2. active \in Jobs /\ stage = 4 /\ readiness[active] = held.snapshot
    BY <2>1, CallHasJob DEF ReadyInv, StageAtHand, WorkAtHand, TypeInv
  <2>3. /\ job[active].step[3] = "succeeded"
        /\ job[active].snapshot = held.snapshot
    <3>1. held.step[3] = "succeeded"
      BY <2>2 DEF ReadyInv, StageAtHand
    <3> QED
      BY <2>2, <3>1 DEF HeldInv, Agree
  <2> DEFINE s == held.snapshot
  <2>4. s \in catalog.snap /\ \A p, q \in s.parts : p.release = q.release
    BY <2>2, <2>3 DEF ReadyInv, Evidence, Publishes
  <2>5. s.parts \subseteq catalog.part
    BY <2>4 DEF BackedInv, CatalogIsBacked
  <2>6. ASSUME NEW p \in s.parts PROVE p \in Inspected
    <3>1. ReleaseOf(s) = p.release
      BY <2>4, <2>6 DEF ReleaseOf
    <3> QED
      BY <2>5, <2>6, <3>1 DEF Inspected, Registered
  <2>7. lineage'[active] = Inspected
    BY <2>1, <2>2 DEF TypeInv, TypeOK
  <2> QED
    BY <2>1, <2>2, <2>6, <2>7 DEF WorkAtHand, InAGroup
<1>14. CASE UNCHANGED vars
  <2>1. UNCHANGED <<plan, active, held, month, rawManifest, catalog, at, stage,
                    readiness, lineage>>
    BY <1>14 DEF vars, given, call, disk, evidence
  <2>2. /\ Own' = Own /\ Acquired' = Acquired /\ Snapshot' = Snapshot
        /\ \A m : OwnPartition(m)' = OwnPartition(m)
    BY <1>6, <2>1, TermsFollow
  <2> QED
    BY <2>1, <2>2 DEF ReadyInv, WorkAtHand
<1> QED
  BY <1>2, <1>3, <1>4, <1>5, <1>7, <1>8, <1>9, <1>10, <1>11, <1>12, <1>13,
     <1>14 DEF Next, CallStep

(* A step that takes nothing back leaves a job its evidence.               *)
LEMMA EvidenceLasts ==
  ASSUME NEW j \in Jobs, Evidence(j),
         catalog.part \subseteq catalog'.part,
         catalog.snap \subseteq catalog'.snap,
         rawManifest \subseteq rawManifest',
         plan'[j] = plan[j], Agree(job'[j], job[j]),
         job'[j].status = "succeeded" =>
           active' # j /\ \A k \in 1 .. 4 : job[j].step[k] = "succeeded",
         job[j].step[4] = "succeeded" =>
           readiness'[j] = readiness[j] /\ lineage'[j] = lineage[j]
  PROVE  Evidence(j)'
<1>1. /\ job'[j].acquired = job[j].acquired
      /\ job'[j].normalized = job[j].normalized
      /\ job'[j].snapshot = job[j].snapshot
      /\ (job'[j].step[1] = "succeeded") <=> (job[j].step[1] = "succeeded")
      /\ (job'[j].step[2] = "succeeded") <=> (job[j].step[2] = "succeeded")
      /\ (job'[j].step[3] = "succeeded") <=> (job[j].step[3] = "succeeded")
      /\ (job'[j].step[4] = "succeeded") <=> (job[j].step[4] = "succeeded")
  BY DEF Agree
<1>2. Acquires(j)' /\ Normalizes(j)'
  BY <1>1 DEF Evidence, Acquires, Normalizes
<1>3. Publishes(j)' /\ IsReady(j)'
  BY <1>1 DEF Evidence, Publishes, IsReady
<1>4. Finishes(j)' /\ StepsInOrder(j)'
  BY DEF Finishes, Agree, StepsInOrder, Evidence
<1> QED
  BY <1>2, <1>3, <1>4 DEF Evidence

LEMMA NothingDone ==
  ASSUME NEW j \in Jobs, job'[j].status # "succeeded",
         \A k \in 1 .. 4 : job'[j].step[k] # "succeeded"
  PROVE  Evidence(j)'
BY DEF Evidence, Acquires, Normalizes, Publishes, IsReady, Finishes,
   StepsInOrder

(* A step that succeeds leaves the evidence of its own.                    *)
LEMMA OutcomeIsEvidence ==
  ASSUME TypeInv, BackedInv, HeldInv, ReadyInv, StepSucceeds
  PROVE  Evidence(active)'
<1> DEFINE j == active
           r == job[active]
<1>1. /\ j \in Jobs /\ stage \in 1 .. 4 /\ at = "step_done" /\ active' = j
      /\ job'[j] = held' /\ held'.status = r.status
      /\ \A k \in 1 .. 4 : (held'.step[k] = "succeeded")
           <=> (k = stage \/ r.step[k] = "succeeded")
      /\ held'.acquired = IF stage # 1 THEN r.acquired
                          ELSE IF Own THEN Need[active] ELSE {}
      /\ held'.normalized = IF stage # 2 THEN r.normalized
                            ELSE IF Own
                            THEN [release : {Acquired}, month : Acquired]
                            ELSE {}
      /\ held'.snapshot = IF stage = 3 THEN Snapshot ELSE r.snapshot
  BY OutcomeWritten
<1>2. UNCHANGED <<plan, rawManifest, catalog, readiness, lineage>>
  BY DEF StepSucceeds, given, disk, evidence
<1>3. Evidence(j) /\ WorkAtHand
  BY <1>1 DEF ReadyInv
<1>4. /\ Agree(r, held) /\ r.step[stage] # "succeeded"
      /\ \A k \in 1 .. 4 : k < stage => held.step[k] = "succeeded"
  BY <1>1 DEF HeldInv, Agree, Working, ReadyInv, StageAtHand
<1>5. Acquires(j)'
  <2>1. CASE stage = 1
    BY <1>1, <1>2, <1>3, <2>1 DEF Acquires, WorkAtHand, Own
  <2>2. CASE stage # 1
    BY <1>1, <1>2, <1>3, <2>2 DEF Acquires, Evidence
  <2> QED
    BY <2>1, <2>2
<1>6. Normalizes(j)'
  <2>1. CASE stage = 2 /\ Own
    <3>1. held.step[1] = "succeeded"
      BY <1>4, <2>1
    <3>2. Acquired = Need[j]
      BY <1>1, <2>1, <3>1, OwnAcquired
    <3>3. \A m \in Acquired : [release |-> Acquired, month |-> m] \in catalog.part
      BY <1>1, <1>3, <2>1 DEF WorkAtHand, OwnPartition
    <3>4. [release : {Need[j]}, month : Need[j]] \subseteq catalog.part
      BY <3>2, <3>3
    <3>5. held'.normalized = [release : {Need[j]}, month : Need[j]]
      BY <1>1, <2>1, <3>2
    <3> QED
      BY <1>1, <1>2, <3>4, <3>5 DEF Normalizes
  <2>2. CASE stage = 2 /\ ~Own
    BY <1>1, <1>2, <2>2 DEF Normalizes, Own
  <2>3. CASE stage # 2
    BY <1>1, <1>2, <1>3, <2>3 DEF Normalizes, Evidence
  <2> QED
    BY <2>1, <2>2, <2>3
<1>7. Publishes(j)'
  <2>1. CASE stage = 3
    <3>1. Covers(active, Release)
      BY <1>1, <1>4, <2>1, ReleaseCovers
    <3>2. Snapshot.parts = Registered(Release) /\ Snapshot \in catalog.snap
      BY <1>1, <1>3, <2>1 DEF Snapshot, WorkAtHand
    <3>3. \A p, q \in Snapshot.parts : p.release = q.release
      BY <3>2 DEF Registered
    <3>4. Need[j] \subseteq MonthsOf(Snapshot.parts)
      BY <3>1, <3>2 DEF Covers
    <3>5. held'.snapshot = Snapshot
      BY <1>1, <2>1
    <3> HIDE DEF r
    <3> QED
      BY <1>1, <1>2, <3>2, <3>3, <3>4, <3>5 DEF Publishes, MonthsOf
  <2>2. CASE stage # 3
    BY <1>1, <1>2, <1>3, <2>2 DEF Publishes, Evidence
  <2> QED
    BY <2>1, <2>2
<1>8. IsReady(j)'
  <2>1. CASE stage = 4
    <3>1. /\ readiness[j] = held.snapshot
          /\ held.snapshot.parts \subseteq lineage[j]
      BY <1>1, <1>3, <2>1 DEF WorkAtHand
    <3>2. held'.snapshot = held.snapshot
      BY <1>1, <1>4, <2>1 DEF Agree
    <3> QED
      BY <1>1, <1>2, <3>1, <3>2 DEF IsReady
  <2>2. CASE stage # 4
    <3>1. held'.step[4] = "succeeded" => r.step[4] = "succeeded"
      BY <1>1, <2>2
    <3>2. ~(r.step[4] = "succeeded" /\ stage = 3)
      BY <1>3, <1>4 DEF Evidence, StepsInOrder
    <3> QED
      BY <1>1, <1>2, <1>3, <3>1, <3>2 DEF IsReady, Evidence
  <2> QED
    BY <2>1, <2>2
<1>9. Finishes(j)'
  BY <1>1, <1>3 DEF Finishes, Evidence
<1>10. StepsInOrder(j)'
  <2>1. \A k \in 1 .. 4 : k < stage => r.step[k] = "succeeded"
    BY <1>4 DEF Agree
  <2>2. \A k, l \in 1 .. 4 :
          k < l /\ r.step[l] = "succeeded" => r.step[k] = "succeeded"
    BY <1>3 DEF Evidence, StepsInOrder
  <2> HIDE DEF r
  <2> QED
    BY <1>1, <2>1, <2>2 DEF StepsInOrder
<1> QED
  BY <1>5, <1>6, <1>7, <1>8, <1>9, <1>10 DEF Evidence

LEMMA EvidenceNext ==
  ASSUME TypeInv, BackedInv, HeldInv, ReadyInv, [Next]_vars, NEW j \in Jobs
  PROVE  Evidence(j)'
<1> USE NoneAssumption
<1>1. /\ Evidence(j)
      /\ catalog.part \subseteq catalog'.part
      /\ catalog.snap \subseteq catalog'.snap
      /\ rawManifest \subseteq rawManifest'
  BY Grows DEF ReadyInv
<1>2. ASSUME UNCHANGED <<plan, job, readiness, lineage>>,
             job[j].status = "succeeded" => active' # j
      PROVE  Evidence(j)'
  <2>1. Agree(job'[j], job[j])
    BY <1>2 DEF Agree
  <2>2. job[j].status = "succeeded" =>
          \A k \in 1 .. 4 : job[j].step[k] = "succeeded"
    BY <1>1 DEF Evidence, Finishes
  <2> QED
    BY <1>1, <1>2, <2>1, <2>2, EvidenceLasts
<1>3. job[j].status = "succeeded" => active # j
  BY <1>1 DEF Evidence, Finishes
<1>4. ASSUME NEW i \in Jobs, Plan(i) PROVE Evidence(j)'
  <2>1. /\ plan' = [plan EXCEPT ![i] = Observed(i)]
        /\ UNCHANGED <<job, readiness, lineage, active>>
        /\ job[i].status = "none"
    BY <1>4 DEF Plan, evidence, call
  <2>2. CASE j = i
    BY <2>1, <2>2, NothingDone DEF HeldInv
  <2>3. CASE j # i
    <3>1. plan'[j] = plan[j] /\ Agree(job'[j], job[j])
      BY <2>1, <2>3 DEF Agree, TypeInv, TypeOK
    <3> QED
      BY <1>1, <2>1, <3>1, EvidenceLasts DEF Evidence, Finishes
  <2> QED
    BY <2>2, <2>3
<1>5. ASSUME NEW i \in Jobs, Create(i) PROVE Evidence(j)'
  <2>1. /\ job' = [job EXCEPT ![i] = Fresh] /\ active' = i
        /\ UNCHANGED <<plan, readiness, lineage>>
    BY <1>5 DEF Create, CallBegins, given, evidence
  <2>2. CASE j = i
    <3>1. job'[j] = Fresh
      BY <2>1, <2>2 DEF TypeInv, TypeOK
    <3> QED
      BY <3>1, NothingDone DEF Fresh
  <2>3. CASE j # i
    <3>1. Agree(job'[j], job[j]) /\ job'[j] = job[j]
      BY <2>1, <2>3 DEF Agree, TypeInv, TypeOK
    <3> QED
      BY <1>1, <2>1, <2>3, <3>1, EvidenceLasts DEF Evidence, Finishes
  <2> QED
    BY <2>2, <2>3
<1>6. ASSUME NEW i \in Jobs, Resume(i) PROVE Evidence(j)'
  <2>1. /\ UNCHANGED <<plan, job, readiness, lineage>> /\ active' = i
        /\ job[i].status # "succeeded"
    BY <1>6 DEF Resume, CallBegins, given, evidence
  <2> QED
    BY <1>2, <2>1
<1>7. CASE MarkRunning \/ BeginStep \/ StepFails \/ JobFails
  <2>1. /\ active \in Jobs
        /\ \A i \in Jobs \ {active} : job'[i] = job[i]
        /\ Agree(job'[active], job[active])
        /\ job'[active].status \notin {"none", "succeeded"}
    BY <1>7, CopyWritten
  <2>2. UNCHANGED <<plan, readiness, lineage>> /\ active' \in {active, None}
    BY <1>7 DEF MarkRunning, BeginStep, StepFails, JobFails, CallEnds, given,
       evidence
  <2>3. Agree(job'[j], job[j])
    BY <2>1 DEF Agree
  <2>4. job'[j].status = "succeeded" =>
          /\ active' # j
          /\ \A k \in 1 .. 4 : job[j].step[k] = "succeeded"
    BY <1>1, <2>1, <2>2 DEF Evidence, Finishes
  <2> QED
    BY <1>1, <2>2, <2>3, <2>4, EvidenceLasts
<1>8. CASE StepSucceeds
  <2>1. /\ active \in Jobs /\ active' = active
        /\ \A i \in Jobs \ {active} : job'[i] = job[i]
    BY <1>8, OutcomeWritten
  <2>2. CASE j = active
    BY <1>8, <2>1, <2>2, OutcomeIsEvidence
  <2>3. CASE j # active
    <3>1. UNCHANGED <<plan, readiness, lineage>>
      BY <1>8 DEF StepSucceeds, given, evidence
    <3>2. Agree(job'[j], job[j]) /\ job'[j] = job[j]
      BY <2>1, <2>3 DEF Agree
    <3> QED
      BY <1>1, <2>1, <3>1, <3>2, EvidenceLasts DEF Evidence, Finishes
  <2> QED
    BY <2>2, <2>3
<1>9. CASE JobSucceeds
  <2>1. active \in Jobs /\ stage = 5 /\ active' = None
    BY <1>9, CallHasJob DEF JobSucceeds, CallEnds, TypeInv
  <2>2. /\ \A k \in 1 .. 4 : held.step[k] = "succeeded"
        /\ Agree(job[active], held) /\ held \in JobRecords
    BY <2>1 DEF ReadyInv, StageAtHand, HeldInv, TypeInv, TypeOK
  <2> DEFINE copy == [held EXCEPT !.status = "succeeded"]
  <2>3. /\ job' = [job EXCEPT ![active] = copy]
        /\ UNCHANGED <<plan, readiness, lineage>>
    BY <1>9 DEF JobSucceeds, Record, given, evidence
  <2>4. /\ Agree(copy, job[active])
        /\ \A k \in 1 .. 4 : job[active].step[k] = "succeeded"
    BY <2>2 DEF Agree, JobRecords
  <2> HIDE DEF copy
  <2>5. /\ job'[active] = copy
        /\ \A i \in Jobs \ {active} : job'[i] = job[i]
    BY <2>1, <2>3 DEF TypeInv, TypeOK
  <2>6. Agree(job'[j], job[j])
    BY <2>4, <2>5 DEF Agree
  <2>7. job'[j].status = "succeeded" =>
          \A k \in 1 .. 4 : job[j].step[k] = "succeeded"
    BY <1>1, <2>4, <2>5 DEF Evidence, Finishes
  <2> QED
    BY <1>1, <2>1, <2>3, <2>6, <2>7, EvidenceLasts
<1>10. CASE WriteReadiness \/ WriteLineage
  <2>1. active \in Jobs /\ stage = 4 /\ Working
    BY <1>10, CallHasJob DEF WriteReadiness, WriteLineage, ReadyInv,
       StageAtHand, Working, TypeInv
  <2>2. job[active].step[4] # "succeeded"
    BY <2>1 DEF HeldInv, Agree
  <2>3. UNCHANGED <<plan, job, active>>
    BY <1>10 DEF WriteReadiness, WriteLineage, given
  <2>4. j # active =>
          readiness'[j] = readiness[j] /\ lineage'[j] = lineage[j]
    BY <1>10, <2>1 DEF WriteReadiness, WriteLineage, TypeInv, TypeOK
  <2>5. Agree(job'[j], job[j])
    BY <2>3 DEF Agree
  <2> QED
    BY <1>1, <2>2, <2>3, <2>4, <2>5, EvidenceLasts DEF Evidence, Finishes
<1>11. ASSUME \/ OpenCatalog \/ Migrate \/ RegisterSchemas \/ Discover
              \/ JoinFetches \/ RegisterFetched \/ CollectAcquired
              \/ \E m \in Months :
                   FetchFile(m) \/ FetchManifest(m) \/ FetchRaises(m)
              \/ GroupMonths \/ RegisterSource \/ WriteParquet
              \/ WritePartitionManifest \/ RegisterPartition
              \/ ResolveSnapshot \/ WriteSnapshotFile \/ RegisterDataset
              \/ Raises \/ Interrupt \/ UNCHANGED vars
       PROVE  /\ UNCHANGED <<plan, job, readiness, lineage>>
              /\ active' \in {active, None}
  BY <1>11 DEF OpenCatalog, Migrate, RegisterSchemas, Discover, JoinFetches,
     RegisterFetched, CollectAcquired, FetchFile, FetchManifest, FetchRaises,
     GroupMonths, RegisterSource, WriteParquet, WritePartitionManifest,
     RegisterPartition, ResolveSnapshot, WriteSnapshotFile, RegisterDataset,
     Raises, Interrupt, CallEnds, vars, call, given, evidence
<1> QED
  BY <1>2, <1>3, <1>4, <1>5, <1>6, <1>7, <1>8, <1>9, <1>10, <1>11
     DEF Next, CallStep

(* A job recorded as succeeded is ready: its readiness binds the snapshot  *)
(* it names, which the catalog holds and which covers its window, although *)
(* its release may be another job's and any call may have been interrupted *)
(* and made again (plan_data_preparation, _run_step, publish_readiness).   *)
THEOREM SucceededIsReady == Spec => []SucceededJobIsReady
<1>1. Init => TypeInv /\ BackedInv /\ HeldInv /\ ReadyInv
  BY TypeInvInit, BackedInvInit, HeldInvInit, ReadyInvInit
<1>2. TypeInv /\ BackedInv /\ HeldInv /\ ReadyInv /\ [Next]_vars
        => TypeInv' /\ BackedInv' /\ HeldInv' /\ ReadyInv'
  <2> SUFFICES ASSUME TypeInv, BackedInv, HeldInv, ReadyInv, [Next]_vars
               PROVE  TypeInv' /\ BackedInv' /\ HeldInv' /\ ReadyInv'
    OBVIOUS
  <2>1. StageAtHand' /\ PartitionsInOrder' /\ PlansCover' /\ WorkAtHand'
    BY StageNext, PartitionsNext, PlansNext, WorkNext
  <2>2. \A j \in Jobs : Evidence(j)'
    BY EvidenceNext
  <2> QED
    BY <2>1, <2>2, TypeInvStep, BackedInvStep, HeldInvStep DEF ReadyInv
<1>3. ReadyInv => SucceededJobIsReady
  BY DEF ReadyInv, Evidence, Publishes, IsReady, Finishes,
     SucceededJobIsReady
<1> QED
  BY <1>1, <1>2, <1>3, PTL DEF Spec
=============================================================================
