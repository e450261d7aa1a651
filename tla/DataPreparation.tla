--------------------------- MODULE DataPreparation ---------------------------
(***************************************************************************)
(* Preparing a dataset: DataPreparationService.prepare                     *)
(* (bfbt/application/data_prepare.py), the archive fetches, the Parquet    *)
(* publisher and the DuckDB catalog it drives.                             *)
(*                                                                         *)
(* One call of prepare runs at a time; it may be interrupted between any   *)
(* two durable writes (a crash, or the operator's interrupt, which no      *)
(* "except Exception" sees), any operation of a step may raise, and the    *)
(* operator may call prepare again for any planned job.  A requirement has *)
(* one archived dataset and one raw object a month; a fact release is the  *)
(* set of raw objects it was normalised from.                              *)
(***************************************************************************)
EXTENDS Naturals, FiniteSets

CONSTANTS
  Jobs,            \* the requirements, each with the job of its plan
  Months,          \* archive periods, in the order of time
  Need,            \* job -> the archive objects its window asks for
  GateOutcomes,    \* the sets of months whose data may fail the quality gate
  MaxFaults,       \* bound: interruptions and raised exceptions
  None

ASSUME GateAssumption == GateOutcomes \subseteq SUBSET Months
ASSUME NeedAssumption ==
  /\ Months \subseteq Nat \ {0}
  /\ Need \in [Jobs -> SUBSET Months]
  /\ \A j \in Jobs : Need[j] # {}

(* The archive periods of a window follow one another (archive_candidates  *)
(* draws them from its start to its end).                                  *)
ASSUME WindowAssumption ==
  \A j \in Jobs : \E first, last \in Need[j] :
    Need[j] = {m \in Months : first <= m /\ m <= last}

ASSUME MaxFaultsAssumption == MaxFaults \in Nat
ASSUME NoneAssumption == None \notin Jobs

VARIABLES
  failing,       \* the months that fail the gate; fixed by the data
  plan,          \* job -> the DataPlan under review, or None
  job,           \* job -> job.json; status "none" when there is no file
  readiness,     \* job -> the snapshot readiness.json binds, or None
  lineage,       \* job -> the partitions lineage.json derives it from
  rawFile,       \* raw archives
  rawManifest,   \* raw-manifests
  parquet,       \* normalised partitions
  partManifest,  \* partition-manifests
  snapFile,      \* snapshot-manifests
  catalog,       \* catalog.duckdb: [state, raw, part, snap]
  active,        \* the job of the running call, or None
  held,          \* the call's own copy of the job
  stage,         \* the step it is at, 5 after the last
  at,            \* where in the step
  month,         \* the month being normalised
  worker,        \* month -> its fetch on the thread pool
  faults         \* interruptions and exceptions so far

given == <<failing, plan>>
disk == <<rawFile, rawManifest, parquet, partManifest, snapFile>>
evidence == <<readiness, lineage>>
call == <<active, held, stage, at, month, worker>>
vars == <<given, job, evidence, disk, catalog, call, faults>>

Stages == <<"acquire_raw", "normalize", "publish_snapshot", "readiness">>

FirstOf(S) == CHOOSE m \in S : \A n \in S : m <= n
LastOf(S) == CHOOSE m \in S : \A n \in S : n <= m

Partitions == [release : SUBSET Months, month : Months]
Snapshots == [requirement : Jobs, parts : SUBSET Partitions]

Fresh ==
  [status |-> "pending", step |-> [k \in 1 .. 4 |-> "pending"],
   acquired |-> {}, normalized |-> {}, snapshot |-> None]

NoWork == [m \in Months |-> "none"]

Init ==
  /\ failing \in GateOutcomes
  /\ plan = [j \in Jobs |-> None]
  /\ job = [j \in Jobs |-> [Fresh EXCEPT !.status = "none"]]
  /\ readiness = [j \in Jobs |-> None]
  /\ lineage = [j \in Jobs |-> {}]
  /\ rawFile = {} /\ rawManifest = {}
  /\ parquet = {} /\ partManifest = {} /\ snapFile = {}
  /\ catalog = [state |-> "absent", raw |-> {}, part |-> {}, snap |-> {}]
  /\ active = None /\ held = Fresh /\ stage = 1 /\ at = "idle"
  /\ month = 0 /\ worker = NoWork
  /\ faults = 0

Goes(place) == at' = place

(* _update_step and job.model_copy: the call's copy and the file together. *)
Record(copy) == job' = [job EXCEPT ![active] = copy]

Stepped(copy, status) == [copy EXCEPT !.step[stage] = status]

Fault == faults < MaxFaults /\ faults' = faults + 1

CallEnds ==
  /\ active' = None /\ held' = Fresh /\ stage' = 1 /\ Goes("idle")
  /\ month' = 0 /\ worker' = NoWork

-----------------------------------------------------------------------------
(* plan_data_preparation: a fact release whose registered partitions span  *)
(* the window is reused; two of them need a decision, and block the plan.  *)

Registered(release) == {p \in catalog.part : p.release = release}

MonthsOf(parts) == {p.month : p \in parts}

\* Mutant: the end of the window is not compared.
CandidatesByStart(j) ==
  {r \in {p.release : p \in catalog.part} :
     FirstOf(MonthsOf(Registered(r))) <= FirstOf(Need[j])}

Candidates(j) ==
  {r \in {p.release : p \in catalog.part} :
     LET covered == MonthsOf(Registered(r)) IN
       /\ FirstOf(covered) <= FirstOf(Need[j])
       /\ LastOf(covered) >= LastOf(Need[j])}

Observed(j) ==
  [release |-> UNION Candidates(j),
   missing |-> IF Candidates(j) = {} THEN Need[j] \ rawManifest ELSE {},
   unmanifested |-> IF Candidates(j) = {}
                    THEN (Need[j] \cap rawFile) \ rawManifest ELSE {},
   catalog |-> <<catalog.state, Cardinality(catalog.raw),
                 Cardinality(catalog.part), Cardinality(catalog.snap)>>]

(* The plan of a job that was never started may be drawn again; reading a  *)
(* catalog without its version raises.                                     *)
Plan(j) ==
  /\ active = None
  /\ job[j].status = "none"
  /\ catalog.state # "empty"
  /\ Cardinality(Candidates(j)) <= 1
  /\ plan' = [plan EXCEPT ![j] = Observed(j)]
  /\ UNCHANGED <<failing, job, evidence, disk, catalog, call, faults>>

-----------------------------------------------------------------------------
(* prepare: the job file, the catalog, then the four steps.                *)

CallBegins(j, copy) ==
  /\ active' = j /\ held' = copy /\ stage' = 1 /\ Goes("mark")
  /\ UNCHANGED <<month, worker>>

FreshPlan(j) == catalog.state # "empty" /\ plan[j] = Observed(j)

Create(j) ==
  /\ active = None
  /\ job[j].status = "none"
  /\ plan[j] # None
  /\ FreshPlan(j)
  /\ job' = [job EXCEPT ![j] = Fresh]
  /\ CallBegins(j, Fresh)
  /\ UNCHANGED <<given, evidence, disk, catalog, faults>>

(* A job that succeeded returns its readiness and changes nothing.         *)
Resume(j) ==
  /\ active = None
  /\ job[j].status \notin {"none", "succeeded"}
  /\ CallBegins(j, job[j])
  /\ UNCHANGED <<given, job, evidence, disk, catalog, faults>>

MarkRunning ==
  /\ at = "mark"
  /\ held' = [held EXCEPT !.status = "running"]
  /\ Record(held')
  /\ Goes("open")
  /\ UNCHANGED <<given, evidence, disk, catalog, active, stage, month, worker,
                 faults>>

(* Connecting creates the database file; only a call that finds none       *)
(* initialises it: the migration is one transaction, the built-in schemas  *)
(* another.                                                                *)
OpenCatalog ==
  /\ at = "open"
  /\ IF catalog.state = "absent"
     THEN catalog' = [catalog EXCEPT !.state = "empty"] /\ Goes("migrate")
     ELSE Goes("begin") /\ UNCHANGED catalog
  /\ UNCHANGED <<given, job, evidence, disk, active, held, stage, month,
                 worker, faults>>

Migrate ==
  /\ at = "migrate"
  /\ catalog' = [catalog EXCEPT !.state = "unseeded"]
  /\ Goes("seed")
  /\ UNCHANGED <<given, job, evidence, disk, active, held, stage, month,
                 worker, faults>>

RegisterSchemas ==
  /\ at = "seed"
  /\ catalog' = [catalog EXCEPT !.state = "ready"]
  /\ Goes("begin")
  /\ UNCHANGED <<given, job, evidence, disk, active, held, stage, month,
                 worker, faults>>

FirstPlace == <<"discover", "group", "resolve", "verify">>

(* _run_step up to its operation.                                          *)
\* Mutant: a step is run whether or not it is recorded as succeeded.
SkipsNothing == FALSE

Skips == held.step[stage] = "succeeded"

BeginStep ==
  /\ at = "begin" /\ stage <= 4
  /\ IF Skips
     THEN stage' = stage + 1 /\ UNCHANGED <<job, at>>
     ELSE /\ Record(Stepped(held, "running"))
          /\ Goes(FirstPlace[stage])
          /\ UNCHANGED stage
  /\ UNCHANGED <<given, evidence, disk, catalog, active, held, month, worker,
                 faults>>

(* What the operation returned, by step.                                   *)
Acquired == held.acquired \cap rawManifest

Release ==
  IF plan[active].release # {} THEN plan[active].release
  ELSE UNION {p.release : p \in held.normalized}

Snapshot == [requirement |-> active, parts |-> Registered(Release)]

WithOutputs(copy) ==
  CASE stage = 1 -> [copy EXCEPT !.acquired =
                       IF plan[active].release # {} THEN {} ELSE Need[active]]
    [] stage = 2 -> [copy EXCEPT !.normalized =
                       IF plan[active].release # {} THEN {}
                       ELSE [release : {Acquired}, month : Acquired]]
    [] stage = 3 -> [copy EXCEPT !.snapshot = Snapshot]
    [] OTHER -> copy

StepSucceeds ==
  /\ at = "step_done"
  /\ held' = WithOutputs(Stepped(job[active], "succeeded"))
  /\ Record(held')
  /\ stage' = stage + 1
  /\ Goes("begin")
  /\ UNCHANGED <<given, evidence, disk, catalog, active, month, worker,
                 faults>>

StepFails ==
  /\ at = "step_failed"
  /\ Record(Stepped(job[active], "failed"))
  /\ Goes("job_failed")
  /\ UNCHANGED <<given, evidence, disk, catalog, active, held, stage, month,
                 worker, faults>>

(* prepare's own handler writes the copy it held before the step.          *)
JobFails ==
  /\ at = "job_failed"
  /\ Record([held EXCEPT !.status = "failed"])
  /\ CallEnds
  /\ UNCHANGED <<given, evidence, disk, catalog, faults>>

JobSucceeds ==
  /\ at = "begin" /\ stage = 5
  /\ Record([held EXCEPT !.status = "succeeded"])
  /\ CallEnds
  /\ UNCHANGED <<given, evidence, disk, catalog, faults>>

-----------------------------------------------------------------------------
(* _acquire and ArchiveIngestService.sync.                                 *)

Between(S) == {m \in Months : FirstOf(S) <= m /\ m <= LastOf(S)}

(* Discovery asks for the whole range of the missing objects and returns   *)
(* the published ones.                                                     *)
Discover ==
  /\ at = "discover"
  /\ LET missing == Need[active] \ rawManifest IN
     CASE plan[active].release # {} ->
            Goes("step_done") /\ UNCHANGED <<worker, faults>>
       [] plan[active].release = {} /\ missing = {} ->
            Goes("collect") /\ UNCHANGED <<worker, faults>>
       [] OTHER ->
            \E found \in SUBSET Between(missing) :
              /\ IF found = Between(missing) THEN UNCHANGED faults ELSE Fault
              /\ worker' = [m \in Months |->
                              IF m \in found THEN "queued" ELSE "none"]
              /\ Goes("fetch")
  /\ UNCHANGED <<given, job, evidence, disk, catalog, active, held, stage,
                 month>>

FetchGoes(m, phase) == worker' = [worker EXCEPT ![m] = phase]

(* fetch on a pool thread: the archive, verified, then its manifest; an    *)
(* archive already in place is verified and kept.                          *)
FetchFile(m) ==
  /\ at = "fetch" /\ worker[m] = "queued"
  /\ rawFile' = rawFile \cup {m}
  /\ FetchGoes(m, "placed")
  /\ UNCHANGED <<given, job, evidence, rawManifest, parquet, partManifest,
                 snapFile, catalog, active, held, stage, at, month, faults>>

FetchManifest(m) ==
  /\ at = "fetch" /\ worker[m] = "placed"
  /\ rawManifest' = rawManifest \cup {m}
  /\ FetchGoes(m, "fetched")
  /\ UNCHANGED <<given, job, evidence, rawFile, parquet, partManifest,
                 snapFile, catalog, active, held, stage, at, month, faults>>

FetchRaises(m) ==
  /\ at = "fetch" /\ worker[m] \in {"queued", "placed"}
  /\ Fault
  /\ FetchGoes(m, "failed")
  /\ UNCHANGED <<given, job, evidence, disk, catalog, active, held, stage, at,
                 month>>

(* The pool is joined before the first exception is raised again.          *)
JoinFetches ==
  /\ at = "fetch"
  /\ \A m \in Months : worker[m] \notin {"queued", "placed"}
  /\ IF \E m \in Months : worker[m] = "failed"
     THEN Goes("step_failed") /\ worker' = NoWork
     ELSE Goes("register_raw") /\ UNCHANGED worker
  /\ UNCHANGED <<given, job, evidence, disk, catalog, active, held, stage,
                 month, faults>>

Versioned == catalog.state \in {"unseeded", "ready"}

Fetched == {m \in Months : worker[m] = "fetched"}

RegisterFetched ==
  /\ at = "register_raw"
  /\ CASE Fetched = {} ->
            Goes("collect") /\ UNCHANGED <<catalog, worker>>
       [] Fetched # {} /\ ~Versioned ->
            Goes("step_failed") /\ worker' = NoWork /\ UNCHANGED catalog
       [] OTHER ->
            /\ catalog' = [catalog EXCEPT !.raw = @ \cup {FirstOf(Fetched)}]
            /\ FetchGoes(FirstOf(Fetched), "none")
            /\ UNCHANGED at
  /\ UNCHANGED <<given, job, evidence, disk, active, held, stage, month,
                 faults>>

Complete == Need[active] \subseteq rawManifest

CollectAcquired ==
  /\ at = "collect"
  /\ Goes(IF Complete THEN "step_done" ELSE "step_failed")
  /\ UNCHANGED <<given, job, evidence, disk, catalog, active, held, stage,
                 month, worker, faults>>

-----------------------------------------------------------------------------
(* _normalize: NormalizationService.run and ParquetPublisher.publish for   *)
(* each month of the release, in order.                                    *)

NextGroup(later) ==
  IF later = {} THEN Goes("step_done") /\ month' = 0
  ELSE Goes("source") /\ month' = FirstOf(later)

GroupMonths ==
  /\ at = "group"
  /\ CASE plan[active].release # {} -> Goes("step_done") /\ UNCHANGED month
       [] plan[active].release = {} /\ Acquired = {} ->
            Goes("step_failed") /\ UNCHANGED month
       [] OTHER -> NextGroup(Acquired)
  /\ UNCHANGED <<given, job, evidence, disk, catalog, active, held, stage,
                 worker, faults>>

Partition == [release |-> Acquired, month |-> month]

\* Mutant: the sources are left to the acquisition.
SkipSource ==
  /\ at = "source"
  /\ Goes("parquet")
  /\ UNCHANGED <<given, job, evidence, disk, catalog, active, held, stage,
                 month, worker, faults>>

(* A source the interrupted acquisition left out of the catalog is         *)
(* registered here.                                                        *)
RegisterSource ==
  /\ at = "source"
  /\ IF Versioned
     THEN catalog' = [catalog EXCEPT !.raw = @ \cup {month}] /\ Goes("parquet")
     ELSE Goes("step_failed") /\ UNCHANGED catalog
  /\ UNCHANGED <<given, job, evidence, disk, active, held, stage, month,
                 worker, faults>>

(* The gate comes first; a Parquet without its manifest is a conflict.     *)
Conflicts == Partition \in parquet /\ Partition \notin partManifest

\* Mutant: the partition is registered before its manifest is written.
WriteParquetUnmanifested ==
  /\ at = "parquet"
  /\ IF month \in failing \/ Conflicts
     THEN Goes("step_failed") /\ UNCHANGED parquet
     ELSE parquet' = parquet \cup {Partition} /\ Goes("partition")
  /\ UNCHANGED <<given, job, evidence, rawFile, rawManifest, partManifest,
                 snapFile, catalog, active, held, stage, month, worker,
                 faults>>

WriteParquet ==
  /\ at = "parquet"
  /\ IF month \in failing \/ Conflicts
     THEN Goes("step_failed") /\ UNCHANGED parquet
     ELSE parquet' = parquet \cup {Partition} /\ Goes("manifest")
  /\ UNCHANGED <<given, job, evidence, rawFile, rawManifest, partManifest,
                 snapFile, catalog, active, held, stage, month, worker,
                 faults>>

WritePartitionManifest ==
  /\ at = "manifest"
  /\ partManifest' = partManifest \cup {Partition}
  /\ Goes("partition")
  /\ UNCHANGED <<given, job, evidence, rawFile, rawManifest, parquet, snapFile,
                 catalog, active, held, stage, month, worker, faults>>

(* register_partition: foreign keys to the schema and to the sources.      *)
Accepted ==
  \/ Partition \in catalog.part
  \/ catalog.state = "ready" /\ month \in catalog.raw

RegisterPartition ==
  /\ at = "partition"
  /\ IF Versioned /\ Accepted
     THEN /\ catalog' = [catalog EXCEPT !.part = @ \cup {Partition}]
          /\ NextGroup({m \in Acquired : m > month})
     ELSE Goes("step_failed") /\ UNCHANGED <<catalog, month>>
  /\ UNCHANGED <<given, job, evidence, disk, active, held, stage, worker,
                 faults>>

-----------------------------------------------------------------------------
(* _publish_snapshot: the snapshot's identity is the requirement and the   *)
(* partitions its release has in the catalog by now.                       *)

OneRelease ==
  \/ plan[active].release # {}
  \/ Cardinality({p.release : p \in held.normalized}) = 1

ResolveSnapshot ==
  /\ at = "resolve"
  /\ CASE ~OneRelease \/ Registered(Release) = {} ->
            Goes("step_failed") /\ UNCHANGED snapFile
       [] /\ OneRelease
          /\ Registered(Release) # {}
          /\ Snapshot \in catalog.snap ->
            Goes("step_done") /\ snapFile' = snapFile \cup {Snapshot}
       [] OTHER -> Goes("snapshot_file") /\ UNCHANGED snapFile
  /\ UNCHANGED <<given, job, evidence, rawFile, rawManifest, parquet,
                 partManifest, catalog, active, held, stage, month,
                 worker, faults>>

WriteSnapshotFile ==
  /\ at = "snapshot_file"
  /\ snapFile' = snapFile \cup {Snapshot}
  /\ Goes("dataset")
  /\ UNCHANGED <<given, job, evidence, rawFile, rawManifest, parquet,
                 partManifest, catalog, active, held, stage, month,
                 worker, faults>>

RegisterDataset ==
  /\ at = "dataset"
  /\ IF catalog.state = "ready"
     THEN /\ catalog' = [catalog EXCEPT !.snap = @ \cup {Snapshot}]
          /\ Goes("step_done")
     ELSE Goes("step_failed") /\ UNCHANGED catalog
  /\ UNCHANGED <<given, job, evidence, disk, active, held, stage, month,
                 worker, faults>>

-----------------------------------------------------------------------------
(* publish_readiness and _readiness.                                       *)

ReleaseOf(snapshot) == UNION {p.release : p \in snapshot.parts}

(* The partitions inspected are those of the release, not those the        *)
(* snapshot lists.                                                         *)
Inspected == Registered(ReleaseOf(held.snapshot))

WriteReadiness ==
  /\ at = "verify"
  /\ IF held.snapshot \in catalog.snap /\ Inspected \subseteq parquet
     THEN /\ readiness' = [readiness EXCEPT ![active] = held.snapshot]
          /\ Goes("lineage")
     ELSE Goes("step_failed") /\ UNCHANGED readiness
  /\ UNCHANGED <<given, job, lineage, disk, catalog, active, held, stage, month,
                 worker, faults>>

WriteLineage ==
  /\ at = "lineage"
  /\ lineage' = [lineage EXCEPT ![active] = Inspected]
  /\ Goes("step_done")
  /\ UNCHANGED <<given, job, readiness, disk, catalog, active, held, stage,
                 month, worker, faults>>

-----------------------------------------------------------------------------
(* An exception of an operation is recorded; an interruption is not.       *)

InStep ==
  {"discover", "register_raw", "group", "source", "parquet", "manifest",
   "partition", "resolve", "snapshot_file", "dataset", "verify", "lineage"}

Raises ==
  /\ Fault
  /\ \/ at \in InStep /\ Goes("step_failed")
     \/ at \in {"migrate", "seed"} /\ Goes("job_failed")
  /\ month' = 0 /\ worker' = NoWork
  /\ UNCHANGED <<given, job, evidence, disk, catalog, active, held, stage>>

Interrupt ==
  /\ active # None
  /\ Fault
  /\ CallEnds
  /\ UNCHANGED <<given, job, evidence, disk, catalog>>

CallStep ==
  \/ MarkRunning \/ OpenCatalog \/ Migrate \/ RegisterSchemas
  \/ BeginStep \/ StepSucceeds \/ StepFails \/ JobFails \/ JobSucceeds
  \/ Discover \/ JoinFetches \/ RegisterFetched \/ CollectAcquired
  \/ \E m \in Months : FetchFile(m) \/ FetchManifest(m)
  \/ GroupMonths \/ RegisterSource
  \/ WriteParquet \/ WritePartitionManifest \/ RegisterPartition
  \/ ResolveSnapshot \/ WriteSnapshotFile \/ RegisterDataset
  \/ WriteReadiness \/ WriteLineage

Next ==
  \/ \E j \in Jobs : Plan(j) \/ Create(j) \/ Resume(j)
  \/ CallStep
  \/ \E m \in Months : FetchRaises(m)
  \/ Raises
  \/ Interrupt

Spec == Init /\ [][Next]_vars

(* The call runs on, and the operator calls again for a job that has not   *)
(* succeeded.                                                              *)
FairSpec ==
  Spec /\ WF_vars(CallStep) /\ \A j \in Jobs : SF_vars(Resume(j))

-----------------------------------------------------------------------------
(* Correctness.                                                            *)

Statuses == {"pending", "running", "succeeded", "failed"}

JobRecords ==
  [status : Statuses \cup {"none"}, step : [1 .. 4 -> Statuses],
   acquired : SUBSET Months, normalized : SUBSET Partitions,
   snapshot : Snapshots \cup {None}]

Places ==
  InStep \cup {"idle", "mark", "open", "migrate", "seed", "begin", "fetch",
               "collect", "step_done", "step_failed", "job_failed"}

(* Every variable has its type.                                            *)
TypeOK ==
  /\ failing \in GateOutcomes
  /\ plan = [j \in Jobs |-> plan[j]]
  /\ \A j \in Jobs : plan[j] # None => plan[j].release \subseteq Months
  /\ job \in [Jobs -> JobRecords]
  /\ readiness \in [Jobs -> Snapshots \cup {None}]
  /\ lineage \in [Jobs -> SUBSET Partitions]
  /\ rawFile \subseteq Months /\ rawManifest \subseteq Months
  /\ parquet \subseteq Partitions /\ partManifest \subseteq Partitions
  /\ snapFile \subseteq Snapshots
  /\ catalog \in [state : {"absent", "empty", "unseeded", "ready"},
                  raw : SUBSET Months, part : SUBSET Partitions,
                  snap : SUBSET Snapshots]
  /\ active \in Jobs \cup {None} /\ held \in JobRecords
  /\ stage \in 1 .. 5 /\ at \in Places /\ (at = "idle" <=> active = None)
  /\ month \in Months \cup {0}
  /\ worker \in [Months -> {"none", "queued", "placed", "fetched", "failed"}]
  /\ faults \in 0 .. MaxFaults

(* Whatever the interruptions, the catalog never names something that is   *)
(* not on disk or not itself in the catalog: raw objects and partitions    *)
(* have their file and manifest, a partition its source, a snapshot its    *)
(* manifest and all its partitions (fetch, publish, register_partition,    *)
(* register_dataset).                                                      *)
CatalogIsBacked ==
  /\ catalog.raw \subseteq rawFile \cap rawManifest
  /\ catalog.part \subseteq parquet \cap partManifest
  /\ \A p \in catalog.part : p.month \in catalog.raw
  /\ catalog.snap \subseteq snapFile
  /\ \A s \in catalog.snap : s.parts # {} /\ s.parts \subseteq catalog.part

(* A job recorded as succeeded has the evidence prepare promises: its      *)
(* readiness binds the snapshot the job names, that snapshot is in the     *)
(* catalog and spans the window although its release may belong to another *)
(* job, and the lineage covers it (prepare).                               *)
SucceededJobIsReady ==
  \A j \in Jobs : job[j].status = "succeeded" =>
    /\ job[j].snapshot \in catalog.snap
    /\ readiness[j] = job[j].snapshot
    /\ Need[j] \subseteq MonthsOf(readiness[j].parts)
    /\ readiness[j].parts \subseteq lineage[j]

(* "A succeeded step is not repeated after restart": no later call, failed *)
(* or interrupted, takes a recorded success or its outputs back            *)
(* (_run_step and the handler of prepare that writes the copy it held).    *)
SuccessIsKept ==
  [][\A j \in Jobs :
       /\ \A k \in 1 .. 4 : job[j].step[k] = "succeeded" =>
            job'[j].step[k] = "succeeded"
       /\ job[j].step[1] = "succeeded" => job'[j].acquired = job[j].acquired
       /\ job[j].step[2] = "succeeded" =>
            job'[j].normalized = job[j].normalized
       /\ job[j].step[3] = "succeeded" => job'[j].snapshot = job[j].snapshot
    ]_vars

(* What a later call cannot mend: a database file without its schemas, a   *)
(* partition of the job's release without its manifest, or data that do    *)
(* not pass the gate.                                                      *)
Blocked(j) ==
  \/ catalog.state \in {"empty", "unseeded"}
  \/ /\ plan[j].release = {}
     /\ \/ \E p \in parquet \ partManifest : p.release = Need[j]
        \/ Need[j] \cap failing # {}

(* With finitely many faults a job the operator keeps calling for succeeds *)
(* unless it is blocked in one of the three ways: no other interleaving of *)
(* interruptions, failed fetches and other jobs leaves it unable to finish *)
(* (prepare, publish, initialize).                                         *)
JobsSettle ==
  \A j \in Jobs :
    <>[](job[j].status \in {"none", "succeeded"} \/ Blocked(j))

=============================================================================
