----------------------- MODULE ChunkWorkspace_proofs -----------------------
(***************************************************************************)
(* Proofs about ChunkWorkspace, for every set of attempts and every length *)
(* of the chunk plan.                                                      *)
(***************************************************************************)
EXTENDS ChunkWorkspace, FiniteSetTheorems, TLAPS

Authored == \A k \in DOMAIN chunks : chunks[k].author \in Supervisors

(* The committed chunks are a prefix of the plan.                          *)
PrefixOfPlan == \E n \in 0 .. ChunkCount : DOMAIN chunks = 0 .. (n - 1)

Resuming == {"run", "staged", "manifested"}

(* A worker that has restored its state holds that of the chunk just       *)
(* before its own, and that chunk is committed.                            *)
ResumesPredecessor ==
  \A p \in Supervisors : worker[p].phase \in Resuming =>
    IF worker[p].ordinal = 0
    THEN worker[p].parent = "initial"
    ELSE /\ worker[p].ordinal - 1 \in DOMAIN chunks
         /\ worker[p].parent = chunks[worker[p].ordinal - 1].author

WorkerRecords ==
  [phase : Live \cup {"none", "exited", "failed"},
   ordinal : 0 .. (ChunkCount - 1),
   parent : Supervisors \cup {"initial"}]

Inv ==
  /\ TypeOK
  /\ Authored
  /\ PrefixOfPlan
  /\ ResumesPredecessor
  /\ FinishedRunIsComplete

-----------------------------------------------------------------------------
(* How many chunks are committed, when they are a prefix of the plan.      *)
LEMMA CommittedCountOfPrefix ==
  ASSUME NEW n \in Nat, DOMAIN chunks = 0 .. (n - 1)
  PROVE  CommittedCount = n
<1>1. Cardinality(0 .. (n - 1)) = IF 0 > n - 1 THEN 0 ELSE (n - 1) - 0 + 1
  BY FS_Interval
<1> QED
  BY <1>1 DEF CommittedCount

LEMMA InvInit == Init => Inv
<1> SUFFICES ASSUME Init PROVE Inv
  OBVIOUS
<1> USE ChunkCountAssumption DEF Init
<1>1. TypeOK
  BY DEF TypeOK, NoWorker, Contents, Live, Ended
<1>2. Authored /\ ResumesPredecessor /\ FinishedRunIsComplete
  BY DEF Authored, ResumesPredecessor, NoWorker, Resuming,
         FinishedRunIsComplete
<1>3. PrefixOfPlan
  <2>1. 0 \in 0 .. ChunkCount /\ DOMAIN chunks = 0 .. (0 - 1)
    OBVIOUS
  <2> QED
    BY <2>1 DEF PrefixOfPlan
<1> QED
  BY <1>1, <1>2, <1>3 DEF Inv

(* Every step that leaves the committed chunks alone, and restores no      *)
(* worker, keeps what Inv says of them.                                    *)
LEMMA ChunksUnchanged ==
  ASSUME Inv, UNCHANGED chunks,
         \A p \in Supervisors :
           \/ worker'[p].phase \notin Resuming
           \/ /\ worker[p].phase \in Resuming
              /\ worker'[p].ordinal = worker[p].ordinal
              /\ worker'[p].parent = worker[p].parent,
         \A p \in Supervisors :
           parent'[p] = "finished" =>
             parent[p] = "finished" \/ DOMAIN chunks = 0 .. (ChunkCount - 1)
  PROVE  (Authored /\ PrefixOfPlan /\ ResumesPredecessor
            /\ FinishedRunIsComplete)'
<1>1. Authored' /\ PrefixOfPlan'
  BY DEF Inv, Authored, PrefixOfPlan
<1>2. ResumesPredecessor'
  BY DEF Inv, ResumesPredecessor
<1>3. FinishedRunIsComplete'
  BY DEF Inv, FinishedRunIsComplete
<1> QED
  BY <1>1, <1>2, <1>3

(* The files, the parents and the disturbed attempts change type in no     *)
(* step; chunks and workers are treated where they change.                 *)
LEMMA ParentStepsKeepInv ==
  ASSUME Inv, NEW p \in Supervisors,
         OpenWorkspace(p) \/ ParentStep(p) \/ ParentCrashes(p)
  PROVE  Inv'
<1> USE ChunkCountAssumption
<1>0. PICK n \in 0 .. ChunkCount : DOMAIN chunks = 0 .. (n - 1)
  BY DEF Inv, PrefixOfPlan
<1>n. n \in Nat /\ CommittedCount = n
  BY <1>0, CommittedCountOfPrefix
<1>t. TypeOK
  BY DEF Inv
<1>1. CASE OpenWorkspace(p)
  <2>0. disturbed' \subseteq Supervisors
    BY <1>1, <1>t DEF TypeOK, OpenWorkspace, Met
  <2>1. TypeOK'
    BY <1>1, <1>t, <2>0 DEF TypeOK, OpenWorkspace, ParentGoes, Contents, Ended
  <2>2. parent'[p] # "finished"
    BY <1>1, <1>t DEF OpenWorkspace, ParentGoes, TypeOK
  <2> QED
    BY <1>1, <1>t, <2>1, <2>2, ChunksUnchanged
    DEF Inv, OpenWorkspace, ParentGoes, TypeOK
<1>2. CASE WriteMarker(p)
  <2>1. TypeOK'
    BY <1>2, <1>t DEF TypeOK, WriteMarker, ParentGoes, Contents
  <2> QED
    BY <1>2, <1>t, <2>1, ChunksUnchanged
    DEF Inv, WriteMarker, ParentGoes, TypeOK
<1>3. CASE PublishMarker(p)
  <2>1. open' \in [Supervisors -> {"none", "tmp", "marker", "lost"}]
    BY <1>3, <1>t DEF TypeOK, PublishMarker, files
  <2>2. TypeOK'
    BY <1>3, <1>t, <2>1
    DEF TypeOK, PublishMarker, ParentGoes, Contents, files, Ended
  <2>3. parent'[p] # "finished"
    BY <1>3, <1>t DEF PublishMarker, ParentGoes, TypeOK
  <2> QED
    BY <1>3, <1>t, <2>2, <2>3, ChunksUnchanged
    DEF Inv, PublishMarker, ParentGoes, TypeOK
<1>4. CASE ScanWorkspace(p)
  <2>0. cursor' \in [Supervisors -> 0 .. ChunkCount]
    BY <1>4, <1>t, <1>0, <1>n DEF TypeOK, ScanWorkspace
  <2>1. TypeOK'
    BY <1>4, <1>t, <2>0 DEF TypeOK, ScanWorkspace, ParentGoes, Ended, files
  <2>2. parent'[p] # "finished"
    BY <1>4, <1>t DEF ScanWorkspace, ParentGoes, TypeOK
  <2> QED
    BY <1>4, <1>t, <2>1, <2>2, ChunksUnchanged
    DEF Inv, ScanWorkspace, ParentGoes, TypeOK
<1>5. CASE StartWorker(p)
  <2>1. TypeOK'
    BY <1>5, <1>t DEF TypeOK, StartWorker, MoreChunks, ParentGoes, Live, files
  <2>2. worker'[p].phase = "open" /\ parent'[p] = "waiting"
    BY <1>5, <1>t DEF StartWorker, ParentGoes, TypeOK
  <2> QED
    BY <1>5, <1>t, <2>1, <2>2, ChunksUnchanged
    DEF Inv, StartWorker, ParentGoes, TypeOK, Resuming
<1>6. CASE JoinWorker(p)
  <2>1. TypeOK'
    BY <1>6, <1>t DEF TypeOK, JoinWorker, ParentGoes, Ended, files
  <2>2. parent'[p] # "finished"
    BY <1>6, <1>t DEF JoinWorker, ParentGoes, TypeOK
  <2> QED
    BY <1>6, <1>t, <2>1, <2>2, ChunksUnchanged
    DEF Inv, JoinWorker, ParentGoes, TypeOK
<1>7. CASE VerifyCommit(p)
  <2>0. cursor' \in [Supervisors -> 0 .. ChunkCount]
    BY <1>7, <1>t, <1>0, <1>n DEF TypeOK, VerifyCommit
  <2>1. TypeOK'
    BY <1>7, <1>t, <2>0 DEF TypeOK, VerifyCommit, ParentGoes, Ended, files
  <2>2. parent'[p] # "finished"
    BY <1>7, <1>t DEF VerifyCommit, ParentGoes, TypeOK
  <2> QED
    BY <1>7, <1>t, <2>1, <2>2, ChunksUnchanged
    DEF Inv, VerifyCommit, ParentGoes, TypeOK
<1>8. CASE FinishRun(p)
  <2>1. TypeOK'
    BY <1>8, <1>t DEF TypeOK, FinishRun, ParentGoes, Ended, files
  <2>2. parent'[p] = "finished" => DOMAIN chunks = 0 .. (ChunkCount - 1)
    BY <1>8, <1>t, <1>0, <1>n DEF FinishRun, MoreChunks, ParentGoes, TypeOK
  <2> QED
    BY <1>8, <1>t, <2>1, <2>2, ChunksUnchanged
    DEF Inv, FinishRun, MoreChunks, ParentGoes, TypeOK
<1>9. CASE ParentCrashes(p)
  <2>1. TypeOK'
    BY <1>9, <1>t DEF TypeOK, ParentCrashes, ParentGoes, Ended
  <2>2. parent'[p] # "finished"
    BY <1>9, <1>t DEF ParentCrashes, ParentGoes, TypeOK
  <2> QED
    BY <1>9, <1>t, <2>1, <2>2, ChunksUnchanged
    DEF Inv, ParentCrashes, ParentGoes, TypeOK
<1> QED
  BY <1>1, <1>2, <1>3, <1>4, <1>5, <1>6, <1>7, <1>8, <1>9 DEF ParentStep

(* Steps of a worker, other than its commit.                               *)
LEMMA WorkerStepsKeepInv ==
  ASSUME Inv, NEW p \in Supervisors,
         \/ WorkerOpen(p) \/ WorkerScan(p) \/ WorkerBegin(p)
         \/ WorkerManifest(p) \/ WorkerExit(p) \/ WorkerDies(p)
         \/ MemoryLimit(p)
  PROVE  Inv'
<1> USE ChunkCountAssumption
<1>0. PICK n \in 0 .. ChunkCount : DOMAIN chunks = 0 .. (n - 1)
  BY DEF Inv, PrefixOfPlan
<1>n. n \in Nat /\ CommittedCount = n
  BY <1>0, CommittedCountOfPrefix
<1>t. TypeOK
  BY DEF Inv
<1>1. CASE WorkerOpen(p)
  <2>1. TypeOK'
    BY <1>1, <1>t DEF TypeOK, WorkerOpen, WorkerGoes, Live, files
  <2>2. worker'[p].phase \notin Resuming
    BY <1>1, <1>t DEF WorkerOpen, WorkerGoes, TypeOK, Resuming
  <2> QED
    BY <1>1, <1>t, <2>1, <2>2, ChunksUnchanged
    DEF Inv, WorkerOpen, WorkerGoes, TypeOK
<1>2. CASE WorkerScan(p)
  <2> DEFINE k == worker[p].ordinal
             last == IF k = 0 THEN "initial" ELSE chunks[k - 1].author
  <2>1. CASE ~Contiguous \/ CommittedCount # k
    <3>1. worker' = [worker EXCEPT ![p].phase = "failed"]
      BY <1>2, <2>1 DEF WorkerScan, WorkerGoes
    <3>2. TypeOK'
      BY <1>2, <1>t, <3>1 DEF TypeOK, WorkerScan, files
    <3>3. worker'[p].phase \notin Resuming
      BY <3>1, <1>t DEF TypeOK, Resuming
    <3> QED
      BY <1>2, <1>t, <3>1, <3>2, <3>3, ChunksUnchanged
      DEF Inv, WorkerScan, TypeOK
  <2>2. CASE Contiguous /\ CommittedCount = k
    <3>1. worker' = [worker EXCEPT ![p] =
                       [worker[p] EXCEPT !.phase = "run", !.parent = last]]
      BY <1>2, <2>2 DEF WorkerScan
    <3>2. k = 0 \/ k - 1 \in DOMAIN chunks
      BY <2>2, <1>0, <1>n
    <3>3. last \in Supervisors \cup {"initial"}
      BY <3>2 DEF Inv, Authored
    <3>4. TypeOK'
      <4>1. worker \in [Supervisors -> WorkerRecords]
        BY <1>t DEF TypeOK, WorkerRecords
      <4>2. [worker[p] EXCEPT !.phase = "run", !.parent = last]
              \in WorkerRecords
        BY <4>1, <3>3 DEF WorkerRecords, Live
      <4>3. worker' \in [Supervisors -> WorkerRecords]
        BY <3>1, <4>1, <4>2
      <4> QED
        BY <4>3, <1>2, <1>t DEF TypeOK, WorkerScan, files, WorkerRecords
    <3>5. Authored' /\ PrefixOfPlan' /\ FinishedRunIsComplete'
      BY <1>2 DEF Inv, WorkerScan, Authored, PrefixOfPlan,
                  FinishedRunIsComplete
    <3>6. ResumesPredecessor'
      <4> SUFFICES ASSUME NEW q \in Supervisors,
                          worker'[q].phase \in Resuming
                   PROVE  IF worker'[q].ordinal = 0
                          THEN worker'[q].parent = "initial"
                          ELSE /\ worker'[q].ordinal - 1 \in DOMAIN chunks
                               /\ worker'[q].parent
                                    = chunks[worker'[q].ordinal - 1].author
        BY <1>2 DEF ResumesPredecessor, WorkerScan
      <4>1. CASE q = p
        <5>1. worker'[p].ordinal = k /\ worker'[p].parent = last
          BY <3>1, <1>t DEF TypeOK
        <5> QED
          BY <4>1, <5>1, <3>2
      <4>2. CASE q # p
        BY <4>2, <3>1, <1>t DEF TypeOK, Inv, ResumesPredecessor
      <4> QED
        BY <4>1, <4>2
    <3> QED
      BY <3>4, <3>5, <3>6 DEF Inv
  <2> QED
    BY <2>1, <2>2
<1>3. CASE WorkerBegin(p)
  <2>1. staging' \subseteq [author : Supervisors,
                           ordinal : 0 .. (ChunkCount - 1)]
    BY <1>3, <1>t DEF TypeOK, WorkerBegin, Transaction
  <2>2. TypeOK'
    BY <1>3, <1>t, <2>1 DEF TypeOK, WorkerBegin, WorkerGoes, Live, files
  <2>3. \A q \in Supervisors :
          \/ worker'[q].phase \notin Resuming
          \/ /\ worker[q].phase \in Resuming
             /\ worker'[q].ordinal = worker[q].ordinal
             /\ worker'[q].parent = worker[q].parent
    BY <1>3, <1>t DEF WorkerBegin, WorkerGoes, TypeOK, Resuming
  <2> QED
    BY <1>3, <2>2, <2>3, ChunksUnchanged DEF Inv, WorkerBegin
<1>4. CASE WorkerManifest(p)
  <2>1. TypeOK'
    BY <1>4, <1>t DEF TypeOK, WorkerManifest, WorkerGoes, Live, files
  <2>3. \A q \in Supervisors :
          \/ worker'[q].phase \notin Resuming
          \/ /\ worker[q].phase \in Resuming
             /\ worker'[q].ordinal = worker[q].ordinal
             /\ worker'[q].parent = worker[q].parent
    BY <1>4, <1>t DEF WorkerManifest, WorkerGoes, TypeOK, Resuming
  <2> QED
    BY <1>4, <2>1, <2>3, ChunksUnchanged DEF Inv, WorkerManifest
<1>5. CASE WorkerExit(p)
  <2>1. TypeOK'
    BY <1>5, <1>t DEF TypeOK, WorkerExit, WorkerGoes, files
  <2> QED
    BY <1>5, <1>t, <2>1, ChunksUnchanged
    DEF Inv, WorkerExit, WorkerGoes, TypeOK, Resuming
<1>6. CASE WorkerDies(p)
  <2>1. TypeOK'
    BY <1>6, <1>t DEF TypeOK, WorkerDies, WorkerGoes, files
  <2> QED
    BY <1>6, <1>t, <2>1, ChunksUnchanged
    DEF Inv, WorkerDies, WorkerGoes, TypeOK, Resuming
<1>7. CASE MemoryLimit(p)
  <2>1. TypeOK'
    BY <1>7, <1>t
    DEF TypeOK, MemoryLimit, WorkerGoes, ParentGoes, Ended, files
  <2> QED
    BY <1>7, <1>t, <2>1, ChunksUnchanged
    DEF Inv, MemoryLimit, WorkerGoes, ParentGoes, TypeOK, Resuming
<1> QED
  BY <1>1, <1>2, <1>3, <1>4, <1>5, <1>6, <1>7

-----------------------------------------------------------------------------
(* A commit that succeeds appends the chunk after the last one, computed   *)
(* from the state of the last one: that is where the append-only log comes *)
(* from, with no lock anywhere.                                            *)
LEMMA CommitAppends ==
  ASSUME Inv, NEW p \in Supervisors, WorkerCommit(p),
         worker[p].ordinal \notin DOMAIN chunks
  PROVE  /\ DOMAIN chunks = 0 .. (worker[p].ordinal - 1)
         /\ DOMAIN chunks' = 0 .. worker[p].ordinal
         /\ Log!AppendChunk(worker[p].ordinal, p)
<1> USE ChunkCountAssumption
<1> DEFINE k == worker[p].ordinal
<1>0. PICK n \in 0 .. ChunkCount : DOMAIN chunks = 0 .. (n - 1)
  BY DEF Inv, PrefixOfPlan
<1>1. k \in 0 .. (ChunkCount - 1) /\ worker[p].phase \in Resuming
  BY DEF Inv, TypeOK, WorkerCommit, Resuming
<1>2. IF k = 0 THEN worker[p].parent = "initial"
      ELSE k - 1 \in DOMAIN chunks /\ worker[p].parent = chunks[k - 1].author
  BY <1>1 DEF Inv, ResumesPredecessor
<1>3. k = n
  BY <1>0, <1>1, <1>2
<1>4. DOMAIN chunks \cup {k} = 0 .. k
  BY <1>0, <1>1, <1>3
<1>5. chunks' = [j \in 0 .. k |->
                   IF j = k
                   THEN [author |-> p, parent |-> worker[p].parent]
                   ELSE chunks[j]]
  BY <1>4 DEF WorkerCommit
<1>6. worker[p].parent = Log!ParentAuthor(k)
  BY <1>2 DEF Log!ParentAuthor
<1> QED
  BY <1>0, <1>3, <1>5, <1>6 DEF Log!AppendChunk, Log!IsPrefix

LEMMA CommitKeepsInv ==
  ASSUME Inv, NEW p \in Supervisors, WorkerCommit(p)
  PROVE  Inv'
<1> USE ChunkCountAssumption
<1> DEFINE k == worker[p].ordinal
<1>t. TypeOK /\ k \in 0 .. (ChunkCount - 1)
  BY DEF Inv, TypeOK
<1>1. CASE k \in DOMAIN chunks
  <2>1. TypeOK'
    BY <1>1, <1>t DEF TypeOK, WorkerCommit, WorkerGoes, Live, files
  <2>2. worker'[p].phase \notin Resuming
    BY <1>1, <1>t DEF WorkerCommit, WorkerGoes, TypeOK, Resuming
  <2> QED
    BY <1>1, <1>t, <2>1, <2>2, ChunksUnchanged
    DEF Inv, WorkerCommit, WorkerGoes, TypeOK
<1>2. CASE k \notin DOMAIN chunks
  <2>1. /\ DOMAIN chunks = 0 .. (k - 1)
        /\ DOMAIN chunks' = 0 .. k
    BY <1>2, CommitAppends
  <2>2. \A j \in DOMAIN chunks : chunks'[j] = chunks[j]
    BY <1>2 DEF WorkerCommit
  <2>3. chunks'[k].author = p
    BY <1>2 DEF WorkerCommit
  <2>4. staging' \subseteq staging /\ worker' = [worker EXCEPT ![p].phase = "committed"]
    BY <1>2 DEF WorkerCommit, WorkerGoes
  <2>5. TypeOK'
    BY <1>t, <2>1, <2>4 DEF TypeOK, WorkerCommit, Live, files
  <2>6. Authored'
    BY <2>1, <2>2, <2>3, <1>t DEF Inv, Authored
  <2>7. PrefixOfPlan'
    <3>1. k + 1 \in 0 .. ChunkCount /\ DOMAIN chunks' = 0 .. ((k + 1) - 1)
      BY <2>1, <1>t
    <3> QED
      BY <3>1 DEF PrefixOfPlan
  <2>8. ResumesPredecessor'
    <3> SUFFICES ASSUME NEW q \in Supervisors,
                        worker'[q].phase \in Resuming
                 PROVE  IF worker'[q].ordinal = 0
                        THEN worker'[q].parent = "initial"
                        ELSE /\ worker'[q].ordinal - 1 \in DOMAIN chunks'
                             /\ worker'[q].parent
                                  = chunks'[worker'[q].ordinal - 1].author
      BY DEF ResumesPredecessor
    <3>1. q # p
      BY <2>4, <1>t DEF TypeOK, Resuming
    <3>2. worker'[q] = worker[q]
      BY <3>1, <2>4, <1>t DEF TypeOK
    <3>3. worker[q].ordinal - 1 \in DOMAIN chunks =>
            worker[q].ordinal - 1 \in DOMAIN chunks'
      BY <2>1, <1>t
    <3> QED
      BY <3>2, <3>3, <2>2 DEF Inv, ResumesPredecessor
  <2>9. FinishedRunIsComplete'
    BY <2>1, <1>2, <1>t DEF Inv, FinishedRunIsComplete, WorkerCommit
  <2> QED
    BY <2>5, <2>6, <2>7, <2>8, <2>9 DEF Inv
<1> QED
  BY <1>1, <1>2

LEMMA InvNext == Inv /\ [Next]_vars => Inv'
<1> SUFFICES ASSUME Inv, [Next]_vars PROVE Inv'
  OBVIOUS
<1>1. CASE Next
  BY <1>1, ParentStepsKeepInv, WorkerStepsKeepInv, CommitKeepsInv
  DEF Next, WorkerStep
<1>2. CASE UNCHANGED vars
  BY <1>2 DEF vars, files, Inv, TypeOK, Authored, PrefixOfPlan,
              ResumesPredecessor, FinishedRunIsComplete
<1> QED
  BY <1>1, <1>2

(* Inv holds in every state of every execution.                            *)
THEOREM Invariance == Spec => []Inv
<1> QED
  BY InvInit, InvNext, PTL DEF Spec

-----------------------------------------------------------------------------
(* Type correctness of the workspace, its parents and its workers.         *)
THEOREM TypeCorrect == Spec => []TypeOK
<1>1. Inv => TypeOK
  BY DEF Inv
<1> QED
  BY <1>1, Invariance, PTL

(* A run that finished stays complete: every chunk of its plan is          *)
(* committed then and ever after.                                          *)
THEOREM FinishedComplete == Spec => []FinishedRunIsComplete
<1>1. Inv => FinishedRunIsComplete
  BY DEF Inv
<1> QED
  BY <1>1, Invariance, PTL

(* Only a successful commit touches the committed chunks.                  *)
LEMMA OnlyCommitsChangeChunks ==
  ASSUME Inv, [Next]_vars
  PROVE  [Log!LogNext]_chunks
<1>1. CASE UNCHANGED vars
  BY <1>1 DEF vars
<1>2. ASSUME NEW p \in Supervisors, WorkerCommit(p),
             worker[p].ordinal \notin DOMAIN chunks
      PROVE  Log!LogNext
  <2>1. worker[p].ordinal \in 0 .. (ChunkCount - 1)
    BY <1>2 DEF Inv, TypeOK
  <2>2. Log!AppendChunk(worker[p].ordinal, p)
    BY <1>2, CommitAppends
  <2> QED
    BY <2>1, <2>2 DEF Log!LogNext
<1>3. ASSUME NEW p \in Supervisors, WorkerCommit(p),
             worker[p].ordinal \in DOMAIN chunks
      PROVE  UNCHANGED chunks
  BY <1>3 DEF WorkerCommit
<1>4. ASSUME NEW p \in Supervisors,
             \/ OpenWorkspace(p) \/ ParentStep(p) \/ WorkerDies(p)
             \/ MemoryLimit(p) \/ ParentCrashes(p)
      PROVE  UNCHANGED chunks
  BY <1>4 DEF OpenWorkspace, ParentStep, WriteMarker, PublishMarker,
              ScanWorkspace, StartWorker, JoinWorker, VerifyCommit, FinishRun,
              WorkerDies, MemoryLimit, ParentCrashes
<1>5. ASSUME NEW p \in Supervisors,
             \/ WorkerOpen(p) \/ WorkerScan(p) \/ WorkerBegin(p)
             \/ WorkerManifest(p) \/ WorkerExit(p)
      PROVE  UNCHANGED chunks
  BY <1>5 DEF WorkerOpen, WorkerScan, WorkerBegin, WorkerManifest, WorkerExit
<1> QED
  BY <1>1, <1>2, <1>3, <1>4, <1>5 DEF Next, WorkerStep

(* The workspace implements the append-only log: under any number of       *)
(* attempts, crashes, kills and orphaned workers, chunks are appended one  *)
(* at a time, each computed from the state of the one before it, and none  *)
(* is ever replaced.                                                       *)
THEOREM Implementation == Spec => ImplementsChunkLog
<1>1. Init => Log!LogInit
  BY DEF Init, Log!LogInit
<1>2. Inv /\ [Next]_vars => [Log!LogNext]_chunks
  BY OnlyCommitsChangeChunks
<1> QED
  BY <1>1, <1>2, Invariance, PTL DEF Spec, ImplementsChunkLog, Log!LogSpec
-----------------------------------------------------------------------------
(* Who computed what.  An attempt's chunks are the last ones before its    *)
(* cursor, or there are none: it goes on to the next chunk only when no    *)
(* other attempt has committed one since.                                  *)

ChunksOf(p) == {k \in DOMAIN chunks : chunks[k].author = p}

Owned(p) ==
  /\ parent[p] \in {"idle", "writing", "written", "opened"} =>
       worker[p].phase = "none" /\ ChunksOf(p) = {}
  /\ parent[p] = "dispatch" => worker[p].phase \notin Live
  /\ parent[p] \in {"waiting", "verify"} => worker[p].ordinal = cursor[p]
  /\ parent[p] = "verify" => worker[p].phase = "exited"
  /\ worker[p].phase \in Live => worker[p].ordinal = cursor[p]
  /\ worker[p].phase \in {"committed", "exited"} =>
       worker[p].ordinal \in ChunksOf(p)
  /\ \A i \in ChunksOf(p) :
       /\ i <= cursor[p]
       /\ \A j \in i .. (cursor[p] - 1) : j \in ChunksOf(p)
       /\ parent[p] = "dispatch" => i < cursor[p]
       /\ worker[p].phase \in Live \ {"committed"} => i < cursor[p]

Ownership == \A p \in Supervisors : Owned(p)


LEMMA OwnershipInit == Init => Ownership
<1> QED
  BY DEF Init, Ownership, Owned, ChunksOf, NoWorker, Live

(* An attempt's share only depends on its own parent, cursor and worker    *)
(* while the chunks stay.                                                  *)
LEMMA OthersKeepOwned ==
  ASSUME NEW q \in Supervisors, Owned(q),
         UNCHANGED <<chunks, parent[q], cursor[q], worker[q]>>
  PROVE  Owned(q)'
<1> QED
  BY DEF Owned, ChunksOf

LEMMA ParentStepsKeepOwned ==
  ASSUME Inv, NEW p \in Supervisors, Owned(p),
         OpenWorkspace(p) \/ ParentStep(p) \/ ParentCrashes(p)
  PROVE  Owned(p)'
<1> USE ChunkCountAssumption
<1>0. PICK n \in 0 .. ChunkCount : DOMAIN chunks = 0 .. (n - 1)
  BY DEF Inv, PrefixOfPlan
<1>n. n \in Nat /\ CommittedCount = n
  BY <1>0, CommittedCountOfPrefix
<1>t. TypeOK
  BY DEF Inv
<1>c. UNCHANGED chunks
  BY DEF OpenWorkspace, ParentStep, WriteMarker, PublishMarker, ScanWorkspace,
         StartWorker, JoinWorker, VerifyCommit, FinishRun, ParentCrashes
<1>1. CASE OpenWorkspace(p)
  BY <1>1, <1>t, <1>c DEF TypeOK, OpenWorkspace, ParentGoes, Owned, ChunksOf
<1>2. CASE WriteMarker(p)
  BY <1>2, <1>t, <1>c DEF TypeOK, WriteMarker, ParentGoes, Owned, ChunksOf
<1>3. CASE PublishMarker(p)
  BY <1>3, <1>t, <1>c DEF TypeOK, PublishMarker, ParentGoes, Owned, ChunksOf
<1>4. CASE ScanWorkspace(p)
  <2>1. ChunksOf(p) = {} /\ ChunksOf(p)' = {} /\ worker'[p].phase = "none"
    BY <1>4, <1>c DEF ScanWorkspace, Owned, ChunksOf
  <2>2. parent'[p] \in {"failed", "dispatch"}
    BY <1>4, <1>t DEF TypeOK, ScanWorkspace, ParentGoes
  <2> QED
    BY <2>1, <2>2 DEF Owned, Live
<1>5. CASE StartWorker(p)
  <2>1. /\ worker'[p].phase = "open" /\ worker'[p].ordinal = cursor[p]
        /\ parent'[p] = "waiting" /\ cursor' = cursor
        /\ parent[p] = "dispatch"
    BY <1>5, <1>t DEF TypeOK, StartWorker, ParentGoes
  <2> QED
    BY <2>1, <1>c, <1>t DEF Owned, ChunksOf, Live
<1>6. CASE JoinWorker(p)
  <2>1. /\ parent[p] = "waiting"
        /\ parent'[p] = IF worker[p].phase = "exited" THEN "verify" ELSE "failed"
        /\ UNCHANGED <<cursor, worker>>
        /\ worker[p].phase \notin Live
    BY <1>6, <1>t DEF TypeOK, JoinWorker, ParentGoes, WorkerEnded, Live
  <2> QED
    BY <2>1, <1>c DEF Owned, ChunksOf
<1>7. CASE VerifyCommit(p)
  <2>1. CASE parent' = [parent EXCEPT ![p] = "failed"] /\ cursor' = cursor
    BY <1>7, <1>t, <1>c, <2>1 DEF TypeOK, VerifyCommit, Owned, ChunksOf
  <2>2. CASE /\ parent' = [parent EXCEPT ![p] = "dispatch"]
             /\ cursor' = [cursor EXCEPT ![p] = @ + 1]
    <3>1. /\ cursor[p] \in ChunksOf(p) /\ cursor'[p] = cursor[p] + 1
          /\ cursor[p] \in Nat /\ worker' = worker /\ ChunksOf(p)' = ChunksOf(p)
          /\ parent'[p] = "dispatch" /\ worker[p].phase = "exited"
      BY <1>7, <1>t, <1>c, <2>2 DEF TypeOK, VerifyCommit, Owned, ChunksOf
    <3>2. ASSUME NEW i \in ChunksOf(p)
          PROVE  /\ i < cursor[p] + 1
                 /\ \A j \in i .. cursor[p] : j \in ChunksOf(p)
      <4>1. i \in Int /\ i <= cursor[p]
        BY <1>0 DEF Owned, ChunksOf
      <4>2. ASSUME NEW j \in i .. cursor[p] PROVE j \in ChunksOf(p)
        <5>1. CASE j = cursor[p]
          BY <3>1, <5>1
        <5>2. CASE j # cursor[p]
          BY <3>1, <4>1, <5>2 DEF Owned
        <5> QED
          BY <5>1, <5>2
      <4> QED
        BY <3>1, <4>1, <4>2
    <3>3. \A i \in ChunksOf(p)' :
            /\ i <= cursor'[p]
            /\ \A j \in i .. (cursor'[p] - 1) : j \in ChunksOf(p)'
            /\ i < cursor'[p]
      <4>1. \A i \in ChunksOf(p) : i \in Int
        BY <1>0 DEF ChunksOf
      <4> QED
        BY <3>1, <3>2, <4>1
    <3>4. worker'[p].ordinal \in ChunksOf(p)'
      BY <3>1 DEF Owned
    <3> QED
      BY <3>1, <3>3, <3>4 DEF Owned, Live
  <2> QED
    BY <1>7, <2>1, <2>2 DEF VerifyCommit, ParentGoes
<1>8. CASE FinishRun(p)
  BY <1>8, <1>t, <1>c DEF TypeOK, FinishRun, ParentGoes, Owned, ChunksOf
<1>9. CASE ParentCrashes(p)
  BY <1>9, <1>t, <1>c DEF TypeOK, ParentCrashes, ParentGoes, Owned, ChunksOf
<1> QED
  BY <1>1, <1>2, <1>3, <1>4, <1>5, <1>6, <1>7, <1>8, <1>9 DEF ParentStep

LEMMA WorkerStepsKeepOwned ==
  ASSUME Inv, NEW p \in Supervisors, Owned(p),
         WorkerStep(p) \/ WorkerDies(p) \/ MemoryLimit(p)
  PROVE  Owned(p)'
<1> USE ChunkCountAssumption
<1>t. TypeOK
  BY DEF Inv
<1>1. CASE WorkerOpen(p)
  BY <1>1, <1>t DEF TypeOK, WorkerOpen, WorkerGoes, Owned, ChunksOf, Live
<1>2. CASE WorkerScan(p)
  <2>1. /\ worker[p].phase = "scan"
        /\ worker'[p].phase \in {"failed", "run"}
        /\ worker'[p].ordinal = worker[p].ordinal
        /\ UNCHANGED <<parent, cursor, chunks>>
    <3>1. CASE ~Contiguous \/ CommittedCount # worker[p].ordinal
      BY <1>2, <1>t, <3>1 DEF TypeOK, WorkerScan, WorkerGoes
    <3>2. CASE ~(~Contiguous \/ CommittedCount # worker[p].ordinal)
      <4> DEFINE last == IF worker[p].ordinal = 0 THEN "initial"
                         ELSE chunks[worker[p].ordinal - 1].author
      <4>1. worker' = [worker EXCEPT ![p] =
                         [worker[p] EXCEPT !.phase = "run", !.parent = last]]
        BY <1>2, <3>2 DEF WorkerScan
      <4>2. worker'[p] = [worker[p] EXCEPT !.phase = "run", !.parent = last]
        BY <4>1, <1>t DEF TypeOK
      <4> QED
        BY <4>2, <1>2, <1>t DEF TypeOK, WorkerScan
    <3> QED
      BY <3>1, <3>2
  <2> QED
    BY <2>1 DEF Owned, ChunksOf, Live
<1>3. CASE WorkerBegin(p)
  BY <1>3, <1>t DEF TypeOK, WorkerBegin, WorkerGoes, Owned, ChunksOf, Live
<1>4. CASE WorkerManifest(p)
  BY <1>4, <1>t DEF TypeOK, WorkerManifest, WorkerGoes, Owned, ChunksOf, Live
<1>5. CASE WorkerCommit(p) /\ worker[p].ordinal \in DOMAIN chunks
  BY <1>5, <1>t DEF TypeOK, WorkerCommit, WorkerGoes, Owned, ChunksOf, Live
<1>6. CASE WorkerCommit(p) /\ worker[p].ordinal \notin DOMAIN chunks
  <2> DEFINE k == worker[p].ordinal
  <2>1. /\ worker[p].phase = "manifested" /\ worker'[p].phase = "committed"
        /\ worker'[p].ordinal = k /\ UNCHANGED <<parent, cursor>>
        /\ k = cursor[p] /\ k \in Nat
    BY <1>6, <1>t DEF TypeOK, WorkerCommit, WorkerGoes, Owned, Live
  <2>2. ChunksOf(p)' = ChunksOf(p) \cup {k}
    BY <1>6 DEF WorkerCommit, ChunksOf
  <2>3. ASSUME NEW i \in ChunksOf(p)'
        PROVE  i <= k /\ \A j \in i .. (k - 1) : j \in ChunksOf(p)'
    BY <2>1, <2>2 DEF Owned
  <2>4. parent[p] \notin {"idle", "writing", "written", "opened", "dispatch",
                         "verify"}
    BY <2>1 DEF Owned, Live
  <2> QED
    BY <2>1, <2>2, <2>3, <2>4 DEF Owned, Live
<1>7. CASE WorkerExit(p)
  BY <1>7, <1>t DEF TypeOK, WorkerExit, WorkerGoes, Owned, ChunksOf, Live
<1>8. CASE WorkerDies(p)
  BY <1>8, <1>t DEF TypeOK, WorkerDies, WorkerGoes, Owned, ChunksOf, Live
<1>9. CASE MemoryLimit(p)
  BY <1>9, <1>t DEF TypeOK, MemoryLimit, WorkerGoes, ParentGoes, Owned, ChunksOf,
                    Live
<1> QED
  BY <1>1, <1>2, <1>3, <1>4, <1>5, <1>6, <1>7, <1>8, <1>9 DEF WorkerStep

(* A step of one attempt leaves every other attempt where it is.           *)
LEMMA OthersStay ==
  ASSUME Inv, NEW p \in Supervisors, NEW q \in Supervisors, q # p,
         \/ OpenWorkspace(p) \/ ParentStep(p) \/ ParentCrashes(p)
         \/ WorkerStep(p) \/ WorkerDies(p) \/ MemoryLimit(p)
  PROVE  UNCHANGED <<parent[q], cursor[q], worker[q]>>
<1>t. TypeOK
  BY DEF Inv
<1>1. CASE OpenWorkspace(p) \/ ParentStep(p) \/ ParentCrashes(p)
  BY <1>t, <1>1
  DEF TypeOK, OpenWorkspace, ParentStep, WriteMarker, PublishMarker,
      ScanWorkspace, StartWorker, JoinWorker, VerifyCommit, FinishRun,
      ParentCrashes, ParentGoes
<1>2. CASE WorkerStep(p) \/ WorkerDies(p) \/ MemoryLimit(p)
  BY <1>t, <1>2
  DEF TypeOK, WorkerStep, WorkerOpen, WorkerScan, WorkerBegin,
      WorkerManifest, WorkerCommit, WorkerExit, WorkerDies, MemoryLimit,
      WorkerGoes, ParentGoes
<1> QED
  BY <1>1, <1>2

(* A chunk another attempt appends belongs to it and follows all others.   *)
LEMMA OwnershipNext ==
  ASSUME Inv, Ownership, [Next]_vars PROVE Ownership'
<1>1. CASE UNCHANGED vars
  BY <1>1, OthersKeepOwned DEF vars, Ownership
<1>2. ASSUME NEW p \in Supervisors,
             \/ OpenWorkspace(p) \/ ParentStep(p) \/ ParentCrashes(p)
             \/ WorkerStep(p) \/ WorkerDies(p) \/ MemoryLimit(p),
             NEW q \in Supervisors, q # p
      PROVE  Owned(q)'
  <2>t. TypeOK /\ Owned(q)
    BY DEF Inv, Ownership
  <2>1. UNCHANGED <<parent[q], cursor[q], worker[q]>>
    BY <1>2, OthersStay
  <2>2. CASE WorkerCommit(p) /\ worker[p].ordinal \notin DOMAIN chunks
    <3>1. ChunksOf(q)' = ChunksOf(q)
      BY <1>2, <2>2 DEF WorkerCommit, ChunksOf
    <3> QED
      BY <2>t, <2>1, <3>1 DEF Owned
  <2>3. CASE ~(WorkerCommit(p) /\ worker[p].ordinal \notin DOMAIN chunks)
    <3>1. UNCHANGED chunks
      BY <1>2, <2>3
      DEF OpenWorkspace, ParentStep, WriteMarker, PublishMarker,
          ScanWorkspace, StartWorker, JoinWorker, VerifyCommit, FinishRun,
          ParentCrashes, WorkerStep, WorkerOpen, WorkerScan, WorkerBegin,
          WorkerManifest, WorkerCommit, WorkerExit, WorkerDies, MemoryLimit
    <3> QED
      BY <2>t, <2>1, <3>1, OthersKeepOwned
  <2> QED
    BY <2>2, <2>3
<1>3. ASSUME NEW p \in Supervisors,
             \/ OpenWorkspace(p) \/ ParentStep(p) \/ ParentCrashes(p)
             \/ WorkerStep(p) \/ WorkerDies(p) \/ MemoryLimit(p)
      PROVE  Owned(p)'
  BY <1>3, ParentStepsKeepOwned, WorkerStepsKeepOwned DEF Ownership
<1> QED
  BY <1>1, <1>2, <1>3 DEF Next, Ownership

(* However attempts crash, are orphaned or overlap, the chunks of one      *)
(* attempt are consecutive: a result is pieced together with at most one   *)
(* hand-over per attempt.                                                  *)
THEOREM ChunksInRuns == Spec => []AuthorsDoNotInterleave
<1>1. Inv /\ Ownership => AuthorsDoNotInterleave
  <2> SUFFICES ASSUME Inv, Ownership,
                      NEW i \in DOMAIN chunks, NEW j \in DOMAIN chunks,
                      NEW k \in DOMAIN chunks,
                      i < j, j < k, chunks[i].author = chunks[k].author
               PROVE  chunks[j].author = chunks[i].author
    BY DEF AuthorsDoNotInterleave
  <2> DEFINE p == chunks[i].author
  <2>1. p \in Supervisors /\ i \in ChunksOf(p) /\ k \in ChunksOf(p)
    BY DEF Inv, Authored, ChunksOf
  <2>2. i \in Int /\ j \in Int /\ k \in Int /\ cursor[p] \in Int
    BY <2>1, ChunkCountAssumption DEF Inv, TypeOK
  <2>3. j \in i .. (cursor[p] - 1)
    BY <2>1, <2>2 DEF Ownership, Owned
  <2> QED
    BY <2>1, <2>3 DEF Ownership, Owned, ChunksOf
<1>2. Inv /\ Ownership /\ [Next]_vars => Ownership'
  BY OwnershipNext
<1> QED
  BY <1>1, <1>2, OwnershipInit, Invariance, PTL DEF Spec
-----------------------------------------------------------------------------
(* Recovery.                                                               *)

Alone(p) == \A q \in Supervisors \ {p} : ~Running(q)

(* The last committed ordinal.                                             *)
Counted(p) ==
  IF worker[p].phase \in {"committed", "exited"}
  THEN cursor[p] ELSE cursor[p] - 1

(* Where an undisturbed attempt stands under the resume policy: alone, with *)
(* the workspace as it left it; it has failed only where it found the      *)
(* marker torn, and then nobody is writing the marker anew.                *)
Safe(p) ==
  /\ Running(p) => Alone(p)
  /\ worker[p].phase \in Live => parent[p] = "waiting"
  /\ parent[p] = "writing" =>
       marker = "absent" /\ tmp # "absent" /\ open[p] = "tmp"
  /\ parent[p] = "written" => marker = "absent" /\ tmp = "whole"
  /\ parent[p] \in {"opened", "dispatch", "waiting", "verify"} => marker = "whole"
  /\ parent[p] = "dispatch" => DOMAIN chunks = 0 .. (cursor[p] - 1)
  /\ parent[p] = "waiting" =>
       /\ worker[p].phase \notin {"none", "failed"}
       /\ worker[p].ordinal = cursor[p]
       /\ DOMAIN chunks = 0 .. Counted(p)
  /\ parent[p] = "verify" => DOMAIN chunks = 0 .. cursor[p]
  /\ parent[p] = "failed" =>
       /\ marker = "partial"
       /\ \A q \in Supervisors : parent[q] \notin {"writing", "written"}

Undisturbed ==
  \A p \in Supervisors \ disturbed : policy = "resume" => Safe(p)

LEMMA UndisturbedInit == Init => Undisturbed
<1> QED
  BY DEF Init, Undisturbed, Safe, Running, NoWorker, Live, Ended

(* A step of another attempt finds an undisturbed one ended or not begun:  *)
(* an attempt that starts beside a running one disturbs it.                *)
LEMMA OthersKeepSafe ==
  ASSUME Inv, NEW p \in Supervisors, NEW q \in Supervisors, q # p,
         \/ OpenWorkspace(p) \/ ParentStep(p) \/ ParentCrashes(p)
         \/ WorkerStep(p) \/ WorkerDies(p) \/ MemoryLimit(p),
         Safe(q), q \notin disturbed'
  PROVE  Safe(q)'
<1>t. TypeOK
  BY DEF Inv
<1>0. UNCHANGED <<parent[q], cursor[q], worker[q]>>
  BY OthersStay
<1>1. ~Running(q)
  <2>1. CASE OpenWorkspace(p)
    BY <2>1 DEF OpenWorkspace, Met
  <2>2. CASE ~OpenWorkspace(p)
    <3>1. Running(p)
      BY <2>2
      DEF ParentStep, WriteMarker, PublishMarker, ScanWorkspace, StartWorker,
          JoinWorker, VerifyCommit, FinishRun, ParentCrashes, WorkerStep,
          WorkerOpen, WorkerScan, WorkerBegin, WorkerManifest, WorkerCommit,
          WorkerExit, WorkerDies, MemoryLimit, Running, Ended, Live
    <3> QED
      BY <3>1 DEF Safe, Alone
  <2> QED
    BY <2>1, <2>2
<1>2. ~Running(q)'
  BY <1>0, <1>1 DEF Running
<1>3. CASE parent[q] = "failed"
  <2>1. /\ marker = "partial"
        /\ \A r \in Supervisors : parent[r] \notin {"writing", "written"}
    BY <1>3 DEF Safe
  <2>2. UNCHANGED marker /\ parent'[p] \notin {"writing", "written"}
    <3>1. CASE OpenWorkspace(p) \/ ParentStep(p) \/ ParentCrashes(p)
      BY <1>t, <2>1, <3>1
      DEF TypeOK, OpenWorkspace, ParentStep, WriteMarker, PublishMarker,
          ScanWorkspace, StartWorker, JoinWorker, VerifyCommit, FinishRun,
          ParentCrashes, ParentGoes, files
    <3>2. CASE WorkerStep(p) \/ WorkerDies(p) \/ MemoryLimit(p)
      BY <1>t, <2>1, <3>2
      DEF TypeOK, WorkerStep, WorkerOpen, WorkerScan, WorkerBegin,
          WorkerManifest, WorkerCommit, WorkerExit, WorkerDies, MemoryLimit,
          WorkerGoes, ParentGoes, files
    <3> QED
      BY <3>1, <3>2
  <2>3. \A r \in Supervisors : parent'[r] \notin {"writing", "written"}
    BY <2>1, <2>2, OthersStay
  <2> QED
    BY <1>0, <1>2, <1>3, <2>1, <2>2, <2>3 DEF Safe, Running, Ended
<1>4. CASE parent[q] # "failed"
  BY <1>0, <1>2, <1>4 DEF Safe, Running, Ended
<1> QED
  BY <1>3, <1>4

(* Nobody starts to run beside an attempt that is alone, but by opening.   *)
LEMMA AloneStays ==
  ASSUME Inv, NEW p \in Supervisors, Alone(p),
         \/ OpenWorkspace(p) \/ ParentStep(p) \/ WorkerStep(p)
  PROVE  Alone(p)'
<1>1. \A q \in Supervisors \ {p} : UNCHANGED <<parent[q], worker[q]>>
  BY OthersStay
<1> QED
  BY <1>1 DEF Alone, Running

LEMMA ParentStepsKeepSafe ==
  ASSUME Inv, Ownership, policy = "resume", NEW p \in Supervisors,
         OpenWorkspace(p) \/ ParentStep(p) \/ ParentCrashes(p),
         Safe(p), p \notin disturbed'
  PROVE  Safe(p)'
<1> USE ChunkCountAssumption
<1>0. PICK n \in 0 .. ChunkCount : DOMAIN chunks = 0 .. (n - 1)
  BY DEF Inv, PrefixOfPlan
<1>n. n \in Nat /\ CommittedCount = n /\ Contiguous
  BY <1>0, CommittedCountOfPrefix DEF Contiguous, CommittedCount
<1>t. TypeOK /\ Owned(p)
  BY DEF Inv, Ownership
<1>1. CASE OpenWorkspace(p)
  <2>1. Alone(p)
    BY <1>1 DEF OpenWorkspace, Met, Alone
  <2>2. Alone(p)' /\ worker'[p].phase = "none"
    BY <1>1, <1>t, <2>1, AloneStays DEF OpenWorkspace, Owned
  <2>3. CASE marker = "absent"
    BY <1>1, <1>t, <2>2, <2>3 DEF TypeOK, OpenWorkspace, ParentGoes, Safe, Live
  <2>4. CASE marker = "whole"
    BY <1>1, <1>t, <2>2, <2>4 DEF TypeOK, OpenWorkspace, ParentGoes, Safe, Live
  <2>5. CASE marker = "partial"
    <3>1. parent' = [parent EXCEPT ![p] = "failed"] /\ UNCHANGED <<marker, worker>>
      BY <1>1, <2>5 DEF OpenWorkspace, ParentGoes
    <3>2. \A q \in Supervisors : parent'[q] \notin {"writing", "written"}
      BY <3>1, <1>t, <2>1 DEF TypeOK, Alone, Running, Ended
    <3> QED
      BY <1>t, <2>2, <2>5, <3>1, <3>2 DEF TypeOK, Safe, Live
  <2> QED
    BY <1>t, <2>3, <2>4, <2>5 DEF TypeOK, Contents
<1>2. CASE ParentStep(p)
  <2>0. Running(p)
    BY <1>2 DEF ParentStep, WriteMarker, PublishMarker, ScanWorkspace,
                StartWorker, JoinWorker, VerifyCommit, FinishRun, Running, Ended
  <2>1. Alone(p)'
    BY <1>2, <2>0, AloneStays DEF Safe
  <2>2. CASE WriteMarker(p)
    BY <1>t, <2>1, <2>2 DEF TypeOK, WriteMarker, ParentGoes, Safe
  <2>3. CASE PublishMarker(p)
    BY <1>t, <2>1, <2>3 DEF TypeOK, PublishMarker, ParentGoes, Safe
  <2>4. CASE ScanWorkspace(p)
    <3>1. /\ cursor'[p] = n /\ parent'[p] = "dispatch"
          /\ UNCHANGED <<marker, chunks, worker>>
          /\ parent[p] = "opened" /\ worker[p].phase = "none"
      BY <1>n, <1>t, <2>4
      DEF TypeOK, ScanWorkspace, Refused, ParentGoes, files, Owned
    <3> QED
      BY <1>0, <2>1, <3>1 DEF Safe, Live
  <2>5. CASE StartWorker(p)
    <3>1. /\ worker'[p].phase = "open" /\ worker'[p].ordinal = cursor[p]
          /\ parent'[p] = "waiting" /\ parent[p] = "dispatch"
          /\ UNCHANGED <<cursor, marker, chunks>>
      BY <1>t, <2>5 DEF TypeOK, StartWorker, ParentGoes, files
    <3> QED
      BY <2>1, <3>1 DEF Safe, Counted
  <2>6. CASE JoinWorker(p)
    <3>1. /\ worker[p].phase = "exited" /\ parent[p] = "waiting"
          /\ parent'[p] = "verify"
          /\ UNCHANGED <<cursor, marker, chunks, worker>>
      BY <1>t, <2>6 DEF TypeOK, JoinWorker, WorkerEnded, ParentGoes, Safe, files
    <3> QED
      BY <2>1, <3>1 DEF Safe, Counted, Live
  <2>7. CASE VerifyCommit(p)
    <3>1. cursor[p] \in Nat /\ DOMAIN chunks = 0 .. ((cursor[p] + 1) - 1)
      BY <1>t, <2>7 DEF TypeOK, VerifyCommit, Safe
    <3>2. CommittedCount = cursor[p] + 1
      BY <3>1, CommittedCountOfPrefix
    <3>3. /\ cursor'[p] = cursor[p] + 1 /\ parent'[p] = "dispatch"
          /\ parent[p] = "verify" /\ UNCHANGED <<marker, chunks, worker>>
      BY <1>n, <1>t, <2>7, <3>2 DEF TypeOK, VerifyCommit, ParentGoes, files
    <3> QED
      BY <2>1, <3>1, <3>3 DEF Safe
  <2>8. CASE FinishRun(p)
    <3>1. cursor[p] \in Nat /\ DOMAIN chunks = 0 .. (cursor[p] - 1)
      BY <1>t, <2>8 DEF TypeOK, FinishRun, Safe
    <3>2. CommittedCount = cursor[p]
      BY <3>1, CommittedCountOfPrefix
    <3>3. /\ parent'[p] = "finished" /\ UNCHANGED worker
          /\ worker[p].phase \notin Live
      BY <1>n, <1>t, <2>8, <3>2
      DEF TypeOK, FinishRun, MoreChunks, ParentGoes, Owned
    <3> QED
      BY <2>1, <3>3 DEF Safe
  <2> QED
    BY <1>2, <2>2, <2>3, <2>4, <2>5, <2>6, <2>7, <2>8 DEF ParentStep
<1>3. CASE ParentCrashes(p)
  BY <1>3 DEF ParentCrashes
<1> QED
  BY <1>1, <1>2, <1>3

LEMMA WorkerStepsKeepSafe ==
  ASSUME Inv, policy = "resume", NEW p \in Supervisors,
         WorkerStep(p) \/ WorkerDies(p) \/ MemoryLimit(p),
         Safe(p), p \notin disturbed'
  PROVE  Safe(p)'
<1> USE ChunkCountAssumption
<1>t. TypeOK /\ cursor[p] \in Nat
  BY DEF Inv, TypeOK
<1>0. WorkerStep(p)
  BY DEF WorkerDies, MemoryLimit
<1>1. /\ worker[p].phase \in Live /\ parent[p] = "waiting"
      /\ marker = "whole" /\ worker[p].ordinal = cursor[p]
      /\ DOMAIN chunks = 0 .. Counted(p)
  BY <1>0 DEF WorkerStep, WorkerOpen, WorkerScan, WorkerBegin, WorkerManifest,
              WorkerCommit, WorkerExit, Live, Safe
<1>2. Alone(p)'
  BY <1>0, <1>1, AloneStays DEF Safe, Running
<1>3. UNCHANGED <<parent, cursor, marker>>
  BY <1>0 DEF WorkerStep, WorkerOpen, WorkerScan, WorkerBegin, WorkerManifest,
              WorkerCommit, WorkerExit, files
<1>4. ASSUME worker'[p].ordinal = cursor[p],
             worker'[p].phase \in Live \cup {"exited"},
             DOMAIN chunks' =
               IF worker'[p].phase \in {"committed", "exited"}
               THEN 0 .. cursor[p] ELSE 0 .. (cursor[p] - 1)
      PROVE  Safe(p)'
  BY <1>1, <1>2, <1>3, <1>4 DEF Safe, Counted, Live
<1>5. CASE WorkerOpen(p)
  BY <1>1, <1>4, <1>5, <1>t DEF TypeOK, WorkerOpen, WorkerGoes, Live, Counted
<1>6. CASE WorkerScan(p)
  <2>1. DOMAIN chunks = 0 .. (cursor[p] - 1)
    BY <1>1, <1>6 DEF WorkerScan, Counted
  <2>2. CommittedCount = cursor[p] /\ Contiguous
    BY <1>t, <2>1, CommittedCountOfPrefix DEF Contiguous, CommittedCount
  <2> DEFINE last == IF worker[p].ordinal = 0 THEN "initial"
                     ELSE chunks[worker[p].ordinal - 1].author
  <2>3. worker' = [worker EXCEPT ![p] =
                     [worker[p] EXCEPT !.phase = "run", !.parent = last]]
    BY <1>1, <1>6, <2>2 DEF WorkerScan
  <2>4. worker'[p].phase = "run" /\ worker'[p].ordinal = worker[p].ordinal
    BY <2>3, <1>t DEF TypeOK
  <2> QED
    BY <1>1, <1>4, <1>6, <2>1, <2>4 DEF WorkerScan, Live
<1>7. CASE WorkerBegin(p) \/ WorkerManifest(p)
  <2>1. DOMAIN chunks = 0 .. (cursor[p] - 1)
    BY <1>1, <1>7 DEF WorkerBegin, WorkerManifest, Counted
  <2>2. cursor[p] \notin DOMAIN chunks
    BY <1>t, <2>1
  <2>3. /\ worker'[p].phase \in {"staged", "manifested"}
        /\ worker'[p].ordinal = cursor[p] /\ chunks' = chunks
    BY <1>1, <1>7, <1>t, <2>2
    DEF TypeOK, WorkerBegin, WorkerManifest, WorkerGoes
  <2> QED
    BY <1>4, <2>1, <2>3 DEF Live
<1>8. CASE WorkerCommit(p)
  <2>1. DOMAIN chunks = 0 .. (cursor[p] - 1)
    BY <1>1, <1>8 DEF WorkerCommit, Counted
  <2>2. cursor[p] \notin DOMAIN chunks
    BY <1>t, <2>1
  <2>3. DOMAIN chunks' = 0 .. cursor[p]
    BY <1>1, <1>8, <2>2, CommitAppends
  <2>4. worker'[p].phase = "committed" /\ worker'[p].ordinal = cursor[p]
    BY <1>1, <1>8, <1>t, <2>2 DEF TypeOK, WorkerCommit, WorkerGoes
  <2> QED
    BY <1>4, <2>3, <2>4 DEF Live
<1>9. CASE WorkerExit(p)
  <2>1. /\ DOMAIN chunks = 0 .. cursor[p] /\ chunks' = chunks
        /\ worker'[p].phase = "exited" /\ worker'[p].ordinal = cursor[p]
    BY <1>1, <1>9, <1>t DEF TypeOK, WorkerExit, WorkerGoes, Counted
  <2> QED
    BY <1>4, <2>1
<1> QED
  BY <1>0, <1>5, <1>6, <1>7, <1>8, <1>9 DEF WorkerStep

LEMMA UndisturbedNext ==
  ASSUME Inv, Ownership, Undisturbed, [Next]_vars PROVE Undisturbed'
<1>1. CASE UNCHANGED vars
  BY <1>1 DEF vars, files, Undisturbed, Safe, Alone, Running, Counted
<1>2. ASSUME NEW p \in Supervisors,
             \/ OpenWorkspace(p) \/ ParentStep(p) \/ ParentCrashes(p)
             \/ WorkerStep(p) \/ WorkerDies(p) \/ MemoryLimit(p)
      PROVE  Undisturbed'
  <2>0. UNCHANGED policy /\ disturbed \subseteq disturbed'
    BY <1>2
    DEF OpenWorkspace, ParentStep, WriteMarker, PublishMarker,
        ScanWorkspace, StartWorker, JoinWorker, VerifyCommit, FinishRun,
        ParentCrashes, WorkerStep, WorkerOpen, WorkerScan, WorkerBegin,
        WorkerManifest, WorkerCommit, WorkerExit, WorkerDies, MemoryLimit
  <2>1. ASSUME NEW q \in Supervisors, q \notin disturbed', policy' = "resume"
        PROVE  Safe(q)'
    <3>1. Safe(q) /\ policy = "resume"
      BY <2>0, <2>1 DEF Undisturbed
    <3>2. CASE q # p
      BY <1>2, <2>1, <3>1, <3>2, OthersKeepSafe
    <3>3. CASE q = p
      BY <1>2, <2>1, <3>1, <3>3, ParentStepsKeepSafe, WorkerStepsKeepSafe
    <3> QED
      BY <3>2, <3>3
  <2> QED
    BY <2>1 DEF Undisturbed
<1> QED
  BY <1>1, <1>2 DEF Next

(* Whatever crashed attempts leave behind, an attempt that resumes with no *)
(* other beside it does not fail, unless two of them tore the marker.      *)
THEOREM RecoveryWorks == Spec => []RecoverySucceeds
<1>1. Undisturbed => RecoverySucceeds
  BY DEF Undisturbed, Safe, RecoverySucceeds, UndisturbedAttemptSucceeds
<1>2. Inv /\ Ownership /\ [Next]_vars => Ownership'
  BY OwnershipNext
<1>3. Inv /\ Ownership /\ Undisturbed /\ [Next]_vars => Undisturbed'
  BY UndisturbedNext
<1> QED
  BY <1>1, <1>2, <1>3, OwnershipInit, UndisturbedInit, Invariance, PTL DEF Spec
=============================================================================
