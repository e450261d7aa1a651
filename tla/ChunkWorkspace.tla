--------------------------- MODULE ChunkWorkspace ---------------------------
(***************************************************************************)
(* Recoverable chunked execution: the durable workspace                    *)
(* (bfbt/performance/recovery.py), the parent that runs the chunk plan     *)
(* (bfbt/engine/v2_chunked.py, run_v2_backtest_chunked) and the worker     *)
(* process it spawns for each chunk (_execute_chunk_worker) under the      *)
(* memory supervisor (bfbt/performance/memory.py).                         *)
(*                                                                         *)
(* Every run attempt works on the one workspace its identity names; an     *)
(* attempt may crash, its worker may be killed, an orphaned worker keeps   *)
(* running, and several attempts may run at once.  A chunk's economic      *)
(* content is not modelled: a committed chunk records who computed it and  *)
(* whose state that computation resumed from.                              *)
(***************************************************************************)
EXTENDS Integers, FiniteSets

CONSTANTS
  Supervisors,     \* run attempts; each runs once
  ChunkCount,      \* len(plan)
  ResumePolicies   \* the resume_policy values a configuration may choose

ASSUME ChunkCountAssumption == ChunkCount \in Nat \ {0}

VARIABLES
  policy,     \* performance.resume_policy; part of the identity, so shared
  marker,     \* workspace.json: "absent", "partial" or "whole"
  tmp,        \* workspace.json.tmp, the same
  open,       \* attempt -> the file its descriptor writes: "none", "tmp",
              \*   "marker" or "lost"
  chunks,     \* committed chunk directories: ordinal -> [author, parent]
  staging,    \* private transaction directories: {[author, ordinal]}
  parent,     \* attempt -> where run_v2_backtest_chunked stands
  cursor,     \* attempt -> the ordinal the parent is working on
  worker,     \* attempt -> [phase, ordinal, parent] of its current worker
  disturbed   \* history: the attempts that met another one, or a kill

files == <<marker, tmp, open>>
vars == <<policy, files, chunks, staging, parent, cursor, worker, disturbed>>

Ended == {"finished", "failed", "crashed"}
Live == {"open", "scan", "run", "staged", "manifested", "committed"}

Running(p) == parent[p] \notin {"idle"} \cup Ended \/ worker[p].phase \in Live

(* The attempts that meet when p takes a step.                             *)
Met(p) ==
  IF \E q \in Supervisors \ {p} : Running(q)
  THEN {q \in Supervisors : Running(q)} \cup {p}
  ELSE {}

NoWorker == [phase |-> "none", ordinal |-> 0, parent |-> "initial"]

Init ==
  /\ policy \in ResumePolicies
  /\ marker = "absent"
  /\ tmp = "absent"
  /\ open = [p \in Supervisors |-> "none"]
  /\ chunks = [k \in {} |-> 0]
  /\ staging = {}
  /\ parent = [p \in Supervisors |-> "idle"]
  /\ cursor = [p \in Supervisors |-> 0]
  /\ worker = [p \in Supervisors |-> NoWorker]
  /\ disturbed = {}

ParentGoes(p, place) == parent' = [parent EXCEPT ![p] = place]

WorkerGoes(p, phase) == worker' = [worker EXCEPT ![p].phase = phase]

-----------------------------------------------------------------------------
(* V2ChunkWorkspace.__init__: the marker is read when there is one and     *)
(* otherwise written through a temporary file whose name all attempts      *)
(* share.                                                                  *)

OpenWorkspace(p) ==
  /\ parent[p] = "idle"
  /\ disturbed' = disturbed \cup Met(p)
  /\ IF marker = "absent"
     THEN /\ tmp' = "partial"
          /\ open' = [open EXCEPT ![p] = "tmp"]
          /\ ParentGoes(p, "writing")
     ELSE /\ ParentGoes(p, IF marker = "whole" THEN "opened" ELSE "failed")
          /\ UNCHANGED <<tmp, open>>
  /\ UNCHANGED <<policy, marker, chunks, staging, cursor, worker>>

WriteMarker(p) ==
  /\ parent[p] = "writing"
  /\ tmp' = IF open[p] = "tmp" THEN "whole" ELSE tmp
  /\ marker' = IF open[p] = "marker" THEN "whole" ELSE marker
  /\ open' = [open EXCEPT ![p] = "none"]
  /\ ParentGoes(p, "written")
  /\ UNCHANGED <<policy, chunks, staging, cursor, worker, disturbed>>

(* os.replace moves whatever the name holds by now, and with it the        *)
(* descriptors of the attempts still writing.                              *)
PublishMarker(p) ==
  /\ parent[p] = "written"
  /\ IF tmp = "absent"
     THEN ParentGoes(p, "failed") /\ UNCHANGED files
     ELSE /\ marker' = tmp
          /\ tmp' = "absent"
          /\ open' = [q \in Supervisors |->
                        CASE open[q] = "tmp" -> "marker"
                          [] open[q] = "marker" -> "lost"
                          [] OTHER -> open[q]]
          /\ ParentGoes(p, "opened")
  /\ UNCHANGED <<policy, chunks, staging, cursor, worker, disturbed>>

-----------------------------------------------------------------------------
(* committed(plan): the validated prefix of committed chunks.              *)

Contiguous == DOMAIN chunks = 0 .. (Cardinality(DOMAIN chunks) - 1)

CommittedCount == Cardinality(DOMAIN chunks)

\* Mutant: an abandoned transaction blocks a resume as well.
RefusedForLeftovers ==
  \/ ~Contiguous
  \/ staging # {}
  \/ policy = "error_if_exists" /\ DOMAIN chunks # {}

(* What a run attempt refuses to resume from.                              *)
Refused ==
  \/ ~Contiguous
  \/ policy = "error_if_exists" /\ (DOMAIN chunks # {} \/ staging # {})

(* The parent resumes after the committed chunks.                          *)
ScanWorkspace(p) ==
  /\ parent[p] = "opened"
  /\ IF Refused
     THEN ParentGoes(p, "failed") /\ UNCHANGED cursor
     ELSE /\ ParentGoes(p, "dispatch")
          /\ cursor' = [cursor EXCEPT ![p] = CommittedCount]
  /\ UNCHANGED <<policy, files, chunks, staging, worker, disturbed>>

MoreChunks(p) == cursor[p] < ChunkCount

StartWorker(p) ==
  /\ parent[p] = "dispatch"
  /\ MoreChunks(p)
  /\ worker' = [worker EXCEPT ![p] =
                  [phase |-> "open", ordinal |-> cursor[p],
                   parent |-> "initial"]]
  /\ ParentGoes(p, "waiting")
  /\ UNCHANGED <<policy, files, chunks, staging, cursor, disturbed>>

-----------------------------------------------------------------------------
(* The worker.                                                             *)

WorkerOpen(p) ==
  /\ worker[p].phase = "open"
  /\ WorkerGoes(p, IF marker = "whole" THEN "scan" ELSE "failed")
  /\ UNCHANGED <<policy, files, chunks, staging, parent, cursor, disturbed>>

(* It validates the prefix and restores the state of its last chunk.       *)
WorkerScan(p) ==
  /\ worker[p].phase = "scan"
  /\ IF ~Contiguous \/ CommittedCount # worker[p].ordinal
     THEN WorkerGoes(p, "failed")
     ELSE worker' = [worker EXCEPT ![p] =
            [@ EXCEPT !.phase = "run",
                      !.parent = IF worker[p].ordinal = 0 THEN "initial"
                                 ELSE chunks[worker[p].ordinal - 1].author]]
  /\ UNCHANGED <<policy, files, chunks, staging, parent, cursor, disturbed>>

Transaction(p) == [author |-> p, ordinal |-> worker[p].ordinal]

(* begin, once the slice has run, and the files written to staging.        *)
WorkerBegin(p) ==
  /\ worker[p].phase = "run"
  /\ IF worker[p].ordinal \in DOMAIN chunks
     THEN WorkerGoes(p, "failed") /\ UNCHANGED staging
     ELSE /\ staging' = staging \cup {Transaction(p)}
          /\ WorkerGoes(p, "staged")
  /\ UNCHANGED <<policy, files, chunks, parent, cursor, disturbed>>

(* commit checks the target and writes checkpoint.json ...                 *)
WorkerManifest(p) ==
  /\ worker[p].phase = "staged"
  /\ WorkerGoes(p, IF worker[p].ordinal \in DOMAIN chunks
                   THEN "failed" ELSE "manifested")
  /\ UNCHANGED <<policy, files, chunks, staging, parent, cursor, disturbed>>

\* Mutant: the rename replaces a committed chunk.
WorkerCommitReplacing(p) ==
  /\ worker[p].phase = "manifested"
  /\ chunks' = [j \in DOMAIN chunks \cup {worker[p].ordinal} |->
                  IF j = worker[p].ordinal
                  THEN [author |-> p, parent |-> worker[p].parent]
                  ELSE chunks[j]]
  /\ staging' = staging \ {Transaction(p)}
  /\ WorkerGoes(p, "committed")
  /\ UNCHANGED <<policy, files, parent, cursor, disturbed>>

(* ... then renames, which fails on a directory that is not empty.         *)
WorkerCommit(p) ==
  /\ worker[p].phase = "manifested"
  /\ LET k == worker[p].ordinal
     IN IF k \in DOMAIN chunks
        THEN WorkerGoes(p, "failed") /\ UNCHANGED <<chunks, staging>>
        ELSE /\ chunks' = [j \in DOMAIN chunks \cup {k} |->
                             IF j = k
                             THEN [author |-> p, parent |-> worker[p].parent]
                             ELSE chunks[j]]
             /\ staging' = staging \ {Transaction(p)}
             /\ WorkerGoes(p, "committed")
  /\ UNCHANGED <<policy, files, parent, cursor, disturbed>>

WorkerExit(p) ==
  /\ worker[p].phase = "committed"
  /\ WorkerGoes(p, "exited")
  /\ UNCHANGED <<policy, files, chunks, staging, parent, cursor, disturbed>>

(* The worker dies in any phase: killed, out of memory, or an exception of *)
(* the engine.                                                             *)
WorkerDies(p) ==
  /\ worker[p].phase \in Live
  /\ WorkerGoes(p, "failed")
  /\ disturbed' = disturbed \cup {p}
  /\ UNCHANGED <<policy, files, chunks, staging, parent, cursor>>

-----------------------------------------------------------------------------
(* The parent waits for its worker.                                        *)

\* Mutant: it only waits for a worker that succeeds.
WorkerSucceeded(p) == worker[p].phase = "exited"

WorkerEnded(p) == worker[p].phase \in {"exited", "failed"}

\* Mutant: the run is over when the last chunk's worker is, however it ended.
JoinLastWorker(p) ==
  /\ parent[p] = "waiting"
  /\ WorkerEnded(p)
  /\ ParentGoes(p, IF cursor[p] = ChunkCount - 1 THEN "finished"
                   ELSE IF worker[p].phase = "exited" THEN "verify"
                   ELSE "failed")
  /\ UNCHANGED <<policy, files, chunks, staging, cursor, worker, disturbed>>

JoinWorker(p) ==
  /\ parent[p] = "waiting"
  /\ WorkerEnded(p)
  /\ ParentGoes(p, IF worker[p].phase = "exited" THEN "verify" ELSE "failed")
  /\ UNCHANGED <<policy, files, chunks, staging, cursor, worker, disturbed>>

(* The supervisor sees the RSS limit passed while the worker is alive,     *)
(* even when it has just committed, kills it and gives up.                 *)
MemoryLimit(p) ==
  /\ parent[p] = "waiting"
  /\ worker[p].phase \in Live
  /\ WorkerGoes(p, "failed")
  /\ ParentGoes(p, "failed")
  /\ disturbed' = disturbed \cup {p}
  /\ UNCHANGED <<policy, files, chunks, staging, cursor>>

\* Mutant: the parent goes on after whatever is committed by now.
VerifyAndCatchUp(p) ==
  /\ parent[p] = "verify"
  /\ cursor' = [cursor EXCEPT ![p] = CommittedCount]
  /\ ParentGoes(p, "dispatch")
  /\ UNCHANGED <<policy, files, chunks, staging, worker, disturbed>>

VerifyCommit(p) ==
  /\ parent[p] = "verify"
  /\ IF ~Contiguous \/ CommittedCount # cursor[p] + 1
     THEN ParentGoes(p, "failed") /\ UNCHANGED cursor
     ELSE /\ cursor' = [cursor EXCEPT ![p] = @ + 1]
          /\ ParentGoes(p, "dispatch")
  /\ UNCHANGED <<policy, files, chunks, staging, worker, disturbed>>

FinishRun(p) ==
  /\ parent[p] = "dispatch"
  /\ ~MoreChunks(p)
  /\ ParentGoes(p, IF Contiguous /\ CommittedCount = ChunkCount
                   THEN "finished" ELSE "failed")
  /\ UNCHANGED <<policy, files, chunks, staging, cursor, worker, disturbed>>

(* The parent process dies; a worker it spawned lives on.                  *)
ParentCrashes(p) ==
  /\ parent[p] \notin {"idle"} \cup Ended
  /\ ParentGoes(p, "crashed")
  /\ open' = [open EXCEPT ![p] = "none"]
  /\ disturbed' = disturbed \cup {p}
  /\ UNCHANGED <<policy, marker, tmp, chunks, staging, cursor, worker>>

-----------------------------------------------------------------------------
ParentStep(p) ==
  \/ WriteMarker(p)
  \/ PublishMarker(p)
  \/ ScanWorkspace(p)
  \/ StartWorker(p)
  \/ JoinWorker(p)
  \/ VerifyCommit(p)
  \/ FinishRun(p)

WorkerStep(p) ==
  \/ WorkerOpen(p)
  \/ WorkerScan(p)
  \/ WorkerBegin(p)
  \/ WorkerManifest(p)
  \/ WorkerCommit(p)
  \/ WorkerExit(p)

Next ==
  \E p \in Supervisors :
    \/ OpenWorkspace(p)
    \/ ParentStep(p)
    \/ WorkerStep(p)
    \/ WorkerDies(p)
    \/ MemoryLimit(p)
    \/ ParentCrashes(p)

Spec == Init /\ [][Next]_vars

(* The operating system runs every live process on; nothing makes a user   *)
(* start an attempt, or makes a process die.                               *)
Fairness ==
  \A p \in Supervisors : WF_vars(ParentStep(p)) /\ WF_vars(WorkerStep(p))

FairSpec == Spec /\ Fairness

-----------------------------------------------------------------------------
Contents == {"absent", "partial", "whole"}

(* Every variable keeps its type.                                          *)
TypeOK ==
  /\ policy \in ResumePolicies
  /\ marker \in Contents /\ tmp \in Contents
  /\ open \in [Supervisors -> {"none", "tmp", "marker", "lost"}]
  /\ DOMAIN chunks \subseteq 0 .. (ChunkCount - 1)
  /\ staging \subseteq [author : Supervisors, ordinal : 0 .. (ChunkCount - 1)]
  /\ parent \in [Supervisors -> {"idle", "writing", "written", "opened",
                                 "dispatch", "waiting", "verify"} \cup Ended]
  /\ cursor \in [Supervisors -> 0 .. ChunkCount]
  /\ worker \in [Supervisors ->
                   [phase : Live \cup {"none", "exited", "failed"},
                    ordinal : 0 .. (ChunkCount - 1),
                    parent : Supervisors \cup {"initial"}]]
  /\ disturbed \subseteq Supervisors

(* The workspace implements the append-only log of ChunkLog, under any     *)
(* number of crashes, kills, orphaned workers and concurrent attempts.     *)
Log == INSTANCE ChunkLog WITH log <- chunks

ImplementsChunkLog == Log!LogSpec

(* An attempt's chunks are consecutive: two attempts never take turns, so  *)
(* each result table comes from at most one hand-over per attempt.         *)
AuthorsDoNotInterleave ==
  \A i, j, k \in DOMAIN chunks :
    i < j /\ j < k /\ chunks[i].author = chunks[k].author =>
      chunks[j].author = chunks[i].author

(* Recovery: an attempt that met nobody, under the resume policy, does not *)
(* fail, whatever earlier attempts left behind: a torn temporary file,     *)
(* abandoned staging, any number of committed chunks.  recovery.py calls   *)
(* the workspace retained across failures and process restarts.            *)
UndisturbedAttemptSucceeds ==
  \A p \in Supervisors \ disturbed :
    policy = "resume" => parent[p] # "failed"

(* The same of every workspace whose marker two starting attempts did not  *)
(* leave torn.                                                             *)
RecoverySucceeds == marker # "partial" => UndisturbedAttemptSucceeds

(* A finished run has every chunk of its plan, and its own verdict stays   *)
(* true whatever the attempts still running do.                            *)
FinishedRunIsComplete ==
  \A p \in Supervisors :
    parent[p] = "finished" => DOMAIN chunks = 0 .. (ChunkCount - 1)

(* Every attempt that starts comes to an end.                              *)
EveryAttemptEnds ==
  \A p \in Supervisors : parent[p] # "idle" ~> parent[p] \in Ended
=============================================================================
