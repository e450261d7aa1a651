---------------------------- MODULE AgentWorkflow ----------------------------
(***************************************************************************)
(* The supervised agent workflow: plan_agent_workflow                      *)
(* (bfbt/agent/planner.py) and AgentWorkflowStore (bfbt/agent/workflow.py) *)
(* on one job directory.                                                   *)
(*                                                                         *)
(* Every command of the command line is a process of its own (a caller);   *)
(* they share job.json, which each of them reads, changes in memory and    *)
(* writes back through one temporary name, the directory of grants, and    *)
(* the evidence files, which belong to the operator.  A file's content     *)
(* stands for its hash.                                                    *)
(***************************************************************************)
EXTENDS Naturals, Sequences, FiniteSets, SequencesExt

CONSTANTS
  Callers,         \* command line processes
  Intents,         \* the intents under consideration
  Runs,            \* Fast Matrix runs an evidence file may name
  PublishedRuns,   \* those the matrix store holds and verifies
  Papers,          \* the evidence files the operator may have, by stage
  Rewritings,      \* <<stage, content>> the operator may write over a file
  GrantChoices,    \* [action, acknowledged, hours] the operator may grant
  MaxClock,        \* bound: the hours that pass
  MaxGrants,       \* bound: grants recorded
  MaxCalls,        \* bound: commands started
  MaxTrouble,      \* bound: commands started while another runs, processes
                   \*   that die and evidence files written over, together
  None, Torn

ASSUME RunsAssumption == PublishedRuns \subseteq Runs

(* The actions of the plan's routes.                                       *)
StageNames ==
  {"data_prepare", "quick_research", "fast_matrix", "manual_selection",
   "event_formal", "evidence_summary"}

(* An evidence path per stage; a grant that has expired is not recorded.   *)
ASSUME OperatorAssumption ==
  /\ \A p \in Papers : p = [stage \in StageNames |-> p[stage]]
  /\ \A choice \in GrantChoices : choice.hours \in Nat \ {0}

VARIABLES
  intent,          \* the reviewed intent, of which the plan is a function
  clock,
  grants,          \* authorizations/grant-*.json
  paper,           \* stage -> content of its evidence file, or None
  rewritten,       \* stages whose file was written over
  job,             \* job.json: None, Torn or a job
  tmp,             \* .job.json.tmp
  call,            \* caller -> its command
  calls, overlaps, deaths

files == <<job, tmp>>
operator == <<clock, grants, paper, rewritten>>
counters == <<calls, overlaps, deaths>>
vars == <<intent, operator, files, call, counters>>

-----------------------------------------------------------------------------
(* The plan: a route of stages, what each asks for, and what the whole     *)
(* plan asks the operator to confirm.                                      *)

Route ==
  CASE intent.objective = "result_query" -> <<"evidence_summary">>
    [] intent.objective = "factor_diagnostic" ->
         <<"data_prepare", "quick_research", "evidence_summary">>
    [] intent.objective = "portfolio_research" ->
         <<"data_prepare", "quick_research", "fast_matrix",
           "evidence_summary">>
    [] OTHER ->
         <<"data_prepare", "quick_research", "fast_matrix",
           "manual_selection", "event_formal", "evidence_summary">>

OnlyMatrix == intent.objective = "portfolio_research"

(* The estimated drag is unknown, acceptable or excessive.                 *)
CostBlocker ==
  /\ intent.objective \in {"portfolio_research", "formal_backtest"}
  /\ intent.drag = "unknown"

CostConfirmations ==
  IF /\ intent.objective \in {"portfolio_research", "formal_backtest"}
     /\ intent.drag = "excessive"
  THEN {"COST_DRAG"} ELSE {}

Confirmations == {"SEMANTIC"} \cup CostConfirmations

Executable ==
  /\ ~intent.ambiguous
  /\ ~CostBlocker
  /\ ~(intent.pathDependent /\ OnlyMatrix)

(* The action classes of a stage; only "read_only" needs no grant.         *)
StageActions(stage) ==
  CASE stage = "data_prepare" ->
         {"data_write"} \cup
         (IF intent.network THEN {"network", "download"} ELSE {})
    [] stage \in {"quick_research", "fast_matrix"} -> {"research"}
    [] stage = "event_formal" -> {"formal_event"}
    [] OTHER -> {"read_only"}

RequiredActions(stage) == StageActions(stage) \ {"read_only"}

PlannedActions == UNION {StageActions(stage) : stage \in ToSet(Route)}

-----------------------------------------------------------------------------
Stages == 1 .. Len(Route)

NewJob ==
  [status |-> "awaiting_authorization",
   stage |-> [i \in Stages |-> [status |-> "pending", evidence |-> None]]]

Succeeded(j) == {i \in Stages : j.stage[i].status = "succeeded"}

Current(j) ==
  CHOOSE i \in Stages : /\ i \notin Succeeded(j)
                        /\ \A k \in 1 .. i - 1 : k \in Succeeded(j)

(* _authorization_state: grants of this plan, live now; confirmations are  *)
(* acknowledged by any of them.                                            *)
LiveAt(g, time) == g.issued <= time /\ time < g.expires

MissingActions(stage, time) ==
  RequiredActions(stage) \ {g.action : g \in {h \in grants : LiveAt(h, time)}}

MissingConfirmations(time) ==
  Confirmations \
    UNION {g.acknowledged : g \in {h \in grants : LiveAt(h, time)}}

Authorized(stage, time) ==
  MissingActions(stage, time) = {} /\ MissingConfirmations(time) = {}

(* refresh: what the job waits for.                                        *)
Waiting(stage) ==
  CASE stage = "manual_selection" -> <<"awaiting_selection", "paused">>
    [] stage # "manual_selection" /\ ~Authorized(stage, clock) ->
         <<"awaiting_authorization", "paused">>
    [] OTHER -> <<"awaiting_evidence", "ready">>

Refreshed(j) ==
  IF Succeeded(j) = Stages THEN [j EXCEPT !.status = "succeeded"]
  ELSE LET waiting == Waiting(Route[Current(j)]) IN
       [j EXCEPT !.status = waiting[1],
                 !.stage[Current(j)].status = waiting[2]]

-----------------------------------------------------------------------------
(* _verify_evidence.  The files of earlier stages are read again, at the   *)
(* path their record names.                                                *)

Recorded(j, stage) ==
  {i \in Stages : Route[i] = stage /\ j.stage[i].evidence # None}

Candidates(j) ==
  IF Recorded(j, "fast_matrix") = {} THEN {} ELSE paper["fast_matrix"]

\* Mutant: a decision may name any published run.
DecidedAnyRun(j) == PublishedRuns

DecidedRuns(j) ==
  IF Recorded(j, "manual_selection") = {} THEN {}
  ELSE {paper["manual_selection"]}

Citable(j) ==
  {<<Route[i], j.stage[i].evidence>> :
     i \in {k \in Stages : j.stage[k].evidence # None}}
  \cup intent.references

(* j is job.json as it is when the evidence is verified.                   *)
Verified(j, stage) ==
  /\ paper[stage] # None
  /\ CASE stage \in {"data_prepare", "quick_research"} ->
            paper[stage] = "sound"
       [] stage = "fast_matrix" -> paper[stage] \subseteq PublishedRuns
       [] stage = "manual_selection" -> paper[stage] \in Candidates(j)
       [] stage = "event_formal" -> paper[stage] \in DecidedRuns(j)
       [] OTHER -> paper[stage] \subseteq Citable(j)

Completed(j) ==
  [j EXCEPT !.status = "running",
            !.stage[Current(j)] =
              [status |-> "succeeded", evidence |-> paper[Route[Current(j)]]]]

-----------------------------------------------------------------------------
Trouble == overlaps + deaths + Cardinality(rewritten)

(* A command is a list of things to do, each of which reads, then saves    *)
(* the copy it has made; fd says which file its descriptor designates.     *)

Idle == [todo |-> <<>>, at |-> "idle", copy |-> None, fd |-> "none"]

Init ==
  /\ intent \in Intents
  /\ clock = 0 /\ grants = {} /\ rewritten = {}
  /\ paper \in Papers
  /\ job = None /\ tmp = None
  /\ call = [c \in Callers |-> Idle]
  /\ calls = 0 /\ overlaps = 0 /\ deaths = 0

Starts(c, todo) ==
  /\ call[c].at = "idle"
  /\ calls < MaxCalls /\ calls' = calls + 1
  /\ overlaps' = overlaps + (IF \A d \in Callers : call[d].at = "idle"
                            THEN 0 ELSE 1)
  /\ deaths + overlaps' + Cardinality(rewritten) <= MaxTrouble
  /\ call' = [call EXCEPT ![c] = [Idle EXCEPT !.todo = todo, !.at = "read"]]
  /\ UNCHANGED <<intent, clock, paper, rewritten, files, deaths>>

(* create: a job that is there is returned as it is.                       *)
Create(c) ==
  /\ Executable
  /\ job = None
  /\ Starts(c, <<"new", "refresh">>)
  /\ UNCHANGED grants

Status(c) ==
  /\ job # None
  /\ Starts(c, <<"refresh">>)
  /\ UNCHANGED grants

(* authorize: the grant is a file of its own, named by its content.        *)
Authorize(c, choice) ==
  /\ job \notin {None, Torn}
  /\ choice.action \in PlannedActions
  /\ Cardinality(grants) < MaxGrants
  /\ grants' = grants \cup
       {[action |-> choice.action, acknowledged |-> choice.acknowledged,
         issued |-> clock, expires |-> clock + choice.hours]}
  /\ Starts(c, <<"refresh">>)

RecordEvidence(c) ==
  /\ job # None
  /\ Starts(c, <<"refresh", "evidence", "refresh">>)
  /\ UNCHANGED grants

Ends(c) == call' = [call EXCEPT ![c] = Idle]

Saves(c, copy) ==
  call' = [call EXCEPT ![c].copy = copy, ![c].at = "open"]

ReadNew(c) ==
  /\ call[c].at = "read" /\ Head(call[c].todo) = "new"
  /\ Saves(c, NewJob)
  /\ UNCHANGED <<intent, operator, files, counters>>

(* A torn file does not parse and ends the command.                        *)
ReadRefresh(c) ==
  /\ call[c].at = "read" /\ Head(call[c].todo) = "refresh"
  /\ IF job \in {None, Torn} THEN Ends(c) ELSE Saves(c, Refreshed(job))
  /\ UNCHANGED <<intent, operator, files, counters>>

(* record_evidence goes on with the copy its refresh returned, while the   *)
(* verification loads job.json anew.                                       *)
\* Mutant: the grants are not asked for again.
AcceptedUnasked(c) ==
  LET stage == Route[Current(call[c].copy)] IN
  /\ Succeeded(call[c].copy) # Stages
  /\ job \notin {None, Torn}
  /\ Verified(job, stage)

Accepted(c) ==
  LET stage == Route[Current(call[c].copy)] IN
  /\ Succeeded(call[c].copy) # Stages
  /\ Authorized(stage, clock)
  /\ job \notin {None, Torn}
  /\ Verified(job, stage)

ReadEvidence(c) ==
  /\ call[c].at = "read" /\ Head(call[c].todo) = "evidence"
  /\ IF Accepted(c) THEN Saves(c, Completed(call[c].copy)) ELSE Ends(c)
  /\ UNCHANGED <<intent, operator, files, counters>>

-----------------------------------------------------------------------------
(* _atomic: the temporary name is the same for every process; a rename     *)
(* moves whatever is there, descriptors follow the file.                   *)

Follow(from, to) ==
  [c \in Callers |-> IF call[c].fd = from THEN [call[c] EXCEPT !.fd = to]
                                          ELSE call[c]]

OpenTmp(c) ==
  /\ call[c].at = "open"
  /\ tmp' = Torn
  /\ call' = [call EXCEPT ![c].at = "write", ![c].fd = "tmp"]
  /\ UNCHANGED <<intent, operator, job, counters>>

WriteTmp(c) ==
  /\ call[c].at = "write"
  /\ tmp' = IF call[c].fd = "tmp" THEN call[c].copy ELSE tmp
  /\ job' = IF call[c].fd = "job" THEN call[c].copy ELSE job
  /\ call' = [call EXCEPT ![c].at = "rename", ![c].fd = "none"]
  /\ UNCHANGED <<intent, operator, counters>>

RenameTmp(c) ==
  /\ call[c].at = "rename"
  /\ IF tmp = None
     THEN Ends(c) /\ UNCHANGED files
     ELSE /\ job' = tmp /\ tmp' = None
          /\ LET moved == [Follow("tmp", "job") EXCEPT ![c].at = "unlink"]
                 orphaned == {d \in Callers : call[d].fd = "job"}
             IN call' = [d \in Callers |->
                           IF d \in orphaned THEN [moved[d] EXCEPT !.fd = "gone"]
                                             ELSE moved[d]]
  /\ UNCHANGED <<intent, operator, counters>>

(* The clean-up removes the name, by now perhaps another's file.           *)
UnlinkTmp(c) ==
  /\ call[c].at = "unlink"
  /\ tmp' = None
  /\ LET rest == Tail(call[c].todo)
         left == Follow("tmp", "gone")
     IN call' = [left EXCEPT ![c] =
                   IF rest = <<>> THEN Idle
                   ELSE [Idle EXCEPT !.todo = rest, !.at = "read",
                                     !.copy = call[c].copy]]
  /\ UNCHANGED <<intent, operator, job, counters>>

-----------------------------------------------------------------------------
(* The operator and the world.                                             *)

Dies(c) ==
  /\ call[c].at # "idle"
  /\ Trouble < MaxTrouble /\ deaths' = deaths + 1
  /\ Ends(c)
  /\ UNCHANGED <<intent, operator, files, calls, overlaps>>

Tick ==
  /\ clock < MaxClock /\ clock' = clock + 1
  /\ UNCHANGED <<intent, grants, paper, rewritten, files, call, counters>>

Rewrite(stage, content) ==
  /\ paper[stage] # content
  /\ Trouble < MaxTrouble
  /\ paper' = [paper EXCEPT ![stage] = content]
  /\ rewritten' = rewritten \cup {stage}
  /\ UNCHANGED <<intent, clock, grants, files, call, counters>>

CallerStep(c) ==
  \/ ReadNew(c) \/ ReadRefresh(c) \/ ReadEvidence(c)
  \/ OpenTmp(c) \/ WriteTmp(c) \/ RenameTmp(c) \/ UnlinkTmp(c)

Next ==
  \/ \E c \in Callers :
       \/ Create(c) \/ Status(c) \/ RecordEvidence(c)
       \/ \E choice \in GrantChoices : Authorize(c, choice)
       \/ CallerStep(c)
       \/ Dies(c)
  \/ Tick
  \/ \E r \in Rewritings : Rewrite(r[1], r[2])

Spec == Init /\ [][Next]_vars

-----------------------------------------------------------------------------
StageStatuses == {"pending", "ready", "paused", "succeeded"}

JobStatuses ==
  {"awaiting_authorization", "awaiting_selection", "awaiting_evidence",
   "running", "succeeded"}

IsJob(j) ==
  /\ j.status \in JobStatuses
  /\ DOMAIN j.stage = Stages
  /\ \A i \in Stages :
       /\ j.stage[i].status \in StageStatuses
       /\ (j.stage[i].status = "succeeded") = (j.stage[i].evidence # None)

\* Types: what is on disk and what a command holds is a job of this route,
\* in which exactly the succeeded stages have their evidence attached.
TypeOK ==
  /\ job \in {None, Torn} \/ IsJob(job)
  /\ tmp \in {None, Torn} \/ IsJob(tmp)
  /\ \A c \in Callers :
       /\ call[c].at \in {"idle", "read", "open", "write", "rename", "unlink"}
       /\ call[c].fd \in {"none", "tmp", "job", "gone"}
       /\ call[c].copy = None \/ IsJob(call[c].copy)
  /\ \A g \in grants : g.action \in PlannedActions /\ g.issued < g.expires

JobOnDisk == job \notin {None, Torn}

\* However commands interleave, die or write over each other, a stage is
\* recorded as succeeded only if there was an hour at which live grants
\* covered every action it asks for and every confirmation of the plan
\* (record_evidence asks _authorization_state again after its refresh).
NoStageUnauthorized ==
  JobOnDisk =>
    \A i \in Succeeded(job) : \E time \in 0 .. clock : Authorized(Route[i], time)

(* The recorded evidence of a stage of this name, if there is one.         *)
EvidenceOf(stage) == {job.stage[i].evidence : i \in Recorded(job, stage)}

\* The promotion chain holds in every job.json a racing or dying command
\* leaves: stages succeed in route order, a job is succeeded only with all
\* of them, a promoted run is one of the recorded candidates, all of them
\* published, and the event run is the promoted one; provided the operator
\* has not written over the evidence files in between.
EvidenceChain ==
  JobOnDisk =>
    /\ \A i \in Succeeded(job), k \in Stages : k < i => k \in Succeeded(job)
    /\ job.status = "succeeded" => Succeeded(job) = Stages
    /\ \A runs \in EvidenceOf("fast_matrix") : runs \subseteq PublishedRuns
    /\ "fast_matrix" \notin rewritten =>
         \A run \in EvidenceOf("manual_selection") :
           \E runs \in EvidenceOf("fast_matrix") : run \in runs
    /\ "manual_selection" \notin rewritten =>
         EvidenceOf("event_formal") \subseteq EvidenceOf("manual_selection")

=============================================================================
