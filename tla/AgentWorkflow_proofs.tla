------------------------ MODULE AgentWorkflow_proofs ------------------------
(***************************************************************************)
(* Proofs about AgentWorkflow, for every set of callers, intents, papers,  *)
(* grants and published runs and every number of overlaps, deaths and      *)
(* rewritten files.                                                        *)
(*                                                                         *)
(* The commands write copies of job.json over each other, so that neither  *)
(* file nor copy is newer than another.  What is proved of job.json is     *)
(* therefore true of every copy, on disk or in a command, and stays true   *)
(* of a copy however long it waits: grants are only added, and a stage's   *)
(* evidence file changes only into a rewritten one.                        *)
(***************************************************************************)
EXTENDS AgentWorkflow, TLAPS

(* Callers whose command has a job in memory to write or to go on with.    *)
Carries(c) ==
  \/ call[c].at \in {"open", "write", "rename", "unlink"}
  \/ call[c].at = "read" /\ Head(call[c].todo) \notin {"new", "refresh"}
  \/ call[c].copy # None

Copies ==
  ({job, tmp} \ {None, Torn}) \cup
    {call[c].copy : c \in {d \in Callers : Carries(d)}}

Whole(j) ==
  /\ j = [status |-> j.status, stage |-> j.stage]
  /\ j.status \in JobStatuses
  /\ j.stage = [i \in Stages |-> [status   |-> j.stage[i].status,
                                  evidence |-> j.stage[i].evidence]]
  /\ \A i \in Stages :
       /\ j.stage[i].status \in StageStatuses
       /\ (j.stage[i].status = "succeeded") = (j.stage[i].evidence # None)

InOrder(j) ==
  \A i \in Succeeded(j), k \in Stages : k < i => k \in Succeeded(j)

(* The evidence a succeeded stage has recorded is that of its file and of  *)
(* the file of the stage before, as long as these are not written over.    *)
ChainedAt(i, evidence) ==
  /\ Route[i] = "fast_matrix" =>
       /\ evidence \subseteq PublishedRuns
       /\ "fast_matrix" \notin rewritten => evidence = paper["fast_matrix"]
  /\ Route[i] = "manual_selection" =>
       /\ "fast_matrix" \notin rewritten => evidence \in paper["fast_matrix"]
       /\ "manual_selection" \notin rewritten =>
            evidence = paper["manual_selection"]
  /\ Route[i] = "event_formal" =>
       ("manual_selection" \notin rewritten =>
          evidence = paper["manual_selection"])

AuthorizedOnce(stage) == \E time \in 0 .. clock : Authorized(stage, time)

Sound(j) ==
  /\ Whole(j)
  /\ InOrder(j)
  /\ j.status = "succeeded" => Succeeded(j) = Stages
  /\ \A i \in Succeeded(j) : /\ AuthorizedOnce(Route[i])
                             /\ ChainedAt(i, j.stage[i].evidence)

World ==
  /\ clock \in Nat
  /\ paper = [stage \in StageNames |-> paper[stage]]
  /\ \A g \in grants : g.action \in PlannedActions /\ g.issued < g.expires

CallType(r) ==
  /\ r = [todo |-> r.todo, at |-> r.at, copy |-> r.copy, fd |-> r.fd]
  /\ r.at \in {"idle", "read", "open", "write", "rename", "unlink"}
  /\ r.fd \in {"none", "tmp", "job", "gone"}

CallTypes ==
  /\ call = [c \in Callers |-> call[c]]
  /\ \A c \in Callers : CallType(call[c])

Inv ==
  /\ World
  /\ CallTypes
  /\ \A j \in Copies : Sound(j)

-----------------------------------------------------------------------------
(* Routes.                                                                 *)

LEMMA RouteShape ==
  /\ Len(Route) \in {1, 3, 4, 6}
  /\ \A i \in Stages :
       /\ Route[i] \in StageNames
       /\ Route[i] = "fast_matrix" => i = 3
       /\ Route[i] = "manual_selection" =>
            i = 4 /\ 3 \in Stages /\ Route[3] = "fast_matrix"
       /\ Route[i] = "event_formal" =>
            i = 5 /\ 4 \in Stages /\ Route[4] = "manual_selection"
<1>1. CASE intent.objective = "result_query"
  BY <1>1 DEF Route, Stages, StageNames
<1>2. CASE intent.objective = "factor_diagnostic"
  BY <1>2 DEF Route, Stages, StageNames
<1>3. CASE intent.objective = "portfolio_research"
  BY <1>3 DEF Route, Stages, StageNames
<1>4. CASE intent.objective \notin
             {"result_query", "factor_diagnostic", "portfolio_research"}
  BY <1>4 DEF Route, Stages, StageNames
<1> QED
  BY <1>1, <1>2, <1>3, <1>4

(* The current stage of a job that has not succeeded.                      *)
LEMMA CurrentStage ==
  ASSUME NEW j, Succeeded(j) # Stages
  PROVE  /\ Current(j) \in Stages \ Succeeded(j)
         /\ \A k \in 1 .. Current(j) - 1 : k \in Succeeded(j)
<1> DEFINE first(i) == /\ i \notin Succeeded(j)
                       /\ \A k \in 1 .. i - 1 : k \in Succeeded(j)
<1>1. Stages \in {1 .. 1, 1 .. 3, 1 .. 4, 1 .. 6}
  BY RouteShape DEF Stages
<1>2. Succeeded(j) \subseteq Stages
  BY DEF Succeeded
<1>3. \E i \in Stages : first(i)
  <2>1. PICK n \in 1 .. 6 : Stages = 1 .. n
    BY <1>1
  <2> SUFFICES ASSUME \A i \in Stages : ~first(i) PROVE FALSE
    OBVIOUS
  <2>2. \A i \in 1 .. n :
          (\A k \in 1 .. i - 1 : k \in Succeeded(j)) => i \in Succeeded(j)
    BY <2>1
  <2>3. 1 \in Succeeded(j)
    BY <2>1, <2>2
  <2>4. 2 \in 1 .. n => 2 \in Succeeded(j)
    BY <2>2, <2>3
  <2>5. 3 \in 1 .. n => 3 \in Succeeded(j)
    BY <2>2, <2>3, <2>4
  <2>6. 4 \in 1 .. n => 4 \in Succeeded(j)
    BY <2>2, <2>3, <2>4, <2>5
  <2>7. 5 \in 1 .. n => 5 \in Succeeded(j)
    BY <2>2, <2>3, <2>4, <2>5, <2>6
  <2>8. 6 \in 1 .. n => 6 \in Succeeded(j)
    BY <2>2, <2>3, <2>4, <2>5, <2>6, <2>7
  <2>9. \A i \in Stages : i \in Succeeded(j)
    BY <2>1, <2>3, <2>4, <2>5, <2>6, <2>7, <2>8
  <2> QED
    BY <1>2, <2>9
<1>4. Current(j) = CHOOSE i \in Stages : first(i)
  BY DEF Current
<1> HIDE DEF first
<1>5. Current(j) \in Stages /\ first(Current(j))
  BY <1>3, <1>4
<1> QED
  BY <1>5 DEF first

-----------------------------------------------------------------------------
(* What the steps make of a job.                                           *)

LEMMA NewJobSound == Sound(NewJob)
<1>1. Succeeded(NewJob) = {}
  BY DEF Succeeded, NewJob
<1>2. Whole(NewJob)
  BY DEF Whole, NewJob, JobStatuses, StageStatuses
<1>3. NewJob.status # "succeeded"
  BY DEF NewJob
<1> QED
  BY <1>1, <1>2, <1>3 DEF Sound, InOrder

(* Only the status of a stage that has not succeeded and the job's own     *)
(* change in a refresh.                                                    *)
LEMMA RefreshedSound ==
  ASSUME NEW j, Sound(j)
  PROVE  Sound(Refreshed(j))
<1>1. CASE Succeeded(j) = Stages
  <2> DEFINE r == [j EXCEPT !.status = "succeeded"]
  <2>1. Refreshed(j) = r
    BY <1>1 DEF Refreshed
  <2>2. r = [status |-> "succeeded", stage |-> j.stage]
    BY DEF Sound, Whole
  <2>3. r.status = "succeeded" /\ r.stage = j.stage
    BY <2>2
  <2> HIDE DEF r
  <2>4. Succeeded(r) = Stages
    BY <1>1, <2>3 DEF Succeeded
  <2>5. Whole(r)
    BY <2>2, <2>3 DEF Sound, Whole, JobStatuses
  <2>6. Sound(r)
    BY <1>1, <2>3, <2>4, <2>5 DEF Sound, InOrder
  <2> QED
    BY <2>1, <2>6
<1>2. CASE Succeeded(j) # Stages
  <2> DEFINE n == Current(j)
             waiting == Waiting(Route[n])
             r == [j EXCEPT !.status = waiting[1],
                            !.stage[n].status = waiting[2]]
  <2>1. Refreshed(j) = r
    BY <1>2 DEF Refreshed
  <2>2. n \in Stages \ Succeeded(j)
    BY <1>2, CurrentStage
  <2>3. /\ waiting[1] \in JobStatuses \ {"succeeded"}
        /\ waiting[2] \in StageStatuses \ {"succeeded"}
    BY DEF Waiting, JobStatuses, StageStatuses
  <2> HIDE DEF n, waiting
  <2> DEFINE cell == [status   |-> waiting[2],
                      evidence |-> j.stage[n].evidence]
  <2>4. /\ j = [status |-> j.status, stage |-> j.stage]
        /\ j.stage = [i \in Stages |-> [status   |-> j.stage[i].status,
                                        evidence |-> j.stage[i].evidence]]
    BY DEF Sound, Whole
  <2>5. r.status = waiting[1] /\ r.stage = [j.stage EXCEPT ![n] = cell]
        /\ r = [status |-> r.status, stage |-> r.stage]
    <3>1. [j.stage[n] EXCEPT !.status = waiting[2]] = cell
      <4>1. j.stage[n] = [status   |-> j.stage[n].status,
                          evidence |-> j.stage[n].evidence]
        BY <2>2, <2>4
      <4> QED
        BY <4>1
    <3>2. [j.stage EXCEPT ![n].status = waiting[2]]
            = [j.stage EXCEPT ![n] = cell]
      BY <3>1
    <3> HIDE DEF cell
    <3>3. r = [status |-> waiting[1],
               stage  |-> [j.stage EXCEPT ![n].status = waiting[2]]]
      <4>1. r = [[j EXCEPT !.status = waiting[1]] EXCEPT
                   !.stage = [j.stage EXCEPT ![n].status = waiting[2]]]
        BY <2>4
      <4>2. [j EXCEPT !.status = waiting[1]]
              = [status |-> waiting[1], stage |-> j.stage]
        BY <2>4
      <4>3. \A x, y, z : [[status |-> x, stage |-> y] EXCEPT !.stage = z]
                          = [status |-> x, stage |-> z]
        OBVIOUS
      <4> HIDE DEF r
      <4> QED
        BY <4>1, <4>2, <4>3
    <3> QED
      BY <3>2, <3>3
  <2> HIDE DEF r, cell
  <2>6. /\ DOMAIN r.stage = Stages
        /\ \A i \in Stages : r.stage[i] = IF i = n THEN cell ELSE j.stage[i]
    BY <2>2, <2>4, <2>5
  <2>7. \A i \in Stages :
          /\ r.stage[i].status = IF i = n THEN waiting[2]
                                 ELSE j.stage[i].status
          /\ r.stage[i].evidence = j.stage[i].evidence
          /\ r.stage[i] = [status   |-> r.stage[i].status,
                           evidence |-> r.stage[i].evidence]
    <3> TAKE i \in Stages
    <3>1. CASE i = n
      BY <2>6, <3>1 DEF cell
    <3>2. CASE i # n
      BY <2>4, <2>6, <3>2
    <3> QED
      BY <3>1, <3>2
  <2>8. Succeeded(r) = Succeeded(j)
    BY <2>2, <2>3, <2>7 DEF Succeeded
  <2>9. Whole(r)
    <3>1. r = [status |-> r.status, stage |-> r.stage]
      BY <2>5
    <3>2. r.status \in JobStatuses
      BY <2>3, <2>5
    <3>3. r.stage = [i \in Stages |-> [status   |-> r.stage[i].status,
                                       evidence |-> r.stage[i].evidence]]
      <4>1. r.stage = [i \in Stages |-> r.stage[i]]
        BY <2>4, <2>5, <2>6
      <4> QED
        BY <2>7, <4>1
    <3>4. \A i \in Stages :
            /\ r.stage[i].status \in StageStatuses
            /\ (r.stage[i].status = "succeeded")
                 = (r.stage[i].evidence # None)
      BY <2>2, <2>3, <2>7 DEF Sound, Whole, Succeeded
    <3> QED
      BY <3>1, <3>2, <3>3, <3>4 DEF Whole
  <2>10. r.status # "succeeded"
    BY <2>3, <2>5
  <2>11. \A i \in Succeeded(r) : r.stage[i].evidence = j.stage[i].evidence
    BY <2>7 DEF Succeeded
  <2>12. Sound(r)
    BY <2>8, <2>9, <2>10, <2>11 DEF Sound, InOrder
  <2> QED
    BY <2>1, <2>12
<1> QED
  BY <1>1, <1>2

(* Recording evidence.  The verification asks for the file of the stage    *)
(* before, whatever job is on disk by then.                                *)
LEMMA CompletedSound ==
  ASSUME World, NEW j, Sound(j), Succeeded(j) # Stages, NEW disk,
         Authorized(Route[Current(j)], clock),
         Verified(disk, Route[Current(j)])
  PROVE  Sound(Completed(j))
<1> DEFINE n == Current(j)
           evidence == paper[Route[n]]
           cell == [status |-> "succeeded", evidence |-> evidence]
           r == Completed(j)
<1>1. /\ n \in Stages \ Succeeded(j)
      /\ \A k \in 1 .. n - 1 : k \in Succeeded(j)
  BY CurrentStage
<1>2. evidence # None
  BY DEF Verified
<1>3. ChainedAt(n, evidence)
  <2>1. Route[n] = "fast_matrix" => evidence \subseteq PublishedRuns
    BY DEF Verified
  <2>2. Route[n] = "manual_selection" =>
          evidence \in paper["fast_matrix"]
          /\ evidence = paper["manual_selection"]
    BY DEF Verified, Candidates
  <2>3. Route[n] = "event_formal" => evidence = paper["manual_selection"]
    BY DEF Verified, DecidedRuns
  <2>4. Route[n] = "fast_matrix" => evidence = paper["fast_matrix"]
    OBVIOUS
  <2> HIDE DEF n, evidence
  <2> QED
    BY <2>1, <2>2, <2>3, <2>4 DEF ChainedAt
<1>4. AuthorizedOnce(Route[n])
  BY DEF AuthorizedOnce, World
<1>5. /\ j = [status |-> j.status, stage |-> j.stage]
      /\ j.stage = [i \in Stages |-> [status   |-> j.stage[i].status,
                                      evidence |-> j.stage[i].evidence]]
  BY DEF Sound, Whole
<1>6. r = [j EXCEPT !.status = "running", !.stage[n] = cell]
  BY DEF Completed
<1> HIDE DEF n, evidence, cell, r
<1>7. /\ r.status = "running" /\ r.stage = [j.stage EXCEPT ![n] = cell]
      /\ r = [status |-> r.status, stage |-> r.stage]
  <2>1. [j EXCEPT !.status = "running"]
          = [status |-> "running", stage |-> j.stage]
    BY <1>5
  <2>2. r = [[j EXCEPT !.status = "running"] EXCEPT
               !.stage = [j.stage EXCEPT ![n] = cell]]
    BY <1>5, <1>6
  <2>3. \A x, y, z : [[status |-> x, stage |-> y] EXCEPT !.stage = z]
                      = [status |-> x, stage |-> z]
    OBVIOUS
  <2>4. r = [status |-> "running", stage |-> [j.stage EXCEPT ![n] = cell]]
    BY <2>1, <2>2, <2>3
  <2> QED
    BY <2>4
<1>8. /\ DOMAIN r.stage = Stages
      /\ \A i \in Stages : r.stage[i] = IF i = n THEN cell ELSE j.stage[i]
  BY <1>1, <1>5, <1>7
<1>9. \A i \in Stages :
        /\ r.stage[i] = [status   |-> r.stage[i].status,
                         evidence |-> r.stage[i].evidence]
        /\ i = n => /\ r.stage[i].status = "succeeded"
                    /\ r.stage[i].evidence = evidence
        /\ i # n => r.stage[i] = j.stage[i]
  <2> TAKE i \in Stages
  <2>1. CASE i = n
    BY <1>8, <2>1 DEF cell
  <2>2. CASE i # n
    BY <1>5, <1>8, <2>2
  <2> QED
    BY <2>1, <2>2
<1>10. Succeeded(r) = Succeeded(j) \cup {n}
  BY <1>1, <1>9 DEF Succeeded
<1>11. Whole(r)
  <2>1. r.stage = [i \in Stages |-> [status   |-> r.stage[i].status,
                                     evidence |-> r.stage[i].evidence]]
    <3>1. r.stage = [i \in Stages |-> r.stage[i]]
      BY <1>5, <1>7, <1>8
    <3> QED
      BY <1>9, <3>1
  <2>2. \A i \in Stages :
          /\ r.stage[i].status \in StageStatuses
          /\ (r.stage[i].status = "succeeded") = (r.stage[i].evidence # None)
    BY <1>2, <1>9 DEF Sound, Whole, StageStatuses
  <2> QED
    BY <1>7, <2>1, <2>2 DEF Whole, JobStatuses
<1>12. InOrder(r)
  <2> SUFFICES ASSUME NEW i \in Succeeded(r), NEW k \in Stages, k < i
               PROVE  k \in Succeeded(j)
    BY <1>10 DEF InOrder
  <2>1. CASE i = n
    <3>1. k \in 1 .. n - 1
      BY <1>1, <2>1 DEF Stages
    <3> QED
      BY <1>1, <3>1
  <2>2. CASE i \in Succeeded(j)
    BY <2>2 DEF Sound, InOrder
  <2> QED
    BY <1>10, <2>1, <2>2
<1>13. \A i \in Succeeded(r) : /\ AuthorizedOnce(Route[i])
                               /\ ChainedAt(i, r.stage[i].evidence)
  BY <1>1, <1>3, <1>4, <1>9, <1>10 DEF Sound, Succeeded
<1>14. Sound(r)
  BY <1>7, <1>11, <1>12, <1>13 DEF Sound
<1> QED
  BY <1>14 DEF r

-----------------------------------------------------------------------------
(* Time, grants and the operator's rewriting take nothing from a copy.     *)
WorldMoves ==
  /\ intent' = intent
  /\ clock' \in Nat /\ clock <= clock'
  /\ grants \subseteq grants'
  /\ \/ UNCHANGED <<paper, rewritten>>
     \/ \E stage, content :
          /\ paper' = [paper EXCEPT ![stage] = content]
          /\ rewritten' = rewritten \cup {stage}

LEMMA RouteStays ==
  ASSUME intent' = intent
  PROVE  /\ Route' = Route /\ Stages' = Stages
         /\ \A stage : StageActions(stage)' = StageActions(stage)
         /\ Confirmations' = Confirmations
         /\ PlannedActions' = PlannedActions
<1>1. Route' = Route
  BY DEF Route
<1>2. \A stage : StageActions(stage)' = StageActions(stage)
  BY DEF StageActions
<1> QED
  BY <1>1, <1>2
  DEF Stages, Confirmations, CostConfirmations, PlannedActions

LEMMA SoundLasts ==
  ASSUME World, WorldMoves, NEW j, Sound(j)
  PROVE  Sound(j)'
<1>1. /\ Route' = Route /\ Stages' = Stages
      /\ \A stage : StageActions(stage)' = StageActions(stage)
      /\ Confirmations' = Confirmations
  BY RouteStays DEF WorldMoves
<1>2. Succeeded(j)' = Succeeded(j)
  BY <1>1 DEF Succeeded
<1>3. Whole(j)' /\ InOrder(j)'
  BY <1>1, <1>2 DEF Sound, Whole, InOrder
<1>4. ASSUME NEW stage, AuthorizedOnce(stage) PROVE AuthorizedOnce(stage)'
  <2>1. PICK time \in 0 .. clock : Authorized(stage, time)
    BY <1>4 DEF AuthorizedOnce
  <2>2. time \in 0 .. clock'
    BY <2>1 DEF World, WorldMoves
  <2>3. MissingActions(stage, time)' \subseteq MissingActions(stage, time)
    BY <1>1 DEF MissingActions, RequiredActions, WorldMoves
  <2>4. MissingConfirmations(time)' \subseteq MissingConfirmations(time)
    BY <1>1 DEF MissingConfirmations, WorldMoves
  <2>5. Authorized(stage, time)'
    BY <2>1, <2>3, <2>4 DEF Authorized
  <2> QED
    BY <2>2, <2>5 DEF AuthorizedOnce
<1>5. \A stage \in {"fast_matrix", "manual_selection"} :
        stage \notin rewritten' =>
          stage \notin rewritten /\ paper'[stage] = paper[stage]
  BY DEF World, WorldMoves, StageNames
<1>6. \A i, evidence : ChainedAt(i, evidence) => ChainedAt(i, evidence)'
  BY <1>1, <1>5 DEF ChainedAt
<1> QED
  BY <1>1, <1>2, <1>3, <1>4, <1>6 DEF Sound

LEMMA WorldNext ==
  ASSUME World, [Next]_vars
  PROVE  World' /\ WorldMoves
<1>1. CASE \E c \in Callers, choice \in GrantChoices : Authorize(c, choice)
  <2>1. PICK c \in Callers, choice \in GrantChoices : Authorize(c, choice)
    BY <1>1
  <2>2. UNCHANGED <<intent, clock, paper, rewritten>>
    BY <2>1 DEF Authorize, Starts
  <2>3. grants' = grants \cup
          {[action |-> choice.action, acknowledged |-> choice.acknowledged,
            issued |-> clock, expires |-> clock + choice.hours]}
        /\ choice.action \in PlannedActions
    BY <2>1 DEF Authorize
  <2>4. choice.hours \in Nat \ {0} /\ clock \in Nat
    BY OperatorAssumption DEF World
  <2>5. PlannedActions' = PlannedActions
    BY <2>2, RouteStays
  <2>6. \A g \in grants' : g.action \in PlannedActions /\ g.issued < g.expires
    BY <2>3, <2>4 DEF World
  <2> QED
    BY <2>2, <2>3, <2>4, <2>5, <2>6 DEF World, WorldMoves
<1>2. CASE Tick
  <2>1. PlannedActions' = PlannedActions
    BY <1>2, RouteStays DEF Tick
  <2> QED
    BY <1>2, <2>1 DEF Tick, World, WorldMoves
<1>3. CASE \E r \in Rewritings : Rewrite(r[1], r[2])
  <2>1. PICK stage, content : Rewrite(stage, content)
    BY <1>3
  <2>2. PlannedActions' = PlannedActions
    BY <2>1, RouteStays DEF Rewrite
  <2>3. paper' = [stage2 \in StageNames |-> paper'[stage2]]
    BY <2>1 DEF Rewrite, World
  <2>4. /\ paper' = [paper EXCEPT ![stage] = content]
        /\ rewritten' = rewritten \cup {stage}
        /\ UNCHANGED <<intent, clock, grants>>
    BY <2>1 DEF Rewrite
  <2>5. World'
    BY <2>2, <2>3, <2>4 DEF World
  <2>6. clock' \in Nat /\ clock <= clock'
    BY <2>4 DEF World
  <2> QED
    BY <2>4, <2>5, <2>6 DEF WorldMoves
<1>4. CASE UNCHANGED <<intent, operator>>
  <2>1. PlannedActions' = PlannedActions
    BY <1>4, RouteStays
  <2> QED
    BY <1>4, <2>1 DEF operator, World, WorldMoves
<1>5. ASSUME NEW c \in Callers,
             Create(c) \/ Status(c) \/ RecordEvidence(c) \/ CallerStep(c)
             \/ Dies(c)
      PROVE  UNCHANGED <<intent, operator>>
  BY <1>5
  DEF Create, Status, RecordEvidence, Starts, CallerStep, ReadNew,
      ReadRefresh, ReadEvidence, OpenTmp, WriteTmp, RenameTmp, UnlinkTmp,
      Dies, operator
<1> QED
  BY <1>1, <1>2, <1>3, <1>4, <1>5 DEF Next, vars

-----------------------------------------------------------------------------
(* What a step of one command does to the commands.                        *)
OthersKeep(c) ==
  \A d \in Callers \ {c} : /\ call'[d].todo = call[d].todo
                           /\ call'[d].at = call[d].at
                           /\ call'[d].copy = call[d].copy

LEMMA CallChanges ==
  ASSUME CallTypes, NEW c \in Callers, NEW r, CallType(r),
         call' = [call EXCEPT ![c] = r]
  PROVE  CallTypes' /\ OthersKeep(c) /\ call'[c] = r
<1>1. \A d \in Callers : call'[d] = IF d = c THEN r ELSE call[d]
  BY DEF CallTypes
<1>2. call' = [d \in Callers |-> call'[d]]
  BY DEF CallTypes
<1>3. \A d \in Callers : CallType(call'[d])
  BY <1>1 DEF CallTypes
<1>4. CallTypes'
  BY <1>2, <1>3 DEF CallTypes, CallType
<1> QED
  BY <1>1, <1>4 DEF OthersKeep

(* A step keeps the copies if the files only move them and the command     *)
(* that takes it holds one.                                                *)
CopiesKeep(c) ==
  /\ job' \in {None, Torn} \cup Copies
  /\ tmp' \in {None, Torn} \cup Copies
  /\ OthersKeep(c)
  /\ Carries(c)' => Sound(call'[c].copy)

LEMMA CopiesSound ==
  ASSUME Inv, World', WorldMoves, NEW c \in Callers, CallTypes', CopiesKeep(c)
  PROVE  Inv'
<1>1. \A j \in Copies : Sound(j)
  BY DEF Inv
<1>2. \A d \in Callers \ {c} : Carries(d)' => Carries(d) /\ call'[d].copy = call[d].copy
  BY DEF CopiesKeep, OthersKeep, Carries
<1>3. \A d \in Callers : Carries(d)' => Sound(call'[d].copy)
  <2> SUFFICES ASSUME NEW d \in Callers, Carries(d)'
               PROVE  Sound(call'[d].copy)
    OBVIOUS
  <2>1. CASE d = c
    BY <2>1 DEF CopiesKeep
  <2>2. CASE d # c
    <3>1. Carries(d) /\ call'[d].copy = call[d].copy
      BY <1>2, <2>2
    <3>2. call[d].copy \in Copies
      BY <3>1 DEF Copies
    <3> QED
      BY <1>1, <3>1, <3>2
  <2> QED
    BY <2>1, <2>2
<1>4. Copies' \subseteq {j \in Copies' : Sound(j)}
  <2> SUFFICES ASSUME NEW j \in Copies' PROVE Sound(j)
    OBVIOUS
  <2>1. CASE j \in {job', tmp'} \ {None, Torn}
    BY <1>1, <2>1 DEF CopiesKeep
  <2>2. CASE \E d \in Callers : Carries(d)' /\ j = call'[d].copy
    BY <1>3, <2>2
  <2> QED
    BY <2>1, <2>2 DEF Copies
<1>5. ASSUME NEW j, Sound(j) PROVE Sound(j)'
  BY <1>5, SoundLasts DEF Inv
<1>6. \A j \in Copies' : Sound(j)'
  BY <1>4, <1>5
<1> QED
  BY <1>6 DEF Inv

(* The commands a call starts with or goes on with.                        *)
LEMMA IdleSet ==
  /\ \A todo : [Idle EXCEPT !.todo = todo, !.at = "read"]
                 = [todo |-> todo, at |-> "read", copy |-> None, fd |-> "none"]
  /\ \A todo, copy :
       [Idle EXCEPT !.todo = todo, !.at = "read", !.copy = copy]
         = [todo |-> todo, at |-> "read", copy |-> copy, fd |-> "none"]
<1>1. ASSUME NEW todo
      PROVE  [Idle EXCEPT !.todo = todo, !.at = "read"]
               = [todo |-> todo, at |-> "read", copy |-> None, fd |-> "none"]
  <2> DEFINE r == [Idle EXCEPT !.todo = todo]
  <2>1. r = [todo |-> todo, at |-> "idle", copy |-> None, fd |-> "none"]
    BY DEF Idle
  <2> HIDE DEF r
  <2>2. [r EXCEPT !.at = "read"]
          = [todo |-> todo, at |-> "read", copy |-> None, fd |-> "none"]
    BY <2>1
  <2> QED
    BY <2>2 DEF r
<1>2. ASSUME NEW todo, NEW copy
      PROVE  [Idle EXCEPT !.todo = todo, !.at = "read", !.copy = copy]
               = [todo |-> todo, at |-> "read", copy |-> copy, fd |-> "none"]
  <2> DEFINE r == [Idle EXCEPT !.todo = todo, !.at = "read"]
  <2>1. r = [todo |-> todo, at |-> "read", copy |-> None, fd |-> "none"]
    BY <1>1
  <2> HIDE DEF r
  <2>2. [r EXCEPT !.copy = copy]
          = [todo |-> todo, at |-> "read", copy |-> copy, fd |-> "none"]
    BY <2>1
  <2> QED
    BY <2>2 DEF r
<1> QED
  BY <1>1, <1>2

LEMMA StartKeeps ==
  ASSUME Inv, NEW c \in Callers, NEW todo,
         todo \in {<<"new", "refresh">>, <<"refresh">>,
                   <<"refresh", "evidence", "refresh">>},
         Starts(c, todo)
  PROVE  CallTypes' /\ CopiesKeep(c)
<1> DEFINE r == [todo |-> todo, at |-> "read", copy |-> None, fd |-> "none"]
<1>1. call' = [call EXCEPT ![c] = r]
  BY IdleSet DEF Starts
<1>2. CallType(r)
  BY DEF CallType
<1>3. Head(r.todo) \in {"new", "refresh"}
  OBVIOUS
<1>4. CallTypes' /\ OthersKeep(c) /\ call'[c] = r
  BY <1>1, <1>2, CallChanges DEF Inv
<1>5. ~Carries(c)'
  BY <1>3, <1>4 DEF Carries
<1>6. job' = job /\ tmp' = tmp
  BY DEF Starts, files
<1>7. {job, tmp} \subseteq {None, Torn} \cup Copies
  BY DEF Copies
<1> QED
  BY <1>4, <1>5, <1>6, <1>7 DEF CopiesKeep

LEMMA EndKeeps ==
  ASSUME Inv, NEW c \in Callers, Ends(c), UNCHANGED files
  PROVE  CallTypes' /\ CopiesKeep(c)
<1>1. CallType(Idle)
  BY DEF CallType, Idle
<1>2. CallTypes' /\ OthersKeep(c) /\ call'[c] = Idle
  BY <1>1, CallChanges DEF Inv, Ends
<1>3. ~Carries(c)'
  BY <1>2 DEF Carries, Idle
<1>4. {job, tmp} \subseteq {None, Torn} \cup Copies
  BY DEF Copies
<1> QED
  BY <1>2, <1>3, <1>4 DEF CopiesKeep, files

LEMMA SaveKeeps ==
  ASSUME Inv, NEW c \in Callers, NEW copy, Sound(copy), Saves(c, copy),
         UNCHANGED files
  PROVE  CallTypes' /\ CopiesKeep(c)
<1> DEFINE r == [todo |-> call[c].todo, at |-> "open",
                 copy |-> copy, fd |-> call[c].fd]
<1>1. CallType(call[c])
  BY DEF Inv, CallTypes
<1>2. call' = [call EXCEPT ![c] = r]
  <2>1. call = [d \in Callers |-> call[d]]
    BY DEF Inv, CallTypes
  <2>2. /\ DOMAIN call'[c] = DOMAIN call[c]
        /\ call'[c].todo = r.todo /\ call'[c].at = r.at
        /\ call'[c].copy = r.copy /\ call'[c].fd = r.fd
    BY <1>1, <2>1 DEF Saves, CallType
  <2>3. call'[c] = r
    BY <1>1, <2>1, <2>2 DEF Saves, CallType
  <2>4. \A d \in Callers \ {c} : call'[d] = call[d]
    BY <2>1 DEF Saves
  <2>5. call' = [d \in Callers |-> call'[d]]
    BY <2>1 DEF Saves
  <2> QED
    BY <2>1, <2>3, <2>4, <2>5
<1>3. CallType(r)
  BY <1>1 DEF CallType
<1>4. CallTypes' /\ OthersKeep(c) /\ call'[c] = r
  BY <1>2, <1>3, CallChanges DEF Inv
<1>5. {job, tmp} \subseteq {None, Torn} \cup Copies
  BY DEF Copies
<1> QED
  BY <1>4, <1>5 DEF CopiesKeep, files

LEMMA ReadKeeps ==
  ASSUME Inv, NEW c \in Callers,
         ReadNew(c) \/ ReadRefresh(c) \/ ReadEvidence(c)
  PROVE  CallTypes' /\ CopiesKeep(c)
<1>1. CASE ReadNew(c)
  BY <1>1, NewJobSound, SaveKeeps DEF ReadNew
<1>2. CASE ReadRefresh(c)
  <2>1. CASE job \in {None, Torn}
    BY <1>2, <2>1, EndKeeps DEF ReadRefresh
  <2>2. CASE job \notin {None, Torn}
    <3>1. Sound(job)
      BY <2>2 DEF Inv, Copies
    <3>2. Sound(Refreshed(job))
      BY <3>1, RefreshedSound
    <3> QED
      BY <1>2, <2>2, <3>2, SaveKeeps DEF ReadRefresh
  <2> QED
    BY <2>1, <2>2
<1>3. CASE ReadEvidence(c)
  <2>1. CASE ~Accepted(c)
    BY <1>3, <2>1, EndKeeps DEF ReadEvidence
  <2>2. CASE Accepted(c)
    <3>1. Carries(c)
      BY <1>3 DEF ReadEvidence, Carries
    <3>2. Sound(call[c].copy)
      BY <3>1 DEF Inv, Copies
    <3>3. /\ Succeeded(call[c].copy) # Stages
          /\ Authorized(Route[Current(call[c].copy)], clock)
          /\ Verified(job, Route[Current(call[c].copy)])
      BY <2>2 DEF Accepted
    <3>4. Sound(Completed(call[c].copy))
      BY <3>2, <3>3, CompletedSound DEF Inv
    <3> QED
      BY <1>3, <2>2, <3>4, SaveKeeps DEF ReadEvidence
  <2> QED
    BY <2>1, <2>2
<1> QED
  BY <1>1, <1>2, <1>3

LEMMA OpenKeeps ==
  ASSUME Inv, NEW c \in Callers, OpenTmp(c)
  PROVE  CallTypes' /\ CopiesKeep(c)
<1> DEFINE r == [todo |-> call[c].todo, at |-> "write",
                 copy |-> call[c].copy, fd |-> "tmp"]
<1>1. CallType(call[c])
  BY DEF Inv, CallTypes
<1>2. call' = [call EXCEPT ![c] = r]
  <2>1. call = [d \in Callers |-> call[d]]
    BY DEF Inv, CallTypes
  <2>2. /\ DOMAIN call'[c] = DOMAIN call[c]
        /\ call'[c].todo = r.todo /\ call'[c].at = r.at
        /\ call'[c].copy = r.copy /\ call'[c].fd = r.fd
    BY <1>1, <2>1 DEF OpenTmp, CallType
  <2>3. call'[c] = r
    BY <1>1, <2>1, <2>2 DEF OpenTmp, CallType
  <2>4. \A d \in Callers \ {c} : call'[d] = call[d]
    BY <2>1 DEF OpenTmp
  <2>5. call' = [d \in Callers |-> call'[d]]
    BY <2>1 DEF OpenTmp
  <2> QED
    BY <2>1, <2>3, <2>4, <2>5
<1>3. CallType(r)
  BY <1>1 DEF CallType
<1>4. CallTypes' /\ OthersKeep(c) /\ call'[c] = r
  BY <1>2, <1>3, CallChanges DEF Inv
<1>5. Carries(c) /\ Sound(call[c].copy)
  BY DEF OpenTmp, Carries, Inv, Copies
<1>6. job \in {None, Torn} \cup Copies
  BY DEF Copies
<1> QED
  BY <1>4, <1>5, <1>6 DEF CopiesKeep, OpenTmp

LEMMA WriteKeeps ==
  ASSUME Inv, NEW c \in Callers, WriteTmp(c)
  PROVE  CallTypes' /\ CopiesKeep(c)
<1> DEFINE r == [todo |-> call[c].todo, at |-> "rename",
                 copy |-> call[c].copy, fd |-> "none"]
<1>1. CallType(call[c])
  BY DEF Inv, CallTypes
<1>2. call' = [call EXCEPT ![c] = r]
  <2>1. call = [d \in Callers |-> call[d]]
    BY DEF Inv, CallTypes
  <2>2. /\ DOMAIN call'[c] = DOMAIN call[c]
        /\ call'[c].todo = r.todo /\ call'[c].at = r.at
        /\ call'[c].copy = r.copy /\ call'[c].fd = r.fd
    BY <1>1, <2>1 DEF WriteTmp, CallType
  <2>3. call'[c] = r
    BY <1>1, <2>1, <2>2 DEF WriteTmp, CallType
  <2>4. \A d \in Callers \ {c} : call'[d] = call[d]
    BY <2>1 DEF WriteTmp
  <2>5. call' = [d \in Callers |-> call'[d]]
    BY <2>1 DEF WriteTmp
  <2> QED
    BY <2>1, <2>3, <2>4, <2>5
<1>3. CallType(r)
  BY <1>1 DEF CallType
<1>4. CallTypes' /\ OthersKeep(c) /\ call'[c] = r
  BY <1>2, <1>3, CallChanges DEF Inv
<1>5. call[c].copy \in Copies /\ Sound(call[c].copy)
  BY DEF WriteTmp, Carries, Inv, Copies
<1>6. {job, tmp} \subseteq {None, Torn} \cup Copies
  BY DEF Copies
<1>7. job' \in {job, call[c].copy} /\ tmp' \in {tmp, call[c].copy}
  BY DEF WriteTmp
<1> QED
  BY <1>4, <1>5, <1>6, <1>7 DEF CopiesKeep

LEMMA RenameKeeps ==
  ASSUME Inv, NEW c \in Callers, RenameTmp(c)
  PROVE  CallTypes' /\ CopiesKeep(c)
<1>1. CASE tmp = None
  BY <1>1, EndKeeps DEF RenameTmp
<1>2. CASE tmp # None
  <2> DEFINE followed(d) == IF call[d].fd = "tmp"
                            THEN [call[d] EXCEPT !.fd = "job"] ELSE call[d]
             moved(d) == IF d = c THEN [followed(d) EXCEPT !.at = "unlink"]
                         ELSE followed(d)
             row(d) == IF call[d].fd = "job"
                       THEN [moved(d) EXCEPT !.fd = "gone"] ELSE moved(d)
  <2>1. call' = [d \in Callers |-> row(d)]
    BY <1>2 DEF RenameTmp, Follow
  <2>2. \A d \in Callers :
          /\ CallType(row(d))
          /\ row(d).todo = call[d].todo
          /\ row(d).at = IF d = c THEN "unlink" ELSE call[d].at
          /\ row(d).copy = call[d].copy
    BY DEF Inv, CallTypes, CallType
  <2> HIDE DEF row
  <2>3. CallTypes' /\ OthersKeep(c)
    BY <2>1, <2>2 DEF CallTypes, CallType, OthersKeep
  <2>4. call'[c].copy = call[c].copy
    BY <2>1, <2>2
  <2>5. Sound(call[c].copy)
    BY DEF RenameTmp, Carries, Inv, Copies
  <2>6. job' = tmp /\ tmp' = None
    BY <1>2 DEF RenameTmp
  <2>7. tmp \in {None, Torn} \cup Copies
    BY DEF Copies
  <2> QED
    BY <2>3, <2>4, <2>5, <2>6, <2>7 DEF CopiesKeep
<1> QED
  BY <1>1, <1>2

LEMMA UnlinkKeeps ==
  ASSUME Inv, NEW c \in Callers, UnlinkTmp(c)
  PROVE  CallTypes' /\ CopiesKeep(c)
<1> DEFINE rest == Tail(call[c].todo)
           next == IF rest = <<>> THEN Idle
                   ELSE [Idle EXCEPT !.todo = rest, !.at = "read",
                                     !.copy = call[c].copy]
           left(d) == IF call[d].fd = "tmp"
                      THEN [call[d] EXCEPT !.fd = "gone"] ELSE call[d]
           row(d) == IF d = c THEN next ELSE left(d)
<1>1. call' = [d \in Callers |-> row(d)]
  BY DEF UnlinkTmp, Follow
<1>2. CallType(next) /\ (next = Idle \/ next.copy = call[c].copy)
  <2> HIDE DEF rest
  <2>1. CASE rest = <<>>
    BY <2>1 DEF CallType, Idle
  <2>2. CASE rest # <<>>
    <3>1. next = [todo |-> rest, at |-> "read",
                  copy |-> call[c].copy, fd |-> "none"]
      BY <2>2, IdleSet
    <3> HIDE DEF next
    <3> QED
      BY <3>1 DEF CallType
  <2> QED
    BY <2>1, <2>2
<1> HIDE DEF next
<1>3. \A d \in Callers :
        /\ CallType(row(d))
        /\ d # c => /\ row(d).todo = call[d].todo
                    /\ row(d).at = call[d].at
                    /\ row(d).copy = call[d].copy
  BY <1>2 DEF Inv, CallTypes, CallType
<1>4. call'[c] = next
  BY <1>1
<1> HIDE DEF row
<1>5. CallTypes' /\ OthersKeep(c)
  BY <1>1, <1>3 DEF CallTypes, CallType, OthersKeep
<1>6. Sound(call[c].copy)
  BY DEF UnlinkTmp, Carries, Inv, Copies
<1>7. Carries(c)' => Sound(call'[c].copy)
  BY <1>2, <1>4, <1>6 DEF Carries, Idle
<1>8. job' = job /\ tmp' = None
  BY DEF UnlinkTmp
<1>9. job \in {None, Torn} \cup Copies
  BY DEF Copies
<1> QED
  BY <1>5, <1>7, <1>8, <1>9 DEF CopiesKeep

-----------------------------------------------------------------------------
(* The invariant.                                                          *)
LEMMA InvInit ==
  ASSUME Init
  PROVE  Inv
<1>1. World
  BY OperatorAssumption DEF Init, World
<1>2. CallTypes
  BY DEF Init, CallTypes, CallType, Idle
<1>3. \A c \in Callers : ~Carries(c)
  BY DEF Init, Carries, Idle
<1>4. Copies = {}
  BY <1>3 DEF Init, Copies
<1> QED
  BY <1>1, <1>2, <1>4 DEF Inv

LEMMA InvNext ==
  ASSUME Inv, [Next]_vars
  PROVE  Inv'
<1>1. World' /\ WorldMoves
  BY WorldNext DEF Inv
<1>2. ASSUME NEW c \in Callers,
             \/ Create(c) \/ Status(c) \/ RecordEvidence(c)
             \/ \E choice \in GrantChoices : Authorize(c, choice)
             \/ CallerStep(c)
             \/ Dies(c)
      PROVE  Inv'
  <2>1. CallTypes' /\ CopiesKeep(c)
    <3>1. CASE Create(c)
      BY <3>1, StartKeeps DEF Create
    <3>2. CASE Status(c)
      BY <3>2, StartKeeps DEF Status
    <3>3. CASE RecordEvidence(c)
      BY <3>3, StartKeeps DEF RecordEvidence
    <3>4. CASE \E choice \in GrantChoices : Authorize(c, choice)
      BY <3>4, StartKeeps DEF Authorize
    <3>5. CASE CallerStep(c)
      BY <3>5, ReadKeeps, OpenKeeps, WriteKeeps, RenameKeeps, UnlinkKeeps
      DEF CallerStep
    <3>6. CASE Dies(c)
      BY <3>6, EndKeeps DEF Dies
    <3> QED
      BY <1>2, <3>1, <3>2, <3>3, <3>4, <3>5, <3>6
  <2> QED
    BY <1>1, <2>1, CopiesSound
<1>3. CASE UNCHANGED <<files, call>>
  <2>1. Copies' = Copies /\ CallTypes'
    BY <1>3 DEF files, Copies, Carries, CallTypes, CallType, Inv
  <2>2. ASSUME NEW j \in Copies PROVE Sound(j)'
    BY <1>1, <2>2, SoundLasts DEF Inv
  <2> QED
    BY <1>1, <2>1, <2>2 DEF Inv
<1>4. CASE Tick \/ \E r \in Rewritings : Rewrite(r[1], r[2])
  BY <1>3, <1>4 DEF Tick, Rewrite
<1>5. CASE UNCHANGED vars
  BY <1>3, <1>5 DEF vars
<1> QED
  BY <1>2, <1>4, <1>5 DEF Next

THEOREM InvHolds == Spec => []Inv
<1>1. Init => Inv
  BY InvInit
<1>2. Inv /\ [Next]_vars => Inv'
  BY InvNext
<1> QED
  BY <1>1, <1>2, PTL DEF Spec

-----------------------------------------------------------------------------
LEMMA WholeIsJob ==
  ASSUME NEW j, Whole(j)
  PROVE  IsJob(j)
<1>1. DOMAIN j.stage = Stages
  BY DEF Whole
<1> QED
  BY <1>1 DEF Whole, IsJob

\* Whatever the commands write over each other, every complete job.json and
\* every copy a command holds is a job of the reviewed plan's route whose
\* succeeded stages, and only they, have evidence.
THEOREM TypeCorrect == Spec => []TypeOK
<1>1. ASSUME Inv PROVE TypeOK
  <2>1. ASSUME NEW j \in Copies PROVE IsJob(j)
    BY <1>1, <2>1, WholeIsJob DEF Inv, Sound
  <2>2. ASSUME NEW c \in Callers PROVE call[c].copy = None \/ IsJob(call[c].copy)
    BY <2>1 DEF Copies, Carries
  <2>3. job \in {None, Torn} \/ IsJob(job)
    BY <2>1 DEF Copies
  <2>4. tmp \in {None, Torn} \/ IsJob(tmp)
    BY <2>1 DEF Copies
  <2>5. \A c \in Callers :
          /\ call[c].at \in {"idle", "read", "open", "write", "rename",
                             "unlink"}
          /\ call[c].fd \in {"none", "tmp", "job", "gone"}
    BY <1>1 DEF Inv, CallTypes, CallType
  <2> QED
    BY <1>1, <2>2, <2>3, <2>4, <2>5 DEF TypeOK, Inv, World
<1>2. Inv => TypeOK
  BY <1>1
<1> QED
  BY <1>2, InvHolds, PTL

\* A stage is recorded as succeeded only if at some hour live grants covered
\* all its actions and the plan's confirmations, however many commands
\* refresh, record and die while they share job.json and its temporary name.
THEOREM StagesAuthorized == Spec => []NoStageUnauthorized
<1>1. Inv => NoStageUnauthorized
  BY DEF Inv, Copies, JobOnDisk, NoStageUnauthorized, Sound, AuthorizedOnce
<1> QED
  BY <1>1, InvHolds, PTL

LEMMA RecordedSucceeded ==
  ASSUME NEW j, Sound(j), NEW stage, NEW i \in Recorded(j, stage)
  PROVE  /\ i \in Succeeded(j) /\ Route[i] = stage
         /\ ChainedAt(i, j.stage[i].evidence)
<1>1. i \in Stages /\ Route[i] = stage /\ j.stage[i].evidence # None
  BY DEF Recorded
<1>2. i \in Succeeded(j)
  BY <1>1 DEF Sound, Whole, Succeeded
<1> QED
  BY <1>1, <1>2 DEF Sound

\* The promotion chain of every job.json: stages succeed in order, the
\* promoted run is one of the recorded, published candidates and the event
\* run is the promoted one, unless the operator wrote over the files.
THEOREM ChainHolds == Spec => []EvidenceChain
<1>1. ASSUME Inv, JobOnDisk
      PROVE  /\ InOrder(job)
             /\ job.status = "succeeded" => Succeeded(job) = Stages
             /\ \A runs \in EvidenceOf("fast_matrix") :
                  runs \subseteq PublishedRuns
             /\ "fast_matrix" \notin rewritten =>
                  \A run \in EvidenceOf("manual_selection") :
                    \E runs \in EvidenceOf("fast_matrix") : run \in runs
             /\ "manual_selection" \notin rewritten =>
                  EvidenceOf("event_formal")
                    \subseteq EvidenceOf("manual_selection")
  <2>1. Sound(job)
    BY <1>1 DEF JobOnDisk, Inv, Copies
  <2>2. \A i \in Succeeded(job) :
          /\ i \in Stages /\ i \in Recorded(job, Route[i])
          /\ job.stage[i].evidence \in EvidenceOf(Route[i])
    BY <2>1 DEF Sound, Whole, Succeeded, Recorded, EvidenceOf
  <2>3. ASSUME NEW runs \in EvidenceOf("fast_matrix")
        PROVE  runs \subseteq PublishedRuns
    <3>1. PICK i \in Recorded(job, "fast_matrix") : runs = job.stage[i].evidence
      BY <2>3 DEF EvidenceOf
    <3> QED
      BY <2>1, <3>1, RecordedSucceeded DEF ChainedAt
  <2>4. ASSUME "fast_matrix" \notin rewritten,
               NEW run \in EvidenceOf("manual_selection")
        PROVE  \E runs \in EvidenceOf("fast_matrix") : run \in runs
    <3>1. PICK i \in Recorded(job, "manual_selection") :
            run = job.stage[i].evidence
      BY <2>4 DEF EvidenceOf
    <3>2. /\ i \in Succeeded(job) /\ Route[i] = "manual_selection"
          /\ ChainedAt(i, run)
      BY <2>1, <3>1, RecordedSucceeded
    <3>3. run \in paper["fast_matrix"]
      BY <2>4, <3>2 DEF ChainedAt
    <3>4. i = 4 /\ 3 \in Stages /\ Route[3] = "fast_matrix"
      BY <2>2, <3>2, RouteShape
    <3>5. 3 \in Succeeded(job)
      BY <2>1, <3>2, <3>4 DEF Sound, InOrder
    <3>6. job.stage[3].evidence = paper["fast_matrix"]
      BY <2>1, <2>4, <3>4, <3>5 DEF Sound, ChainedAt
    <3> QED
      BY <2>2, <3>3, <3>4, <3>5, <3>6
  <2>5. ASSUME "manual_selection" \notin rewritten,
               NEW run \in EvidenceOf("event_formal")
        PROVE  run \in EvidenceOf("manual_selection")
    <3>1. PICK i \in Recorded(job, "event_formal") : run = job.stage[i].evidence
      BY <2>5 DEF EvidenceOf
    <3>2. /\ i \in Succeeded(job) /\ Route[i] = "event_formal"
          /\ ChainedAt(i, run)
      BY <2>1, <3>1, RecordedSucceeded
    <3>3. run = paper["manual_selection"]
      BY <2>5, <3>2 DEF ChainedAt
    <3>4. i = 5 /\ 4 \in Stages /\ Route[4] = "manual_selection"
      BY <2>2, <3>2, RouteShape
    <3>5. 4 \in Succeeded(job)
      BY <2>1, <3>2, <3>4 DEF Sound, InOrder
    <3>6. job.stage[4].evidence = paper["manual_selection"]
      BY <2>1, <2>5, <3>4, <3>5 DEF Sound, ChainedAt
    <3> QED
      BY <2>2, <3>3, <3>4, <3>5, <3>6
  <2> QED
    BY <2>1, <2>3, <2>4, <2>5 DEF Sound
<1>2. Inv => EvidenceChain
  BY <1>1 DEF EvidenceChain, InOrder
<1> QED
  BY <1>2, InvHolds, PTL
=============================================================================
