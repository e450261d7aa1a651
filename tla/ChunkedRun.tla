----------------------------- MODULE ChunkedRun -----------------------------
(***************************************************************************)
(* The chunked pipeline of a V2 run: execute_chunked_pipeline              *)
(* (bfbt/application/chunked.py) computes universe, factor and selections  *)
(* chunk by chunk into a spool (performance/spool.py), reuses analysis and *)
(* signal snapshots other runs have published (artifacts/reuse.py) and     *)
(* hands the selections to the event engine.                               *)
(*                                                                         *)
(* Time is counted in ticks of the factor clock; a run covers 0..Length-1. *)
(* A part of factor values is the ticks it covers and those of them at     *)
(* which a contract is a member of the universe (PointInTime); a selection *)
(* is a tick and the earlier tick its ranks come from.  All runs have one  *)
(* dataset, universe and factor, hence one analysis identity; a signal     *)
(* identity also has the selection settings.  Neither has the chunk        *)
(* interval.                                                               *)
(***************************************************************************)
EXTENDS PointInTime, Sequences

CONSTANTS
  Runs,           \* processes executing the pipeline
  Length,         \* ticks of the run
  Rebalance,      \* ticks from one rebalance to the next
  Overlap,        \* ticks of history read before a chunk
  Histories,      \* the contract in the dataset: [bars, snapshots]
  Filters,        \* the filters of the universe
  Intervals,      \* chunk intervals, in ticks
  Selections,     \* selection settings: [lag, clock]
  Modes,          \* reuse modes
  MaxFaults       \* bound: crashes and exceptions

(* Every interval is a multiple of the base interval, the tick, and a      *)
(* chunk is a multiple of the clocks that run in it.                       *)
LegalIntervals ==
  /\ Rebalance \in Nat \ {0} /\ Intervals \subseteq Nat \ {0}
  /\ \A i \in Intervals : i % Rebalance = 0

ASSUME ChunkedRunAssumption ==
  /\ LegalIntervals /\ Length \in Nat \ {0} /\ Overlap \in Nat
  /\ Filters.window <= Overlap /\ Filters.minHistory <= Overlap
  /\ Modes \subseteq {"off", "read_write", "refresh"}

\* Bars open at ticks and are complete or not; windows are counted in ticks,
\* lags in snapshots.
ASSUME HistoryAssumption ==
  /\ NoBar \notin Int
  /\ Filters.window \in Nat
  /\ Selections \subseteq [lag : Nat, clock : {"factor", "rebalance"}]
  /\ \A h \in Histories :
       /\ DOMAIN h.bars \subseteq Int
       /\ \A t \in DOMAIN h.bars : h.bars[t] \in BOOLEAN

None == NoBar

VARIABLES
  data,           \* the dataset all runs read
  analysis,       \* the analysis snapshot: [by, parts], or None
  signal,         \* signal snapshots: selection -> [parent, rows, mixed],
                  \*   or None
  run,            \* the state of every process
  workspaces,     \* directories below .work: [of, alive, marked]
  faults

stores == <<analysis, signal>>
vars == <<data, stores, run, workspaces, faults>>

-----------------------------------------------------------------------------
(* plan_time_chunks: contiguous windows, each with its input reaching back *)
(* over the overlap but not before the earliest input.                     *)
Floor == -Overlap

LowerOf(a, b) == IF a < b THEN a ELSE b
UpperOf(a, b) == IF a > b THEN a ELSE b

Chunks(interval) ==
  [i \in 1 .. (Length + interval - 1) \div interval |->
     LET start == (i - 1) * interval IN
     [start |-> start, end |-> LowerOf(Length, start + interval),
      input |-> UpperOf(start - Overlap, Floor)]]

Ticks(chunk) == chunk.start .. chunk.end - 1

(* build_schedule of the rebalance interval, from the start of the chunk.  *)
Schedule(chunk) == {t \in Ticks(chunk) : (t - chunk.start) % Rebalance = 0}

(* construct_portfolio for rank selection: the decisions are the factor    *)
(* rows at rebalances, the ranks those rows or all rows of the part; the   *)
(* state is the last lag snapshots.  A decision takes the lag-th snapshot  *)
(* before it, or nothing.                                                  *)
Ranked(part, schedule, selection) ==
  IF selection.clock = "factor" THEN part ELSE part \cap schedule

InOrder(ticks) ==
  [j \in 1 .. Cardinality(ticks) |->
     CHOOSE t \in ticks : Cardinality({u \in ticks : u <= t}) = j]

Constructed(state, part, schedule, selection) ==
  LET ranked == state \o InOrder(Ranked(part, schedule, selection))
      Source(t) == LET i == CHOOSE j \in DOMAIN ranked : ranked[j] = t IN
                   IF i > selection.lag THEN ranked[i - selection.lag] ELSE None
  IN [rows |-> {[at |-> t, source |-> Source(t)] : t \in part \cap schedule},
      state |-> SubSeq(ranked, UpperOf(1, Len(ranked) - selection.lag + 1),
                       Len(ranked))]

(* The selections of the whole run in one pass: what chunks and snapshots  *)
(* may not change.                                                         *)
OnePass ==
  [s \in Selections |->
     Constructed(<<>>, 0 .. Length - 1,
                 {t \in 0 .. Length - 1 : t % Rebalance = 0}, s).rows]

-----------------------------------------------------------------------------
Plans == [i \in Intervals |-> Chunks(i)]

(* mixed is history, read by the properties only: the chunks whose          *)
(* selections a run, or the run that made the signal snapshot it uses,     *)
(* rebuilt from a part cut at other times.                                 *)
Idle(config) ==
  [at |-> "idle", interval |-> config.interval, selection |-> config.selection,
   mode |-> None, analysis |-> None, signal |-> None, offset |-> NoHistory,
   parts |-> <<>>, state |-> <<>>, rows |-> {}, done |-> 0,
   mixed |-> {}]

Init ==
  /\ data \in Histories
  /\ analysis = None
  /\ signal = [s \in Selections |-> None]
  /\ \E config \in [Runs -> [interval : Intervals, selection : Selections]] :
       run = [r \in Runs |-> Idle(config[r])]
  /\ workspaces = {}
  /\ faults = 0

(* signal_identity: the analysis and the selection settings, without the   *)
(* number of audited ranks.                                                *)
SignalId(r) == run[r].selection

At(r, at) == run[r].at = at

Plan(r) == Plans[run[r].interval]

Becomes(r, to) == run' = [run EXCEPT ![r] = to]

Goes(r, at) == Becomes(r, [run[r] EXCEPT !.at = at])

Ended == {"idle", "done", "failed"}

OwnWorkspace(r) == {w \in workspaces : w.of = r /\ w.alive}

(* An exception leaves through ChunkWorkspace.__exit__, which removes the  *)
(* directory, and a publication removes its staging directory.             *)
Raises(r) ==
  /\ Becomes(r, [Idle(run[r]) EXCEPT !.at = "failed"])
  /\ workspaces' = workspaces \ OwnWorkspace(r)

Start(r) ==
  /\ run[r].at \in Ended
  /\ \E mode \in Modes :
       Becomes(r, [Idle(run[r]) EXCEPT
         !.at = IF mode = "read_write" THEN "load_analysis" ELSE "workspace",
         !.mode = mode])
  /\ UNCHANGED <<stores, workspaces, faults>>

LoadAnalysis(r) ==
  /\ At(r, "load_analysis")
  /\ Becomes(r, [run[r] EXCEPT !.analysis = analysis, !.at = "load_signal"])
  /\ UNCHANGED <<stores, workspaces, faults>>

LoadSignal(r) ==
  /\ At(r, "load_signal")
  /\ LET found == signal[SignalId(r)] IN
     IF found # None /\ (run[r].analysis = None \/ found.parent # run[r].analysis.by)
     THEN Raises(r)
     ELSE /\ Becomes(r, [run[r] EXCEPT !.signal = found, !.at = "workspace"])
          /\ UNCHANGED workspaces
  /\ UNCHANGED <<stores, faults>>

(* With both snapshots the tables are attached; with the analysis alone    *)
(* its factor parts must be as many as the chunks of this run's plan.      *)
Attached(r) ==
  IF run[r].signal # None
  THEN [run[r] EXCEPT !.at = "execute", !.parts = run[r].analysis.parts,
                      !.rows = run[r].signal.rows,
                      !.mixed = run[r].signal.mixed]
  ELSE [run[r] EXCEPT !.at = "rebuild", !.parts = run[r].analysis.parts]

PartsMatchPlan(r) == Len(run[r].analysis.parts) = Len(Plan(r))

(* ChunkWorkspace.__init__ makes a fresh directory and its marker; the     *)
(* cached tables are attached inside it.                                   *)
MakeWorkspace(r) ==
  /\ At(r, "workspace")
  /\ LET made == workspaces' =
           workspaces \union {[of |-> r, alive |-> TRUE, marked |-> TRUE]} IN
     \/ run[r].analysis = None /\ Goes(r, "analysis") /\ made
     \/ /\ run[r].analysis # None /\ (run[r].signal # None \/ PartsMatchPlan(r))
        /\ Becomes(r, Attached(r)) /\ made
     \/ /\ run[r].analysis # None /\ run[r].signal = None /\ ~PartsMatchPlan(r)
        /\ Raises(r)
  /\ UNCHANGED <<stores, faults>>

-----------------------------------------------------------------------------
(* One chunk of the analysis: universe with the history offsets, factor,   *)
(* selections with the rank state exported and restored, then the advance  *)
(* of the history up to the next chunk's input.                            *)

(* ParquetSpool: parts are numbered in the order they are written and      *)
(* scanned in that order.                                                  *)
Spooled(parts, part) == Append(parts, part)

(* The universe of a chunk is built from the bars of its input and the     *)
(* offsets of the chunks before it.                                        *)
Members(chunk, offset) ==
  {t \in Ticks(chunk) :
     Eligible(Scan(data.bars, chunk.input, chunk.end), offset, data.snapshots,
              Filters, t)}

Part(chunk, offset) ==
  [start |-> chunk.start, end |-> chunk.end, members |-> Members(chunk, offset)]

PartTicks(part) == part.start .. part.end - 1

\* Mutant: every chunk starts with empty rank state.
WithSelectionsAfresh(r, chunk, part) ==
  LET made == Constructed(<<>>, PartTicks(part), Schedule(chunk),
                          run[r].selection)
  IN [run[r] EXCEPT !.rows = @ \union made.rows, !.state = made.state,
                    !.done = @ + 1]

WithSelections(r, chunk, part) ==
  LET made == Constructed(run[r].state, PartTicks(part), Schedule(chunk),
                          run[r].selection)
  IN [run[r] EXCEPT !.rows = @ \union made.rows, !.state = made.state,
                    !.done = @ + 1]

NextPhase(r) ==
  IF run[r].done + 1 < Len(Plan(r)) THEN run[r].at
  ELSE IF run[r].mode = "off" THEN "execute" ELSE "publish_analysis"

AnalyseChunk(r) ==
  /\ At(r, "analysis")
  /\ LET i == run[r].done + 1
         chunk == Plan(r)[i]
         part == Part(chunk, run[r].offset)
     IN Becomes(r, [WithSelections(r, chunk, part) EXCEPT
          !.parts = Spooled(@, part),
          !.offset = IF i < Len(Plan(r))
                     THEN Advanced(@, Scan(data.bars, chunk.input, chunk.end),
                                   chunk.input, Plan(r)[i + 1].input)
                     ELSE @,
          !.at = NextPhase(r)])
  /\ UNCHANGED <<stores, workspaces, faults>>

CutAs(part, chunk) == part.start = chunk.start /\ part.end = chunk.end

(* One chunk of the rebuild: the i-th cached part against the schedule of  *)
(* the i-th chunk of this run's plan, wherever that part was cut.          *)
RebuildChunk(r) ==
  /\ At(r, "rebuild")
  /\ LET i == run[r].done + 1 IN
     Becomes(r, [WithSelections(r, Plan(r)[i], run[r].parts[i]) EXCEPT
       !.at = NextPhase(r),
       !.mixed = @ \union {k \in {i} : ~CutAs(run[r].parts[k], Plan(r)[k])}])
  /\ UNCHANGED <<stores, workspaces, faults>>

-----------------------------------------------------------------------------
(* ReusableSnapshotStore.publish_analysis and publish_signal: a snapshot   *)
(* that is there is returned (the dependency is part of the identity), a   *)
(* signal of another parent is refused; else the tables are staged and     *)
(* renamed, which fails when another run was faster.                       *)
PublishAnalysis(r) ==
  /\ At(r, "publish_analysis")
  /\ Becomes(r,
       IF run[r].analysis # None THEN [run[r] EXCEPT !.at = "publish_signal"]
       ELSE IF analysis # None
       THEN [run[r] EXCEPT !.analysis = analysis, !.at = "publish_signal"]
       ELSE [run[r] EXCEPT !.at = "rename_analysis"])
  /\ UNCHANGED <<stores, workspaces, faults>>

Snapshot(r) == [by |-> r, parts |-> run[r].parts]

RenameAnalysis(r) ==
  /\ At(r, "rename_analysis")
  /\ IF analysis = None
     THEN /\ analysis' = Snapshot(r)
          /\ Becomes(r, [run[r] EXCEPT !.analysis = Snapshot(r), !.at = "publish_signal"])
          /\ UNCHANGED workspaces
     ELSE Raises(r) /\ UNCHANGED analysis
  /\ UNCHANGED <<signal, faults>>

PublishSignal(r) ==
  /\ At(r, "publish_signal")
  /\ LET found == signal[SignalId(r)] IN
     CASE found = None -> Goes(r, "rename_signal") /\ UNCHANGED workspaces
       [] found # None /\ found.parent # run[r].analysis.by -> Raises(r)
       [] OTHER -> Goes(r, "execute") /\ UNCHANGED workspaces
  /\ UNCHANGED <<stores, faults>>

RenameSignal(r) ==
  /\ At(r, "rename_signal")
  /\ IF signal[SignalId(r)] = None
     THEN /\ signal' = [signal EXCEPT ![SignalId(r)] =
                          [parent |-> run[r].analysis.by, rows |-> run[r].rows,
                           mixed |-> run[r].mixed]]
          /\ Goes(r, "execute") /\ UNCHANGED workspaces
     ELSE Raises(r) /\ UNCHANGED signal
  /\ UNCHANGED <<analysis, faults>>

(* The engine reads the spool and the run is published; a run without      *)
(* targets is refused.                                                     *)
Execute(r) ==
  /\ At(r, "execute")
  /\ IF {s \in run[r].rows : s.source # None} = {}
     THEN Raises(r)
     ELSE Goes(r, "done") /\ workspaces' = workspaces \ OwnWorkspace(r)
  /\ UNCHANGED <<stores, faults>>

-----------------------------------------------------------------------------
(* A row or memory budget, a file error; or the process dies, with its     *)
(* workspace (and a staging directory nobody reads) left behind, without a *)
(* marker when it had just been made.                                      *)
Abandoned(r) ==
  IF At(r, "workspace")
  THEN {[of |-> r, alive |-> FALSE, marked |-> FALSE]}
  ELSE {[w EXCEPT !.alive = FALSE] : w \in OwnWorkspace(r)}

Trouble(r) ==
  /\ run[r].at \notin Ended /\ faults < MaxFaults
  /\ \/ Raises(r)
     \/ /\ Becomes(r, [Idle(run[r]) EXCEPT !.at = "failed"])
        /\ workspaces' = (workspaces \ OwnWorkspace(r)) \union Abandoned(r)
  /\ faults' = faults + 1
  /\ UNCHANGED stores

(* cleanup_stale_workspaces: marked workspaces of dead processes that are  *)
(* old enough, whichever those are.                                        *)
Stale == {w \in workspaces : w.marked /\ ~w.alive}

Cleanup ==
  /\ Stale # {}
  /\ \E gone \in SUBSET Stale \ {{}} : workspaces' = workspaces \ gone
  /\ UNCHANGED <<stores, run, faults>>

Step(r) ==
  \/ LoadAnalysis(r) \/ LoadSignal(r) \/ MakeWorkspace(r)
  \/ AnalyseChunk(r) \/ RebuildChunk(r) \/ PublishAnalysis(r)
  \/ RenameAnalysis(r) \/ PublishSignal(r) \/ RenameSignal(r) \/ Execute(r)

Next ==
  /\ \/ \E r \in Runs : Start(r) \/ Step(r) \/ Trouble(r)
     \/ Cleanup
  /\ UNCHANGED data

Spec == Init /\ [][Next]_vars

-----------------------------------------------------------------------------
Row == [at : 0 .. Length - 1, source : (0 .. Length - 1) \union {None}]

IsPart(p) ==
  /\ p.start \in 0 .. Length - 1 /\ p.end \in 1 .. Length /\ p.start < p.end
  /\ p.members \subseteq p.start .. p.end - 1

(* Types: a snapshot is the work of some run, a signal snapshot has rows   *)
(* of the run's ticks, and a running process past its first step owns one  *)
(* live workspace.                                                         *)
TypeOK ==
  /\ analysis # None => analysis.by \in Runs /\ \A i \in DOMAIN analysis.parts :
                          IsPart(analysis.parts[i])
  /\ \A s \in Selections : signal[s] # None =>
       signal[s].parent \in Runs /\ signal[s].rows \subseteq Row
  /\ \A r \in Runs :
       /\ run[r].rows \subseteq Row
       /\ Len(run[r].state) <= run[r].selection.lag
       /\ run[r].done <= Len(Plan(r))
       /\ Cardinality(OwnWorkspace(r)) <= 1
  /\ faults \in 0 .. MaxFaults

(* A finished run has executed the selections a single pass over the whole *)
(* run makes, whatever its chunks, the snapshots it found and the runs     *)
(* beside it; unless they were rebuilt, by it or by the run whose signal   *)
(* snapshot it found, from parts that another plan of as many chunks had   *)
(* cut at other times, which chunked.py:372 does not notice.               *)
CacheKeepsResults ==
  \A r \in Runs : At(r, "done") /\ run[r].mixed = {} =>
    run[r].rows = OnePass[run[r].selection]

(* The design's claim, for every plan: results agree whatever the chunk    *)
(* interval of the run and of the snapshots it consumes                    *)
(* (docs/design/v4_reusable_analysis_and_fast_replay.md:166).              *)
ChunkingKeepsResults ==
  \A r \in Runs : At(r, "done") => run[r].rows = OnePass[run[r].selection]

(* Membership in a published part is that of a single pass over the bars   *)
(* closed by the tick: neither the chunks and their overlapping inputs nor *)
(* bars of the future change it.                                           *)
UniverseIsPointInTime ==
  analysis # None =>
    \A i \in DOMAIN analysis.parts : \A t \in PartTicks(analysis.parts[i]) :
      t \in analysis.parts[i].members
        <=> Eligible(Scan(data.bars, Floor, t), NoHistory, data.snapshots, Filters, t)

=============================================================================
