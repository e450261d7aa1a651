----------------------------- MODULE Selection -----------------------------
(***************************************************************************)
(* Rank snapshots and the selection state that crosses chunks:             *)
(* build_rank_snapshots (bfbt/portfolio/ranking.py), RankHistoryBuffer and *)
(* RankDescentTracker (history.py), FactorCrossoverTracker (crossover.py), *)
(* select_long_short (selection.py), as construct_portfolio                *)
(* (constraints.py) feeds them.                                            *)
(*                                                                         *)
(* Every tick of the factor clock gives each symbol a row, whose score may *)
(* be invalid.  Only one selection mode runs, as the configuration says.   *)
(* Chunks end anywhere between two ticks; there the state is exported and  *)
(* restored.                                                               *)
(***************************************************************************)
EXTENDS Integers, Sequences, FiniteSets

CONSTANTS
  Symbols,        \* contracts, numbered in the order of their names
  Scores,         \* factor values
  Ticks,          \* ticks of the run
  Configs,        \* selection configurations
  None

(* What the validators of the selection configuration let through; a       *)
(* long_short configuration is a version 1 portfolio.                      *)
LegalSelection(c) ==
  /\ c.rebalance \in Nat \ {0} /\ c.rows \in Nat \ {0} /\ c.lag \in Nat
  /\ CASE c.mode = "rank_set" ->
             /\ c.long \union c.short # {} /\ c.long \cap c.short = {}
             /\ c.long \union c.short \subseteq Nat \ {0}
       [] c.mode = "rank_descent" -> c.lag = 0 /\ c.entry \in 1 .. c.start - 1
       [] c.mode = "factor_crossover" -> c.lag = 0 /\ c.clock = "factor"
       [] OTHER -> c.mode = "long_short"

ASSUME SelectionAssumption ==
  /\ Symbols \subseteq Nat /\ Scores \subseteq Int /\ Ticks \in Nat
  /\ \A c \in Configs : LegalSelection(c)

VARIABLES
  config,
  scores,         \* the ticks so far: what each symbol scored, or None
  state,          \* rank_set: the last snapshots; else symbol -> its record
  lastTime,       \* the tracker's last tick, or None
  chunk,          \* first tick of the chunk that is being processed
  selected,       \* rows of selections: [at, source, symbol, side]
  explained,      \* diagnostic rows: [at, side, rank, reason]
  status

vars == <<config, scores, state, lastTime, chunk, selected, explained, status>>

-----------------------------------------------------------------------------
Valid(snapshot) == {s \in Symbols : snapshot[s] # None}

\* Higher scores first, ties by symbol.
Before(snapshot, s, u) ==
  snapshot[s] > snapshot[u] \/ (snapshot[s] = snapshot[u] /\ s < u)

Rank(snapshot, s) ==
  1 + Cardinality({u \in Valid(snapshot) : u # s /\ Before(snapshot, u, s)})

Decision(t) == t % config.rebalance = 0

(* The rows of a rebalance tick, or of every tick when ranks follow the    *)
(* factor clock; crossovers see rebalance ticks whatever the clock.        *)
Fed(t) ==
  \/ Decision(t)
  \/ config.clock = "factor" /\ config.mode \in {"rank_set", "rank_descent"}

\* A tick without a valid score makes no snapshot.
SnapshotAt(t, snapshot) == Fed(t) /\ Valid(snapshot) # {}

Tracked(tracker) == {s \in Symbols : tracker[s] # None}

NoTracks == [s \in Symbols |-> None]

EmptyState(c) == IF c.mode = "rank_set" THEN <<>> ELSE NoTracks

Init ==
  /\ config \in Configs
  /\ scores = <<>>
  /\ state = EmptyState(config)
  /\ lastTime = None
  /\ chunk = 0
  /\ selected = {} /\ explained = {}
  /\ status = "running"

-----------------------------------------------------------------------------
(* RankHistoryBuffer: a decision takes the snapshot lag fed ticks ago and  *)
(* selects the symbols that had the wanted ranks, if they are valid now.   *)
Requests ==
  {<<"LONG", r>> : r \in config.long} \union {<<"SHORT", r>> : r \in config.short}

Source(t, snapshot) ==
  IF config.lag = 0 THEN [at |-> t, scores |-> snapshot]
  ELSE IF Len(state) >= config.lag THEN state[Len(state) - config.lag + 1]
  ELSE None

Matched(source, rank) ==
  {s \in Valid(source.scores) : Rank(source.scores, s) = rank}

ReasonOf(source, snapshot, rank) ==
  IF source = None THEN "INSUFFICIENT_RANK_HISTORY"
  ELSE IF Matched(source, rank) = {} THEN "RANK_OUT_OF_RANGE"
  ELSE IF Matched(source, rank) \cap Valid(snapshot) = {}
  THEN "HISTORICAL_RANK_NOT_CURRENTLY_ELIGIBLE"
  ELSE IF config.lag = 0 THEN "SELECTED_CURRENT_RANK" ELSE "SELECTED_HISTORICAL_RANK"

Decided(t, snapshot) ==
  LET source == Source(t, snapshot) IN
  IF source = None THEN {}
  ELSE UNION {{[at |-> t, source |-> source.at, symbol |-> s, side |-> q[1]] :
                 s \in Matched(source, q[2]) \cap Valid(snapshot)} : q \in Requests}

Explanations(t, snapshot) ==
  {[at |-> t, side |-> q[1], rank |-> q[2],
    reason |-> ReasonOf(Source(t, snapshot), snapshot, q[2])] : q \in Requests}

Remembered(t, snapshot) ==
  LET all == Append(state, [at |-> t, scores |-> snapshot]) IN
  IF config.lag = 0 THEN <<>>
  ELSE SubSeq(all, IF Len(all) > config.lag THEN Len(all) - config.lag + 1 ELSE 1,
              Len(all))

Rows(buffer) ==
  LET sizes == [i \in DOMAIN buffer |-> Cardinality(Valid(buffer[i].scores))]
      sum[i \in 0 .. Len(buffer)] == IF i = 0 THEN 0 ELSE sum[i - 1] + sizes[i]
  IN sum[Len(buffer)]

RankSet(t, snapshot) ==
  LET kept == Remembered(t, snapshot) IN
  IF Rows(kept) > config.rows
  THEN status' = "failed" /\ UNCHANGED <<state, lastTime, selected, explained>>
  ELSE /\ state' = kept
       /\ lastTime' = IF kept = <<>> THEN None ELSE t
       /\ selected' = selected \union (IF Decision(t) THEN Decided(t, snapshot) ELSE {})
       /\ explained' = explained
            \union (IF Decision(t) THEN Explanations(t, snapshot) ELSE {})
       /\ UNCHANGED status

-----------------------------------------------------------------------------
(* RankDescentTracker: a path starts at a rank of at least start, goes on  *)
(* while the symbol is in every snapshot and its rank does not rise (nor   *)
(* stay, under reset), and triggers at a decision with the entry rank.     *)
Begun(t, rank) == IF rank >= config.start THEN [rank |-> rank, seen |-> t] ELSE None

Resets(previous, rank) ==
  rank > previous \/ (rank = previous /\ config.equal = "reset")

Triggers(t, snapshot, s) ==
  /\ state[s] # None
  /\ ~Resets(state[s].rank, Rank(snapshot, s))
  /\ Rank(snapshot, s) = config.entry
  /\ Decision(t)


Descended(t, snapshot) ==
  [s \in Symbols |->
     IF s \notin Valid(snapshot) THEN None
     ELSE LET rank == Rank(snapshot, s) IN
          IF state[s] = None \/ Resets(state[s].rank, rank) THEN Begun(t, rank)
          ELSE IF Triggers(t, snapshot, s) THEN None
          ELSE [rank |-> rank, seen |-> t]]

RankDescent(t, snapshot) ==
  LET triggered == {s \in Valid(snapshot) : Triggers(t, snapshot, s)} IN
  /\ state' = Descended(t, snapshot)
  /\ lastTime' = t
  /\ selected' = selected \union
       {[at |-> t, source |-> t, symbol |-> s, side |-> "LONG"] : s \in triggered}
  /\ explained' = explained \union
       {[at |-> t, side |-> "LONG", rank |-> config.entry,
         reason |-> "RANK_DESCENT_TRIGGERED"] : s \in triggered}
  /\ status' = IF Cardinality(Tracked(Descended(t, snapshot))) > config.rows
               THEN "failed" ELSE status

-----------------------------------------------------------------------------
(* FactorCrossoverTracker: a symbol's score against its score in the       *)
(* snapshot before.                                                        *)
Crossed(previous, score) ==
  IF previous <= config.enter /\ score > config.enter THEN "LONG"
  ELSE IF previous >= config.leave /\ score < config.leave THEN "FLAT"
  ELSE None

Scored(t, snapshot) ==
  [s \in Symbols |->
     IF s \in Valid(snapshot) THEN [score |-> snapshot[s], seen |-> t] ELSE None]

FactorCrossover(t, snapshot) ==
  LET crossing == {s \in Valid(snapshot) :
        state[s] # None /\ Crossed(state[s].score, snapshot[s]) # None}
  IN /\ state' = Scored(t, snapshot)
     /\ lastTime' = t
     /\ selected' = selected \union
          {[at |-> t, source |-> None, symbol |-> s,
            side |-> Crossed(state[s].score, snapshot[s])] : s \in crossing}
     /\ status' = IF Cardinality(Valid(snapshot)) > config.rows THEN "failed" ELSE status
     /\ UNCHANGED explained

-----------------------------------------------------------------------------
(* select_long_short: the lowest scores are sold, the highest bought, when *)
(* there are enough of them; counts or quantiles [num, den] of at least 1. *)
CountOf(rule, n) ==
  IF rule.num = None THEN rule.count
  ELSE LET part == (n * rule.num) \div rule.den IN IF part < 1 THEN 1 ELSE part

\* Ascending scores, ties by symbol.
RankUp(snapshot, s) ==
  1 + Cardinality({u \in Valid(snapshot) :
        snapshot[u] < snapshot[s] \/ (snapshot[u] = snapshot[s] /\ u < s)})

LongShort(t, snapshot) ==
  LET n == Cardinality(Valid(snapshot))
      longs == CountOf(config.longs, n)
      shorts == CountOf(config.shorts, n)
      Side(s) == IF RankUp(snapshot, s) <= shorts THEN "SHORT" ELSE "LONG"
  IN {[at |-> t, source |-> t, symbol |-> s, side |-> Side(s)] :
        s \in {u \in Valid(snapshot) :
                 /\ n >= 2 /\ longs + shorts <= n
                 /\ \/ RankUp(snapshot, u) <= shorts
                    \/ RankUp(snapshot, u) > n - longs}}

TopBottom(t, snapshot) ==
  /\ selected' = selected \union LongShort(t, snapshot)
  /\ UNCHANGED <<state, lastTime, explained, status>>

-----------------------------------------------------------------------------
Now == Len(scores)

\* One tick of the factor clock.
Tick ==
  /\ status = "running" /\ Now < Ticks
  /\ \E snapshot \in [Symbols -> Scores \union {None}] :
       /\ scores' = Append(scores, snapshot)
       /\ IF ~SnapshotAt(Now, snapshot)
          THEN UNCHANGED <<state, lastTime, selected, explained, status>>
          ELSE IF lastTime # None /\ lastTime >= Now
          THEN status' = "disordered" /\ UNCHANGED <<state, lastTime, selected, explained>>
          ELSE \/ config.mode = "rank_set" /\ RankSet(Now, snapshot)
               \/ config.mode = "rank_descent" /\ RankDescent(Now, snapshot)
               \/ config.mode = "factor_crossover" /\ FactorCrossover(Now, snapshot)
               \/ config.mode = "long_short" /\ TopBottom(Now, snapshot)
  /\ UNCHANGED <<config, chunk>>

(* The end of a chunk: decisions without a snapshot are explained, and the *)
(* state goes through export_state and the constructor of its tracker,     *)
(* which takes its last tick from the rows it is given.                    *)
Restored(tracker) ==
  IF Tracked(tracker) = {} THEN None
  ELSE tracker[CHOOSE s \in Tracked(tracker) :
                 \A u \in Tracked(tracker) : tracker[u].seen <= tracker[s].seen].seen

\* The last tick a tracker rebuilt from the exported rows has seen.
RestoredTime ==
  CASE config.mode = "rank_set" ->
         (IF state = <<>> THEN None ELSE state[Len(state)].at)
    [] config.mode = "long_short" -> None
    [] OTHER -> Restored(state)

Unseen == {t \in chunk .. Now - 1 : Decision(t) /\ Valid(scores[t + 1]) = {}}

\* Mutant: only the decisions that had a snapshot are explained.
EndChunkSilently ==
  /\ status = "running" /\ chunk < Now
  /\ chunk' = Now
  /\ UNCHANGED <<config, scores, state, lastTime, selected, explained, status>>

EndChunk ==
  /\ status = "running" /\ chunk < Now
  /\ chunk' = Now
  /\ explained' = explained \union
       (IF config.mode # "rank_set" THEN {}
        ELSE {[at |-> t, side |-> q[1], rank |-> q[2],
               reason |-> "INSUFFICIENT_RANK_HISTORY"] : t \in Unseen, q \in Requests})
  /\ lastTime' = RestoredTime
  /\ UNCHANGED <<config, scores, state, selected, status>>

Next == Tick \/ EndChunk

Spec == Init /\ [][Next]_vars

-----------------------------------------------------------------------------
(* Reference definitions over the whole history, without state or chunks.  *)
(* A lag counts snapshots.  For descents and crossings a fed tick at which *)
(* a symbol has no score is a gap, whether or not another symbol has one   *)
(* (docs/acceptance/A22.md:11, A30.md:6).                                  *)
FedTicks == {t \in 0 .. Now - 1 : Fed(t)}

Past == {t \in FedTicks : SnapshotAt(t, scores[t + 1])}

\* The n-th snapshot before t.
Earlier(t, n) ==
  {u \in Past : u < t /\ Cardinality({v \in Past : u <= v /\ v < t}) = n}

\* The fed tick before t.
Previous(t) == {u \in FedTicks : u < t /\ \A v \in FedTicks : v < t => v <= u}

RankAt(t, s) == Rank(scores[t + 1], s)

In(t, s) == s \in Valid(scores[t + 1])

LaggedRows ==
  {row \in [at : Past, source : Past, symbol : Symbols, side : {"LONG", "SHORT"}] :
     /\ Decision(row.at)
     /\ row.source \in (IF config.lag = 0 THEN {row.at} ELSE Earlier(row.at, config.lag))
     /\ In(row.source, row.symbol) /\ In(row.at, row.symbol)
     /\ RankAt(row.source, row.symbol)
          \in (IF row.side = "LONG" THEN config.long ELSE config.short)}

(* A descent ends at t: from some earlier start on the symbol has a score  *)
(* at every fed tick, its rank never rises, and it has not triggered in    *)
(* between.                                                                *)
DescendsTo(t, s) ==
  \E u \in Past :
    LET path == {v \in FedTicks : u <= v /\ v <= t} IN
    /\ u < t /\ \A v \in path : In(v, s)
    /\ RankAt(u, s) >= config.start
    /\ \A v, w \in path : v < w => RankAt(w, s) <= RankAt(v, s)
    /\ config.equal = "reset" =>
         \A v, w \in path : v < w => RankAt(w, s) # RankAt(v, s)
    /\ \A v \in path \ {u, t} : ~(Decision(v) /\ RankAt(v, s) = config.entry)

DescentRows ==
  {[at |-> t, source |-> t, symbol |-> s, side |-> "LONG"] :
     <<t, s>> \in {p \in Past \X Symbols :
       Decision(p[1]) /\ In(p[1], p[2]) /\ RankAt(p[1], p[2]) = config.entry
         /\ DescendsTo(p[1], p[2])}}

CrossoverRows ==
  {[at |-> t, source |-> None, symbol |-> s, side |-> side] :
     <<t, s, side>> \in {p \in Past \X Symbols \X {"LONG", "FLAT"} :
       \E u \in Previous(p[1]) :
         /\ In(u, p[2]) /\ In(p[1], p[2])
         /\ Crossed(scores[u + 1][p[2]], scores[p[1] + 1][p[2]]) = p[3]}}

-----------------------------------------------------------------------------
(* Types: the buffer holds at most lag snapshots and the state, while the  *)
(* run goes on, at most the rows it may.                                   *)
TypeOK ==
  /\ config \in Configs
  /\ scores \in Seq([Symbols -> Scores \union {None}]) /\ Len(scores) <= Ticks
  /\ config.mode = "rank_set" => Len(state) <= config.lag
  /\ status = "running" =>
       (IF config.mode = "rank_set" THEN Rows(state) ELSE Cardinality(Tracked(state)))
         <= config.rows
  /\ chunk \in 0 .. Now
  /\ status \in {"running", "failed", "disordered"}

(* At a fed tick nobody has a score: the trackers see no snapshot of it    *)
(* and go on as if it had not been.                                        *)
Silent == {t \in FedTicks : Valid(scores[t + 1]) = {}}

\* What a tracker compares at t lies across a silent tick.
AfterSilence(t) ==
  IF config.mode = "factor_crossover" THEN Previous(t) \subseteq Silent
  ELSE \E u \in Silent : u < t

\* Nothing that is defined is missed, and what is selected beyond it comes
\* after a silent tick.
SelectsWhatIs(defined) ==
  /\ defined \subseteq selected
  /\ \A row \in selected \ defined : AfterSilence(row.at)


(* crossover.py:51, "only after a genuine adjacent-score threshold         *)
(* crossing": the score of a decision against that of the tick before, on  *)
(* the clock of the factor, and none when there is a gap between them      *)
(* (docs/acceptance/A30.md:5-8).                                           *)
CrossingsAreAdjacent ==
  config.mode = "factor_crossover" /\ status = "running" =>
    \A row \in selected :
      /\ row.at > 0 /\ In(row.at - 1, row.symbol)
      /\ Crossed(scores[row.at][row.symbol], scores[row.at + 1][row.symbol]) = row.side

(* Every rank wanted at a decision of a finished chunk has exactly one     *)
(* diagnostic row, and the rows that say selected are the selections.      *)
Says(row, reasons) == row.reason \in reasons

DecisionsAreExplained ==
  config.mode = "rank_set" /\ status = "running" =>
    /\ \A t \in 0 .. chunk - 1 : Decision(t) =>
         \A q \in Requests :
           Cardinality({e \in explained : e.at = t /\ <<e.side, e.rank>> = q}) = 1
    /\ Cardinality({e \in explained :
         Says(e, {"SELECTED_CURRENT_RANK", "SELECTED_HISTORICAL_RANK"})})
         = Cardinality(selected)

=============================================================================
