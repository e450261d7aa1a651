------------------------------ MODULE V2Engine ------------------------------
(***************************************************************************)
(* The V2 event loop (bfbt/engine/v2.py, _run_v2_slice): one base bar is   *)
(* processed in fixed phases that call the risk state machine, the         *)
(* position ledger (bfbt/portfolio/instructions.py) and the arbitrator     *)
(* (bfbt/engine/events.py).  A run may be cut into chunks between any two  *)
(* bars of the risk clock; the next chunk restarts from the checkpoint.    *)
(*                                                                         *)
(* Abstractions: one price source values, triggers and fills; a position   *)
(* is a whole number of units, and a signal asks for Unit of them; no      *)
(* exposure limit is configured (PositionEngine has those); equity is any  *)
(* member of Equities, since funding moves it freely.                      *)
(***************************************************************************)
EXTENDS RiskStateMachine

CONSTANTS
  Bars,          \* the OHLC records a symbol's bar is drawn from
  Equities,      \* the account equities an evaluation may see
  Unit,          \* the quantity one signal asks for
  MaxQuantity,   \* bound: signals that would hold more are not generated
  EndTime,       \* bound: number of base bars in the run
  RiskEvery,     \* risk.evaluation_interval in base bars
  RiskConfigs,   \* the risk and portfolio sections a run may
  Portfolios     \*   be configured with

ASSUME ClockAssumption ==
  /\ EndTime \in Nat
  /\ RiskEvery \in Nat \ {0}

(* Prices are integers, there are finitely many contracts, and a signal    *)
(* asks for something.                                                     *)
ASSUME MarketAssumption ==
  /\ Bars \subseteq [open : Int, high : Int, low : Int, close : Int]
  /\ IsFiniteSet(Symbols)
  /\ Unit \in Nat \ {0} /\ MaxQuantity \in Nat

(* What the validators of the risk section let through.                    *)
LegalRule(rule) ==
  /\ rule.enabled => \A d \in {"LONG", "SHORT"} : rule.distance[d] \in 1 .. 100
  /\ rule.reduce \in 1 .. 100
  /\ rule.activation \in 0 .. 100

LegalSymbolExits(exits) ==
  /\ \A name \in RuleNames : LegalRule(exits[name])
  /\ exits.stop_loss.activation = 0 /\ exits.take_profit.activation = 0
  /\ exits.trailing_stop.activation # 0 => exits.trailing_stop.enabled

LegalPortfolioExits(exits) ==
  exits.stop_loss \in 0 .. 100 /\ exits.max_drawdown \in 0 .. 100 /\ exits.take_profit \in Nat

LegalRisk(r) ==
  /\ r.fill_model \in {"next_bar_open", "same_bar_trigger"}
  /\ r.intrabar_conflict \in {"worst_case", "error"}
  /\ r.reentry_policy \in {"next_scheduled_rebalance", "after_cooldown"}
  /\ r.cooldown_bars \in Nat /\ r.max_triggers \in Nat
  /\ LegalSymbolExits(r.symbol_exits) /\ LegalPortfolioExits(r.portfolio_exits)

LegalBudgets == MaxRiskStateRows \in Nat \ {0} /\ MaxPendingIntents \in Nat \ {0}

ASSUME ConfigAssumption == LegalBudgets /\ \A r \in RiskConfigs : LegalRisk(r)

VARIABLES
  portfolio,  \* the PortfolioV2Config of this run, never changed
  book,       \* held symbol -> [quantity, average] of the position ledger
  market,     \* trade_by_open[opened_at]: symbol -> bar
  window,     \* the risk bar under construction: symbol -> [low, high]
  marks,      \* last_close_marks of the held symbols
  now,        \* opened_at
  phase,      \* where the loop body stands
  failure,    \* the exception that ended the run
  riskFills,  \* symbol -> quantity its due exit traded at this open
  trades,     \* trade_rows whose fill_time has not passed
  chunkStart, \* opened_at of the first bar of this chunk
  ledger      \* history: per symbol, the sum of its trade rows

loopVars == <<market, window, marks, now, failure, chunkStart>>
vars == <<risk, portfolio, book, phase, riskFills, trades, riskVars,
          loopVars, ledger>>

Held == DOMAIN book

closedAt == now + 1

RiskClockCloses == closedAt % RiskEvery = 0

Init ==
  /\ risk \in RiskConfigs
  /\ portfolio \in Portfolios
  /\ RiskInit
  /\ book = Empty
  /\ market = Empty
  /\ window = Empty
  /\ marks = Empty
  /\ now = 0
  /\ phase = "load"
  /\ failure = "none"
  /\ riskFills = Empty
  /\ trades = {}
  /\ chunkStart = 0
  /\ ledger = [s \in Symbols |-> 0]

Fail(cause) ==
  /\ phase' = "failed"
  /\ failure' = cause

-----------------------------------------------------------------------------
(* The position ledger.                                                    *)

Quantity(s) == IF s \in Held THEN book[s].quantity ELSE 0

Magnitude(q) == IF q < 0 THEN -q ELSE q

(* updated_average_entry                                                   *)
AverageEntry(s, new, price) ==
  LET old == Quantity(s)
  IN IF old * new <= 0 THEN price
     ELSE IF Magnitude(new) <= Magnitude(old) THEN book[s].average
     ELSE (Magnitude(old) * book[s].average
             + (Magnitude(new) - Magnitude(old)) * price) \div Magnitude(new)

(* What leaves a position to hold.                                         *)
Holds(quantity) == quantity # 0

(* _execute, for every symbol of delta at its price.                       *)
Executed(delta, price) ==
  LET quantity(s) ==
        Quantity(s) + (IF s \in DOMAIN delta THEN delta[s] ELSE 0)
  IN [s \in {t \in Held \cup DOMAIN delta : Holds(quantity(t))} |->
        IF s \in Held /\ quantity(s) = Quantity(s)
        THEN book[s]
        ELSE [quantity |-> quantity(s),
              average  |-> AverageEntry(s, quantity(s), price[s])]]

(* The symbols whose position begins with this step.                       *)
Opened(s) ==
  /\ s \in DOMAIN book'
  /\ s \in Held => book[s].quantity * book'[s].quantity < 0

-----------------------------------------------------------------------------
(* The market snapshot of the next base bar.                               *)

OpenMarks ==
  [s \in DOMAIN market \cup DOMAIN marks |->
     IF s \in DOMAIN market THEN market[s].open ELSE marks[s]]

CloseMarks ==
  [s \in DOMAIN market \cup DOMAIN marks |->
     IF s \in DOMAIN market THEN market[s].close ELSE marks[s]]

(* A resampled risk bar needs every base bar of its interval               *)
(* (_collect_bars refuses incomplete bars), so presence is per interval.   *)
Listed(present) == now % RiskEvery # 0 => present = DOMAIN window

Lower(a, b) == IF a < b THEN a ELSE b
Higher(a, b) == IF a > b THEN a ELSE b

Extended(bars) ==
  IF now % RiskEvery = 0
  THEN [s \in DOMAIN bars |-> [low |-> bars[s].low, high |-> bars[s].high]]
  ELSE [s \in DOMAIN bars |->
          [low  |-> Lower(window[s].low, bars[s].low),
           high |-> Higher(window[s].high, bars[s].high)]]

LoadBar ==
  /\ phase = "load"
  /\ now < EndTime
  /\ \E present \in SUBSET Symbols \ {{}} : \E bars \in [present -> Bars] :
       /\ Listed(present)
       /\ market' = bars
       /\ window' = Extended(bars)
       /\ IF ~ (Held \subseteq present \cup DOMAIN marks)
          THEN Fail("unvalued position")
          ELSE IF ~ (DOMAIN pending \subseteq present)
          THEN Fail("due exit without a bar")
          ELSE phase' = "drain" /\ UNCHANGED failure
  /\ UNCHANGED <<risk, portfolio, book, riskFills, trades, riskVars,
                 marks, now, chunkStart, ledger>>

(* No symbol has a bar at this time: the loop never sees it.               *)
SkipBar ==
  /\ phase = "load"
  /\ now + 1 < EndTime
  /\ now % RiskEvery = 0
  /\ now' = now + RiskEvery
  /\ UNCHANGED <<risk, portfolio, book, phase, riskFills, trades, riskVars,
                 market, window, marks, failure, chunkStart, ledger>>

(* drain_due refuses an exit whose fill time has passed.                   *)
DrainOverdue ==
  /\ phase \in {"drain", "fill"}
  /\ Overdue(IF phase = "drain" THEN now ELSE closedAt)
  /\ Fail("overdue exit")
  /\ UNCHANGED <<risk, portfolio, book, riskFills, trades, riskVars, market,
                 window, marks, now, chunkStart, ledger>>

(* Exits due at this open fill before anything else trades.                *)
DrainAtOpen ==
  /\ phase = "drain"
  /\ ~Overdue(now)
  /\ riskFills' = [s \in Due(now) |-> ExitDelta(s, book)]
  /\ book' = Executed(riskFills', OpenMarks)
  /\ DrainDue(now)
  /\ phase' = "rebalance"
  /\ UNCHANGED <<risk, portfolio, trades, riskPositions, cooldowns,
                 evaluationCount, portfolioPeak, lastCloseTime, loopVars,
                 ledger>>

-----------------------------------------------------------------------------
(* A scheduled rebalance.  A signal maps each selected symbol to the       *)
(* direction asked for: 1 long, -1 short, 0 flat.                          *)

Replacing == portfolio.holding = "single_position_replace"

TargetWeight == portfolio.sizing = "target_weight"

Signals == UNION {[chosen -> {-1, 0, 1}] : chosen \in SUBSET Symbols}

(* In target_weight mode every held symbol not selected gets target 0.     *)
Candidates(signal) ==
  IF TargetWeight /\ DOMAIN signal # {}
  THEN DOMAIN signal \cup Held
  ELSE DOMAIN signal

Wanted(signal, s) == IF s \in DOMAIN signal THEN signal[s] ELSE 0

ClosingTarget(signal, s) == TargetWeight /\ Wanted(signal, s) = 0

CoolingDown(signal, s) == ~ReentryAllowed(s) /\ ~ClosingTarget(signal, s)

Blocked(signal, s) ==
  \/ s \notin DOMAIN market
  \/ s \in DOMAIN riskFills
  \/ CoolingDown(signal, s)

Allowed(signal) == {s \in Candidates(signal) : ~Blocked(signal, s)}

(* _reverse_legs: the quantity after a base-sized signal.                  *)
AfterSignal(s, side) ==
  LET old == Quantity(s)
      base == side * Unit
  IN IF side = 0 THEN 0
     ELSE IF old * side >= 0 THEN old + base
     ELSE IF portfolio.reverse_policy = "flatten_only" THEN 0
     ELSE IF portfolio.reverse_policy = "flatten_then_open" THEN base
     ELSE old + base

(* The positions closed to make room for the signal.                       *)
Replaced(signal) ==
  IF /\ Replacing
     /\ \E s \in Allowed(signal) :
          s \notin Held \/ portfolio.existing_signal = "add"
  THEN Held \ Allowed(signal)
  ELSE {}

(* process: the quantity every symbol it touches ends with.                *)
Processed(signal) ==
  LET chosen == Allowed(signal)
      replaced == Replaced(signal)
      ignored ==
        IF Replacing /\ portfolio.existing_signal = "ignore"
        THEN chosen \cap Held
        ELSE {}
  IN [s \in (chosen \ ignored) \cup replaced |->
        IF s \in replaced THEN 0
        ELSE IF TargetWeight THEN Wanted(signal, s) * Unit
        ELSE AfterSignal(s, Wanted(signal, s))]

(* The intents that can lose the contest of their symbol although process  *)
(* executed them.  A cooldown row makes every scheduled intent of its      *)
(* symbol ineligible; against a row for a missing bar the order of the     *)
(* hashed instruction ids decides.                                         *)
Suppressions(signal) ==
  LET listed == Candidates(signal) \cap DOMAIN market
      barless == Candidates(signal) \ DOMAIN market
  IN {{s \in listed : CoolingDown(signal, s)} \cup lost :
        lost \in SUBSET barless}

\* Mutant: the winner is chosen per fill time, not per fill time and symbol.
ArbitratedPerTime(traded, suppressed) ==
  IF riskFills # Empty THEN riskFills ELSE traded

(* arbitrate: a risk exit beats a scheduled intent for the same symbol and *)
(* fill time; what wins and trades becomes a trade row.                    *)
Arbitrated(traded, suppressed) ==
  [s \in DOMAIN riskFills \cup (DOMAIN traded \ suppressed) |->
     IF s \in DOMAIN riskFills THEN riskFills[s] ELSE traded[s]]

Row(s, fillTime, delta, atClose) ==
  [symbol |-> s, fill_time |-> fillTime, delta |-> delta,
   at_close |-> atClose]

\* Mutant: an intent that trades nothing becomes a trade row too.
RowsWithZeros(accepted, fillTime, atClose) ==
  {Row(s, fillTime, accepted[s], atClose) : s \in DOMAIN accepted}

Rows(accepted, fillTime, atClose) ==
  {Row(s, fillTime, accepted[s], atClose) :
     s \in {t \in DOMAIN accepted : accepted[t] # 0}}

Booked(accepted) ==
  [s \in Symbols |->
     ledger[s] + IF s \in DOMAIN accepted THEN accepted[s] ELSE 0]

(* process takes one signal at a time when positions replace each other.   *)
RefuseSignals ==
  /\ phase = "rebalance"
  /\ Replacing
  /\ \E signal \in Signals :
       /\ Cardinality(Allowed(signal)) > 1
       /\ ReentryDecisions(Candidates(signal))
  /\ Fail("more than one signal")
  /\ UNCHANGED <<risk, portfolio, book, riskFills, trades, riskPositions,
                 pending, evaluationCount, portfolioPeak, lastCloseTime,
                 market, window, marks, now, chunkStart, ledger>>

Rebalance ==
  /\ phase = "rebalance"
  /\ \E signal \in Signals :
       LET wanted == Processed(signal)
           traded == [s \in DOMAIN wanted |-> wanted[s] - Quantity(s)]
       IN /\ Replacing => Cardinality(Allowed(signal)) <= 1
          /\ \A s \in DOMAIN wanted : Magnitude(wanted[s]) <= MaxQuantity
          /\ book' = Executed(traded, OpenMarks)
          /\ ReentryDecisions(Candidates(signal))
          /\ \E suppressed \in Suppressions(signal) :
               LET accepted == Arbitrated(traded, suppressed)
               IN /\ trades' = trades \cup Rows(accepted, now, FALSE)
                  /\ ledger' = Booked(accepted)
  /\ phase' = "close"
  /\ UNCHANGED <<risk, portfolio, riskFills, riskPositions, pending,
                 evaluationCount, portfolioPeak, lastCloseTime, loopVars>>

-----------------------------------------------------------------------------
(* The end of the bar: the account and, when the risk clock closes, the    *)
(* risk evaluation.                                                        *)

(* A held symbol without a risk bar gets a flat bar at its carried close.  *)
RiskBars ==
  [s \in DOMAIN window \cup Held |->
     IF s \in DOMAIN window THEN window[s]
     ELSE [low |-> CloseMarks[s], high |-> CloseMarks[s]]]

EvaluationFailure(equity) ==
  IF NotContiguous(closedAt - RiskEvery) THEN "risk clock gap"
  ELSE IF Undrained(closedAt - RiskEvery) THEN "undrained exit"
  ELSE IF StateOverBudget(book) THEN "risk budget"
  ELSE IF IntrabarConflict(RiskBars, book, equity) THEN "intrabar conflict"
  ELSE IF PendingOverBudget(RiskBars, book, equity) THEN "risk budget"
  ELSE "none"

CloseBar ==
  /\ phase = "close"
  /\ \E equity \in Equities :
       IF equity <= 0
       THEN Fail("equity") /\ UNCHANGED riskVars
       ELSE IF ~RiskClockCloses
       THEN phase' = "report" /\ UNCHANGED <<failure, riskVars>>
       ELSE IF EvaluationFailure(equity) # "none"
       THEN Fail(EvaluationFailure(equity)) /\ UNCHANGED riskVars
       ELSE /\ Evaluate(RiskBars, book, equity, closedAt)
            /\ phase' = IF risk.fill_model = "same_bar_trigger"
                        THEN "fill" ELSE "report"
            /\ UNCHANGED failure
  /\ UNCHANGED <<risk, portfolio, book, riskFills, trades, market, window,
                 marks, now, chunkStart, ledger>>

(* same_bar_trigger: the exits just triggered fill at this bar's close.    *)
FillSameBar ==
  /\ phase = "fill"
  /\ ~Overdue(closedAt)
  /\ LET exits == [s \in Due(closedAt) |-> ExitDelta(s, book)]
     IN /\ book' = Executed(exits, CloseMarks)
        /\ trades' = trades \cup Rows(exits, closedAt, TRUE)
        /\ ledger' = Booked(exits)
  /\ DrainDue(closedAt)
  /\ phase' = "report"
  /\ UNCHANGED <<risk, portfolio, riskFills, riskPositions, cooldowns,
                 evaluationCount, portfolioPeak, lastCloseTime, loopVars>>

(* Trade rows that share the key link_trades joins on.                     *)
Ambiguous ==
  {row \in trades :
     \E other \in trades \ {row} :
       other.symbol = row.symbol /\ other.fill_time = row.fill_time}

\* Mutant: only the symbols that traded in this bar.
MarksOfTraded == Restrict(CloseMarks, Held \cap DOMAIN market)

(* The closes carried to the next bar: those of the held symbols.          *)
CarriedMarks == Restrict(CloseMarks, Held \cap DOMAIN CloseMarks)

(* The bar's cost and return rows are written and the marks carried; of    *)
(* the trade rows only those a later step still reads are kept here.       *)
ReportBar ==
  /\ phase = "report"
  /\ marks' = CarriedMarks
  /\ trades' = {row \in trades : row.fill_time > now} \cup Ambiguous
  /\ riskFills' = Empty
  /\ market' = Empty
  /\ now' = closedAt
  /\ phase' = "load"
  /\ UNCHANGED <<risk, portfolio, book, riskVars, window, failure, chunkStart,
                 ledger>>

(* The state files of a committed chunk: scalars as JSON objects, tables   *)
(* as parquet.  What a bar leaves behind is all in them.                   *)
WriteExecutionCheckpoint ==
  LET risks == RiskCheckpoint
  IN [engine |-> TableOf(marks),
      position_rows |-> TableOf(book),
      risk |-> [evaluation_count |-> risks.evaluation_count,
                last_close_time  |-> risks.last_close_time,
                portfolio_peak   |-> risks.portfolio_peak],
      risk_positions |-> risks.positions,
      risk_cooldowns |-> risks.cooldowns,
      risk_pending   |-> risks.pending]

(* The execution checkpoint those files hold.                              *)
ReadExecutionCheckpoint(state) ==
  [position |-> Keyed(state.position_rows),
   risk |-> [positions |-> state.risk_positions,
             cooldowns |-> state.risk_cooldowns,
             pending   |-> state.risk_pending,
             evaluation_count |-> state.risk.evaluation_count,
             last_close_time  |-> state.risk.last_close_time,
             portfolio_peak   |-> state.risk.portfolio_peak],
   last_close_marks |-> Keyed(state.engine)]

(* The next chunk starts from the checkpoint: state is restored, the rows  *)
(* of the slice are not.                                                   *)
Continue(checkpoint) ==
  /\ RestoreRisk(checkpoint.risk)
  /\ book' = checkpoint.position
  /\ marks' = checkpoint.last_close_marks
  /\ chunkStart' = now
  /\ trades' = {}
  /\ UNCHANGED <<phase, failure>>

(* A chunk ends here; its rows are linked, then the next one starts.       *)
StartChunk ==
  /\ phase = "load"
  /\ chunkStart < now
  /\ now < EndTime
  /\ now % RiskEvery = 0
  /\ LET checkpoint == ReadExecutionCheckpoint(WriteExecutionCheckpoint)
     IN IF Ambiguous = {} /\ ~CheckpointOverBudget(checkpoint.risk)
        THEN Continue(checkpoint)
        ELSE /\ Fail(IF Ambiguous # {} THEN "ambiguous fill" ELSE "checkpoint budget")
             /\ UNCHANGED <<book, marks, chunkStart, trades, riskVars>>
  /\ UNCHANGED <<risk, portfolio, riskFills, market, window, now, ledger>>

(* finish: an exit still waiting is reported END_OF_DATA_UNFILLED.  The    *)
(* rows of a slice are linked to their instructions when it ends.          *)
Finish ==
  /\ phase = "load"
  /\ now >= EndTime
  /\ IF Ambiguous # {}
     THEN Fail("ambiguous fill")
     ELSE IF evaluationCount = 0
     THEN Fail("no risk snapshot")
     ELSE phase' = "finished" /\ UNCHANGED failure
  /\ UNCHANGED <<risk, portfolio, book, riskFills, trades, riskVars, market,
                 window, marks, now, chunkStart, ledger>>

Next ==
  \/ LoadBar
  \/ SkipBar
  \/ DrainOverdue
  \/ DrainAtOpen
  \/ Rebalance
  \/ RefuseSignals
  \/ CloseBar
  \/ FillSameBar
  \/ ReportBar
  \/ StartChunk
  \/ Finish

Spec == Init /\ [][Next]_vars

-----------------------------------------------------------------------------
(* Types.                                                                  *)

Phases == {"load", "drain", "rebalance", "close", "fill", "report",
           "finished", "failed"}

(* Every variable keeps its type; a held position is never of size 0.      *)
TypeOK ==
  /\ risk \in RiskConfigs /\ portfolio \in Portfolios
  /\ Held \subseteq Symbols
  /\ \A s \in Held : book[s].quantity \in Int \ {0} /\ book[s].average \in Int
  /\ DOMAIN riskPositions \subseteq Symbols
  /\ DOMAIN pending \subseteq Symbols
  /\ \A s \in DOMAIN pending :
       pending[s].priority \in {PORTFOLIO_RISK, SYMBOL_RISK}
  /\ DOMAIN cooldowns \subseteq Symbols
  /\ \A s \in DOMAIN cooldowns :
       cooldowns[s].trigger_index < cooldowns[s].release_index
  /\ evaluationCount \in Nat /\ now \in Nat /\ phase \in Phases
  /\ \A row \in trades : row.symbol \in Symbols

-----------------------------------------------------------------------------
(* Safety.                                                                 *)

(* The trade rows explain the book: no position changes without one.       *)
(* v2_design.md section 9 calls trades the only fact table of fills.       *)
BookIsSumOfTrades ==
  phase \notin {"rebalance"} =>
    \A s \in Symbols : ledger[s] = Quantity(s)

(* The same where positions do not replace each other: a position closed   *)
(* to make room can lose its row to a blocked intent of its own contract.  *)
TradesExplainBook == ~Replacing => BookIsSumOfTrades

(* Between the evaluation that queues an exit and its fill, the position   *)
(* is still there and its cooldown counts from that very evaluation: no    *)
(* rebalance can slip in between and no exit is suppressed for nothing.    *)
PendingExitsAreLive ==
  \A s \in DOMAIN pending :
    /\ s \in Held
    /\ s \in DOMAIN cooldowns
    /\ cooldowns[s].trigger_index = evaluationCount
    /\ pending[s].fill_time = lastCloseTime

(* A portfolio exit waits for every position of the book, not for some.    *)
PortfolioExitCoversBook ==
  (\E s \in DOMAIN pending : pending[s].priority = PORTFOLIO_RISK)
    => \A s \in Held : s \in DOMAIN pending /\ pending[s].reduce = 100

(* A held position can always be valued at the next bar, traded or not,    *)
(* in the first bar of a chunk as in any other.                            *)
HeldPositionsHaveMarks == phase = "load" => Held \subseteq DOMAIN marks

(* The guards against the loop's own misuse of the risk machine never      *)
(* trip, and a chunk accepts whatever state its predecessor was allowed to *)
(* leave: what can end a run is its input.                                 *)
FailsOnlyOnInput ==
  failure \notin {"unvalued position", "undrained exit", "ambiguous fill",
                  "checkpoint budget"}

(* A risk exit only ever shrinks the position it was raised for: whatever  *)
(* traded since the trigger, it neither grows nor turns one around.        *)
ExitsOnlyShrink ==
  [][\A s \in Symbols :
       phase \in {"drain", "fill"} /\ Quantity(s)' # Quantity(s) =>
         /\ s \in DOMAIN pending
         /\ Quantity(s)' * Quantity(s) >= 0
         /\ Magnitude(Quantity(s)') < Magnitude(Quantity(s))
    ]_vars

(* A confirmed favourable extreme never retreats while the position stays, *)
(* whatever is added to it or taken off it (A16.md section 3).             *)
TrailingNeverRetreats ==
  [][\A s \in DOMAIN riskPositions \cap DOMAIN riskPositions' :
       LET before == riskPositions[s]
           after == riskPositions'[s]
       IN before.direction = after.direction =>
            Best(after.direction, after.extreme, before.extreme)
              = after.extreme]_vars

(* A contract that an exit took out of the book is not entered again until *)
(* its reentry policy allows it, counted from its last exit.               *)
ReentryRespectsCooldown ==
  [][\A s \in Symbols :
       Opened(s) /\ s \in DOMAIN cooldowns =>
         IF risk.reentry_policy = "after_cooldown"
         THEN evaluationCount >= cooldowns[s].trigger_index + risk.cooldown_bars
              /\ evaluationCount > cooldowns[s].trigger_index
         ELSE evaluationCount > cooldowns[s].trigger_index]_vars
=============================================================================
