-------------------------- MODULE RiskStateMachine --------------------------
(***************************************************************************)
(* The bounded risk state machine of the event engine                      *)
(* (bfbt/risk/state_machine.py, class RiskStateMachine): its state and one *)
(* action per method.  The caller (V2Engine) owns the clock, the market    *)
(* and the position book and passes them in.                               *)
(*                                                                         *)
(* Prices are integers and distances percentages, so that every trigger    *)
(* level is compared exactly, scaled by 100.  Times count base bars:       *)
(* a bar opened at t closes at t + 1, which is the next bar's open.        *)
(***************************************************************************)
EXTENDS Integers, FiniteSets, Functions

CONSTANTS
  Symbols,             \* contracts
  InitialEquity,       \* capital.initial_equity
  MaxRiskStateRows,    \* performance.max_risk_state_rows
  MaxPendingIntents    \* performance.max_pending_risk_intents

RuleNames == {"stop_loss", "trailing_stop", "take_profit"}

PORTFOLIO_RISK == 100
SYMBOL_RISK    == 200

VARIABLES
  risk,             \* the RiskV2Config of this run, never changed
  riskPositions,    \* _positions: held symbol -> what its exits are measured from
  cooldowns,        \* _cooldowns: symbol -> [trigger_index, release_index]
  pending,          \* _pending: symbol -> the exit waiting for its fill
  evaluationCount,  \* _evaluation_count
  portfolioPeak,    \* _portfolio_peak_equity
  lastCloseTime     \* _last_close_time; 0 before the first evaluation

riskVars == <<riskPositions, cooldowns, pending, evaluationCount,
              portfolioPeak, lastCloseTime>>

Empty == [s \in {} |-> 0]

RiskInit ==
  /\ riskPositions = Empty
  /\ cooldowns = Empty
  /\ pending = Empty
  /\ evaluationCount = 0
  /\ portfolioPeak = InitialEquity
  /\ lastCloseTime = 0

-----------------------------------------------------------------------------
(* Positions as the risk machine sees them.                                *)

Direction(quantity) == IF quantity > 0 THEN "LONG" ELSE "SHORT"

Sign(direction) == IF direction = "LONG" THEN 1 ELSE -1

Best(direction, a, b) == IF Sign(direction) * (a - b) > 0 THEN a ELSE b

(* _sync_positions: a symbol keeps its risk state exactly while it stays   *)
(* held in one direction, as far as two successive evaluations can tell.   *)
Continues(s, book) ==
  /\ s \in DOMAIN riskPositions
  /\ riskPositions[s].direction = Direction(book[s].quantity)

\* Mutant: the extreme restarts from an average entry that moved.
SyncPositionsFromAverage(book) ==
  [s \in DOMAIN book |->
     IF Continues(s, book) /\ riskPositions[s].average = book[s].average
     THEN riskPositions[s]
     ELSE [direction |-> Direction(book[s].quantity),
           average   |-> book[s].average,
           extreme   |-> book[s].average,
           triggers  |-> 0]]

SyncPositions(book) ==
  [s \in DOMAIN book |->
     IF Continues(s, book)
     THEN [riskPositions[s] EXCEPT !.average = book[s].average]
     ELSE [direction |-> Direction(book[s].quantity),
           average   |-> book[s].average,
           extreme   |-> book[s].average,
           triggers  |-> 0]]

-----------------------------------------------------------------------------
(* Triggers.                                                               *)

Level(base, percent, sign) == base * (100 + sign * percent)

TrailingActive(rule, p) ==
  \/ rule.activation = 0
  \/ Sign(p.direction)
       * (100 * p.extreme
            - Level(p.average, rule.activation, Sign(p.direction))) >= 0

Adverse(p, bar) == IF p.direction = "LONG" THEN bar.low ELSE bar.high

Favorable(p, bar) == IF p.direction = "LONG" THEN bar.high ELSE bar.low

(* Whether one exit rule is hit by a complete bar.                         *)
Hit(name, p, bar) ==
  LET rule == risk.symbol_exits[name]
      sign == Sign(p.direction)
      distance == rule.distance[p.direction]
  IN /\ rule.enabled
     /\ \/ /\ name = "stop_loss"
           /\ sign * (100 * Adverse(p, bar)
                        - Level(p.average, distance, -sign)) <= 0
        \/ /\ name = "trailing_stop"
           /\ TrailingActive(rule, p)
           /\ sign * (100 * Adverse(p, bar)
                        - Level(p.extreme, distance, -sign)) <= 0
        \/ /\ name = "take_profit"
           /\ sign * (100 * Favorable(p, bar)
                        - Level(p.average, distance, sign)) >= 0

Hits(p, bar) == {name \in RuleNames : Hit(name, p, bar)}

(* worst_case: the stops come before the profit target.                    *)
WorstHit(hits) ==
  CHOOSE name \in hits :
    \/ name = "stop_loss"
    \/ name = "trailing_stop" /\ "stop_loss" \notin hits
    \/ hits = {"take_profit"}

PortfolioTriggered(equity) ==
  LET exits == risk.portfolio_exits
  IN \/ /\ exits.stop_loss > 0
        /\ 100 * equity <= Level(InitialEquity, exits.stop_loss, -1)
     \/ /\ exits.max_drawdown > 0
        /\ 100 * equity <= Level(portfolioPeak, exits.max_drawdown, -1)
     \/ /\ exits.take_profit > 0
        /\ 100 * equity >= Level(InitialEquity, exits.take_profit, 1)

-----------------------------------------------------------------------------
(* evaluate: one complete risk bar per held symbol, then the exits it      *)
(* triggers, queued for the fill at the bar's close time.                  *)

(* after_cooldown forgets a released cooldown of a symbol no longer held.  *)
LiveCooldowns(book) ==
  {s \in DOMAIN cooldowns :
     ~ /\ risk.reentry_policy = "after_cooldown"
       /\ cooldowns[s].release_index <= evaluationCount
       /\ s \notin DOMAIN book}

MayTrigger(s, p) ==
  /\ s \notin DOMAIN pending
  /\ risk.max_triggers = 0 \/ p.triggers < risk.max_triggers

SymbolExits(bars, book) ==
  {s \in DOMAIN book :
     LET p == SyncPositions(book)[s]
     IN MayTrigger(s, p) /\ Hits(p, bars[s]) # {}}

PortfolioExit(book, equity) == PortfolioTriggered(equity) /\ DOMAIN book # {}

\* Mutant: a portfolio trigger closes only the symbols whose rule was hit.
ExitingHitSymbols(bars, book, equity) == SymbolExits(bars, book)

(* The symbols that get an exit of this evaluation.                        *)
Exiting(bars, book, equity) ==
  IF PortfolioExit(book, equity) THEN DOMAIN book ELSE SymbolExits(bars, book)

(* _queue: an intent already waiting wins unless the new one has priority. *)
Queued(s, intent) ==
  IF s \in DOMAIN pending /\ pending[s].priority <= intent.priority
  THEN pending[s]
  ELSE intent

ExitIntent(s, bars, book, equity, closedAt) ==
  LET rule == risk.symbol_exits[
                WorstHit(Hits(SyncPositions(book)[s], bars[s]))]
  IN IF PortfolioExit(book, equity)
     THEN [fill_time |-> closedAt, priority |-> PORTFOLIO_RISK,
           reduce |-> 100]
     ELSE [fill_time |-> closedAt, priority |-> SYMBOL_RISK,
           reduce |-> rule.reduce]

(* The errors evaluate raises; each one ends the run.                      *)
Undrained(openedAt) ==
  \E s \in DOMAIN pending : pending[s].fill_time <= openedAt

NotContiguous(openedAt) == lastCloseTime # 0 /\ openedAt # lastCloseTime

StateOverBudget(book) ==
  Cardinality(DOMAIN book \cup LiveCooldowns(book)) > MaxRiskStateRows

PendingOverBudget(bars, book, equity) ==
  Cardinality(DOMAIN pending \cup Exiting(bars, book, equity))
    > MaxPendingIntents

IntrabarConflict(bars, book, equity) ==
  /\ risk.intrabar_conflict = "error"
  /\ ~PortfolioExit(book, equity)
  /\ \E s \in SymbolExits(bars, book) :
       Cardinality(Hits(SyncPositions(book)[s], bars[s])) > 1

Evaluate(bars, book, equity, closedAt) ==
  LET exiting == Exiting(bars, book, equity)
      symbolExit(s) == s \in exiting /\ ~PortfolioExit(book, equity)
      synced == SyncPositions(book)
      index == evaluationCount + 1
      hold == IF risk.cooldown_bars > 1 THEN risk.cooldown_bars ELSE 1
  IN /\ riskPositions' =
          [s \in DOMAIN book |->
             [synced[s] EXCEPT
                !.triggers = IF symbolExit(s) THEN @ + 1 ELSE @,
                !.extreme = Best(synced[s].direction, @,
                                 Favorable(synced[s], bars[s]))]]
     /\ pending' =
          [s \in DOMAIN pending \cup exiting |->
             IF s \in exiting
             THEN Queued(s, ExitIntent(s, bars, book, equity, closedAt))
             ELSE pending[s]]
     /\ cooldowns' =
          [s \in LiveCooldowns(book) \cup exiting |->
             IF s \in exiting
             THEN [trigger_index |-> index, release_index |-> index + hold]
             ELSE cooldowns[s]]
     /\ portfolioPeak' = IF equity > portfolioPeak THEN equity
                                                   ELSE portfolioPeak
     /\ evaluationCount' = index
     /\ lastCloseTime' = closedAt

-----------------------------------------------------------------------------
(* drain_due: the exits that fill at one time, and what they leave behind. *)

Overdue(time) == \E s \in DOMAIN pending : pending[s].fill_time < time

Due(time) == {s \in DOMAIN pending : pending[s].fill_time = time}

\* Mutant: every exit sells.
ExitDeltaSelling(s, book) ==
  IF s \in DOMAIN book
  THEN - ((Sign(Direction(book[s].quantity)) * book[s].quantity
             * pending[s].reduce) \div 100)
  ELSE 0

(* The quantity an exit trades; nothing when the position is gone.         *)
ExitDelta(s, book) ==
  IF s \in DOMAIN book
  THEN LET sign == Sign(Direction(book[s].quantity))
       IN - sign * ((sign * book[s].quantity * pending[s].reduce) \div 100)
  ELSE 0

\* Mutant: a drained exit stays in the queue.
DrainDueKeeping(time) == UNCHANGED pending

DrainDue(time) ==
  pending' = Restrict(pending, DOMAIN pending \ Due(time))

-----------------------------------------------------------------------------
(* reentry_decision, for the candidates of one scheduled rebalance: a      *)
(* cooldown that allows its symbol is forgotten, whatever happens next.    *)

\* Mutant: the cooldown is released one evaluation early.
ReentryAllowedEarly(s) ==
  \/ s \notin DOMAIN cooldowns
  \/ evaluationCount + 1 >= cooldowns[s].release_index

ReentryAllowed(s) ==
  \/ s \notin DOMAIN cooldowns
  \/ /\ risk.reentry_policy = "next_scheduled_rebalance"
     /\ evaluationCount > cooldowns[s].trigger_index
  \/ /\ risk.reentry_policy = "after_cooldown"
     /\ evaluationCount >= cooldowns[s].release_index

ReentryDecisions(candidates) ==
  cooldowns' = Restrict(cooldowns,
                 {s \in DOMAIN cooldowns :
                    s \notin candidates \/ ~ReentryAllowed(s)})

-----------------------------------------------------------------------------
(* checkpoint and _restore: the tables of a chunk's last state hold one    *)
(* row per symbol; the next chunk keys them by symbol again, under the     *)
(* same budgets as the evaluations.                                        *)

TableOf(state) == {[symbol |-> s, row |-> state[s]] : s \in DOMAIN state}

SymbolsOf(table) == {entry.symbol : entry \in table}

Keyed(table) ==
  [s \in SymbolsOf(table) |-> (CHOOSE entry \in table : entry.symbol = s).row]

RiskCheckpoint ==
  [positions |-> TableOf(riskPositions), cooldowns |-> TableOf(cooldowns),
   pending |-> TableOf(pending), evaluation_count |-> evaluationCount,
   last_close_time |-> lastCloseTime, portfolio_peak |-> portfolioPeak]

\* Mutant: a symbol with both a position and a cooldown counts twice.
RiskStateRowsCountedTwice(checkpoint) ==
  Cardinality(checkpoint.positions) + Cardinality(checkpoint.cooldowns)

RiskStateRows(checkpoint) ==
  Cardinality(SymbolsOf(checkpoint.positions) \cup SymbolsOf(checkpoint.cooldowns))

CheckpointOverBudget(checkpoint) ==
  \/ RiskStateRows(checkpoint) > MaxRiskStateRows
  \/ Cardinality(checkpoint.pending) > MaxPendingIntents

RestoreRisk(checkpoint) ==
  /\ riskPositions' = Keyed(checkpoint.positions)
  /\ cooldowns' = Keyed(checkpoint.cooldowns)
  /\ pending' = Keyed(checkpoint.pending)
  /\ evaluationCount' = checkpoint.evaluation_count
  /\ lastCloseTime' = checkpoint.last_close_time
  /\ portfolioPeak' = checkpoint.portfolio_peak
=============================================================================
