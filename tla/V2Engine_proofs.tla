-------------------------- MODULE V2Engine_proofs --------------------------
(***************************************************************************)
(* Proofs about V2Engine, for every set of contracts and configurations,   *)
(* every market and every length of run.                                   *)
(*                                                                         *)
(* What keeps a queued exit and its position together is a matter of time  *)
(* alone: an exit is due at the close of the evaluation that queued it,    *)
(* and nothing trades between that moment and the drain of that moment.    *)
(***************************************************************************)
EXTENDS V2Engine, FiniteSetTheorems, TLAPS

NothingPending == DOMAIN pending = {}

(* Where the loop body stands, by the clock of the risk machine: exits are *)
(* drained before anything else trades, so the phases that trade or        *)
(* evaluate find none.                                                     *)
DrainedInTime ==
  /\ phase \in {"load", "drain"} => lastCloseTime <= now
  /\ phase \in {"rebalance", "close"} =>
       lastCloseTime <= now /\ NothingPending
  /\ phase = "fill" => lastCloseTime = closedAt
  /\ phase = "report" => lastCloseTime <= closedAt

Clock ==
  /\ now \in Nat
  /\ lastCloseTime \in Nat
  /\ evaluationCount \in Nat

Inv ==
  /\ Clock
  /\ DrainedInTime
  /\ PendingExitsAreLive
  /\ PortfolioExitCoversBook

-----------------------------------------------------------------------------
(* A state table keyed by symbol again is the state it was written from.   *)
LEMMA KeyedTable ==
  ASSUME NEW state
  PROVE  /\ DOMAIN Keyed(TableOf(state)) = DOMAIN state
         /\ \A s \in DOMAIN state : Keyed(TableOf(state))[s] = state[s]
<1> DEFINE table == TableOf(state)
<1>1. SymbolsOf(table) = DOMAIN state
  <2>1. ASSUME NEW s \in DOMAIN state PROVE s \in SymbolsOf(table)
    <3>1. [symbol |-> s, row |-> state[s]] \in table
      BY DEF TableOf
    <3>2. [symbol |-> s, row |-> state[s]].symbol = s
      OBVIOUS
    <3> QED
      BY <3>1, <3>2 DEF SymbolsOf
  <2>2. ASSUME NEW s \in SymbolsOf(table) PROVE s \in DOMAIN state
    BY DEF SymbolsOf, TableOf
  <2> QED
    BY <2>1, <2>2
<1>2. ASSUME NEW s \in DOMAIN state
      PROVE  (CHOOSE entry \in table : entry.symbol = s).row = state[s]
  <2>1. [symbol |-> s, row |-> state[s]] \in table
    BY <1>2 DEF TableOf
  <2>2. \A entry \in table : entry.symbol = s => entry.row = state[s]
    BY DEF TableOf
  <2>3. \E entry \in table : entry.symbol = s
    BY <2>1
  <2>4. LET chosen == CHOOSE entry \in table : entry.symbol = s
        IN chosen \in table /\ chosen.symbol = s
    BY <2>3
  <2> QED
    BY <2>2, <2>4
<1> QED
  BY <1>1, <1>2 DEF Keyed

(* What the next chunk starts from is what the last one ended with.        *)
LEMMA RestoredState ==
  ASSUME StartChunk
  PROVE  /\ DOMAIN pending' = DOMAIN pending
         /\ \A s \in DOMAIN pending : pending'[s] = pending[s]
         /\ DOMAIN cooldowns' = DOMAIN cooldowns
         /\ \A s \in DOMAIN cooldowns : cooldowns'[s] = cooldowns[s]
         /\ DOMAIN book' = DOMAIN book
         /\ \A s \in DOMAIN book : book'[s] = book[s]
         /\ DOMAIN marks' = DOMAIN marks
         /\ \A s \in DOMAIN marks : marks'[s] = marks[s]
         /\ DOMAIN riskPositions' = DOMAIN riskPositions
         /\ \A s \in DOMAIN riskPositions :
              riskPositions'[s] = riskPositions[s]
         /\ UNCHANGED <<evaluationCount, lastCloseTime, now>>
<1> DEFINE checkpoint == ReadExecutionCheckpoint(WriteExecutionCheckpoint)
<1>1. CASE Continue(checkpoint)
  <2>1. /\ pending' = Keyed(TableOf(pending))
        /\ cooldowns' = Keyed(TableOf(cooldowns))
        /\ book' = Keyed(TableOf(book))
        /\ marks' = Keyed(TableOf(marks))
        /\ riskPositions' = Keyed(TableOf(riskPositions))
        /\ UNCHANGED <<evaluationCount, lastCloseTime>>
    BY <1>1
    DEF Continue, RestoreRisk, ReadExecutionCheckpoint,
        WriteExecutionCheckpoint, RiskCheckpoint
  <2> QED
    BY <2>1, KeyedTable DEF StartChunk
<1>2. CASE UNCHANGED <<book, marks, chunkStart, trades, riskVars>>
  BY <1>2 DEF StartChunk, riskVars
<1> QED
  BY <1>1, <1>2 DEF StartChunk

LEMMA InvInit == Init => Inv
<1> SUFFICES ASSUME Init PROVE Inv
  OBVIOUS
<1>1. pending = Empty /\ evaluationCount = 0 /\ lastCloseTime = 0 /\ now = 0
  BY DEF Init, RiskInit
<1>2. NothingPending
  BY <1>1 DEF Empty, NothingPending
<1>3. phase = "load"
  BY DEF Init
<1> QED
  BY <1>1, <1>2, <1>3
  DEF Inv, Clock, DrainedInTime, PendingExitsAreLive,
      PortfolioExitCoversBook, NothingPending

(* With no exit waiting the two properties of waiting exits hold.          *)
LEMMA NothingPendingSuffices ==
  ASSUME Clock, DrainedInTime, NothingPending
  PROVE  Inv
BY DEF Inv, NothingPending, PendingExitsAreLive, PortfolioExitCoversBook

(* A drain takes every waiting exit when the last evaluation closed no     *)
(* later than the time drained, and no exit is overdue.                    *)
LEMMA DrainTakesAll ==
  ASSUME Clock, PendingExitsAreLive, NEW time \in Nat, lastCloseTime <= time,
         ~Overdue(time), DrainDue(time)
  PROVE  NothingPending'
<1>1. \A s \in DOMAIN pending : pending[s].fill_time = lastCloseTime
  BY DEF PendingExitsAreLive
<1>2. \A s \in DOMAIN pending : ~(pending[s].fill_time < time)
  BY DEF Overdue
<1>3. \A s \in DOMAIN pending : pending[s].fill_time = time
  BY <1>1, <1>2 DEF Clock
<1>4. DOMAIN pending \ Due(time) = {}
  BY <1>3 DEF Due
<1> QED
  BY <1>4 DEF DrainDue, Restrict, NothingPending

(* An evaluation that finds no exit waiting queues those of its own bar:   *)
(* all of the book for a portfolio exit, and held symbols only otherwise.  *)
LEMMA EvaluateQueues ==
  ASSUME Clock, NothingPending, NEW bars, NEW equity,
         Evaluate(bars, book, equity, closedAt), UNCHANGED book
  PROVE  PendingExitsAreLive' /\ PortfolioExitCoversBook'
<1> DEFINE exiting == Exiting(bars, book, equity)
           hold == IF risk.cooldown_bars > 1 THEN risk.cooldown_bars ELSE 1
<1>1. exiting \subseteq Held
  BY DEF Exiting, SymbolExits, Held
<1>2. /\ DOMAIN pending' = exiting
      /\ \A s \in exiting :
           pending'[s] = ExitIntent(s, bars, book, equity, closedAt)
  BY DEF Evaluate, NothingPending, Queued
<1>3. \A s \in exiting :
        /\ pending'[s].fill_time = closedAt
        /\ PortfolioExit(book, equity) =>
             pending'[s].priority = PORTFOLIO_RISK /\ pending'[s].reduce = 100
        /\ ~PortfolioExit(book, equity) => pending'[s].priority = SYMBOL_RISK
  BY <1>2 DEF ExitIntent
<1>4. \A s \in exiting :
        /\ s \in DOMAIN cooldowns'
        /\ cooldowns'[s].trigger_index = evaluationCount + 1
  <2>1. cooldowns' = [s \in LiveCooldowns(book) \cup exiting |->
                        IF s \in exiting
                        THEN [trigger_index |-> evaluationCount + 1,
                              release_index |-> evaluationCount + 1 + hold]
                        ELSE cooldowns[s]]
    BY DEF Evaluate
  <2> HIDE DEF exiting, hold
  <2> QED
    BY <2>1
<1>5. evaluationCount' = evaluationCount + 1 /\ lastCloseTime' = closedAt
  BY DEF Evaluate
<1>6. PendingExitsAreLive'
  BY <1>1, <1>2, <1>3, <1>4, <1>5 DEF PendingExitsAreLive, Held
<1>7. PortfolioExitCoversBook'
  <2>1. CASE PortfolioExit(book, equity)
    <3>1. exiting = Held
      BY <2>1 DEF Exiting, Held
    <3> QED
      BY <2>1, <3>1, <1>2, <1>3 DEF PortfolioExitCoversBook, Held
  <2>2. CASE ~PortfolioExit(book, equity)
    BY <2>2, <1>2, <1>3
    DEF PortfolioExitCoversBook, PORTFOLIO_RISK, SYMBOL_RISK
  <2> QED
    BY <2>1, <2>2
<1> QED
  BY <1>6, <1>7

-----------------------------------------------------------------------------
(* Each step of the loop body keeps Inv.                                   *)
LEMMA InvNext == Inv /\ [Next]_vars => Inv'
<1> SUFFICES ASSUME Inv, [Next]_vars PROVE Inv'
  OBVIOUS
<1> USE ClockAssumption
<1>l. closedAt \in Nat /\ closedAt = now + 1
  BY DEF closedAt, Inv, Clock
<1>1. CASE LoadBar
  <2>1. phase' \in {"drain", "failed"}
    BY <1>1 DEF LoadBar, Fail
  <2> QED
    BY <1>1, <2>1
    DEF LoadBar, riskVars, Inv, Clock, DrainedInTime, PendingExitsAreLive,
        PortfolioExitCoversBook, Held
<1>2. CASE SkipBar
  <2>1. now' \in Nat /\ now' >= now
    BY <1>2 DEF SkipBar, Inv, Clock
  <2> QED
    BY <1>2, <2>1
    DEF SkipBar, riskVars, Inv, Clock, DrainedInTime, PendingExitsAreLive,
        PortfolioExitCoversBook, Held
<1>3. CASE DrainOverdue
  BY <1>3
  DEF DrainOverdue, Fail, riskVars, Inv, Clock, DrainedInTime,
      PendingExitsAreLive, PortfolioExitCoversBook, Held
<1>4. CASE DrainAtOpen
  <2>1. NothingPending'
    BY <1>4, DrainTakesAll DEF DrainAtOpen, Inv, Clock, DrainedInTime
  <2>2. Clock' /\ DrainedInTime'
    BY <1>4, <2>1 DEF DrainAtOpen, loopVars, Inv, Clock, DrainedInTime
  <2> QED
    BY <2>1, <2>2, NothingPendingSuffices
    DEF Inv, NothingPending, PendingExitsAreLive, PortfolioExitCoversBook
<1>5. CASE Rebalance
  <2>1. NothingPending'
    BY <1>5 DEF Rebalance, Inv, DrainedInTime, NothingPending
  <2>2. Clock' /\ DrainedInTime'
    BY <1>5, <2>1 DEF Rebalance, loopVars, Inv, Clock, DrainedInTime
  <2> QED
    BY <2>1, <2>2
    DEF Inv, NothingPending, PendingExitsAreLive, PortfolioExitCoversBook
<1>6. CASE RefuseSignals
  <2>1. NothingPending'
    BY <1>6 DEF RefuseSignals, Inv, DrainedInTime, NothingPending
  <2>2. Clock' /\ DrainedInTime'
    BY <1>6, <2>1 DEF RefuseSignals, Fail, Inv, Clock, DrainedInTime
  <2> QED
    BY <2>1, <2>2
    DEF Inv, NothingPending, PendingExitsAreLive, PortfolioExitCoversBook
<1>7. CASE CloseBar
  <2>1. NothingPending /\ lastCloseTime <= now
    BY <1>7 DEF CloseBar, Inv, DrainedInTime
  <2>2. CASE UNCHANGED riskVars /\ phase' \in {"report", "failed"}
    <3>1. NothingPending' /\ Clock' /\ DrainedInTime'
      BY <1>7, <2>1, <2>2, <1>l
      DEF CloseBar, riskVars, NothingPending, Inv, Clock, DrainedInTime,
          closedAt
    <3> QED
      BY <3>1
      DEF Inv, NothingPending, PendingExitsAreLive, PortfolioExitCoversBook
  <2>3. CASE \E equity \in Equities :
               /\ Evaluate(RiskBars, book, equity, closedAt)
               /\ phase' \in {"fill", "report"}
    <3>1. PICK equity \in Equities :
               /\ Evaluate(RiskBars, book, equity, closedAt)
               /\ phase' \in {"fill", "report"}
      BY <2>3
    <3>2. PendingExitsAreLive' /\ PortfolioExitCoversBook'
      BY <1>7, <2>1, <3>1, EvaluateQueues DEF CloseBar, Inv
    <3>3. /\ evaluationCount' = evaluationCount + 1
          /\ lastCloseTime' = closedAt
          /\ now' = now
      BY <1>7, <3>1 DEF CloseBar, Evaluate
    <3> QED
      BY <3>1, <3>2, <3>3, <1>l DEF Inv, Clock, DrainedInTime, closedAt
  <2> QED
    BY <1>7, <2>2, <2>3 DEF CloseBar, Fail
<1>8. CASE FillSameBar
  <2>1. NothingPending'
    BY <1>8, <1>l, DrainTakesAll DEF FillSameBar, Inv, Clock, DrainedInTime
  <2>2. Clock' /\ DrainedInTime'
    BY <1>8, <2>1, <1>l
    DEF FillSameBar, loopVars, Inv, Clock, DrainedInTime, closedAt
  <2> QED
    BY <2>1, <2>2
    DEF Inv, NothingPending, PendingExitsAreLive, PortfolioExitCoversBook
<1>9. CASE ReportBar
  BY <1>9, <1>l
  DEF ReportBar, riskVars, Inv, Clock, DrainedInTime, PendingExitsAreLive,
      PortfolioExitCoversBook, Held
<1>10. CASE StartChunk
  <2>1. phase = "load" /\ phase' \in {"load", "failed"}
    BY <1>10 DEF StartChunk, Continue, Fail
  <2>2. Clock' /\ DrainedInTime'
    BY <1>10, <2>1, RestoredState DEF Inv, Clock, DrainedInTime
  <2>3. PendingExitsAreLive' /\ PortfolioExitCoversBook'
    BY <1>10, RestoredState
    DEF Inv, PendingExitsAreLive, PortfolioExitCoversBook, Held
  <2> QED
    BY <2>2, <2>3 DEF Inv
<1>11. CASE Finish
  BY <1>11
  DEF Finish, Fail, riskVars, Inv, Clock, DrainedInTime,
      PendingExitsAreLive, PortfolioExitCoversBook, Held
<1>12. CASE UNCHANGED vars
  BY <1>12
  DEF vars, riskVars, loopVars, Inv, Clock, DrainedInTime, NothingPending,
      PendingExitsAreLive, PortfolioExitCoversBook, Held, closedAt
<1> QED
  BY <1>1, <1>2, <1>3, <1>4, <1>5, <1>6, <1>7, <1>8, <1>9, <1>10, <1>11,
     <1>12
  DEF Next

(* Inv holds in every state of every run.                                  *)
THEOREM Invariance == Spec => []Inv
<1> QED
  BY InvInit, InvNext, PTL DEF Spec

-----------------------------------------------------------------------------
(* An exit waiting for its fill belongs to a position that is still held,  *)
(* was queued by the last evaluation and is due at its close.              *)
THEOREM PendingLive == Spec => []PendingExitsAreLive
<1>1. Inv => PendingExitsAreLive
  BY DEF Inv
<1> QED
  BY <1>1, Invariance, PTL

(* A portfolio exit waits for every held position, with all of it.         *)
THEOREM PortfolioExitComplete == Spec => []PortfolioExitCoversBook
<1>1. Inv => PortfolioExitCoversBook
  BY DEF Inv
<1> QED
  BY <1>1, Invariance, PTL

(* evaluate never meets an exit that should have been drained, and the     *)
(* rebalance never trades with one waiting.                                *)
THEOREM NoExitLeftBehind == Spec => []DrainedInTime
<1>1. Inv => DrainedInTime
  BY DEF Inv
<1> QED
  BY <1>1, Invariance, PTL

-----------------------------------------------------------------------------
(* Valuation: what is held is priced by this bar or by a carried close.    *)

Valued ==
  /\ phase \in {"drain", "rebalance", "close", "fill", "report"} =>
       Held \subseteq DOMAIN market \cup DOMAIN marks
  /\ HeldPositionsHaveMarks

GuardsHold == failure \notin {"unvalued position", "undrained exit"}

(* A trade leaves the ledger with symbols that were held or were traded.   *)
LEMMA ExecutedHolds ==
  ASSUME NEW delta, NEW price
  PROVE  DOMAIN Executed(delta, price) \subseteq Held \cup DOMAIN delta
BY DEF Executed

(* A rebalance touches symbols with a bar, and replaced ones.              *)
LEMMA ProcessedSymbols ==
  ASSUME NEW signal
  PROVE  DOMAIN Processed(signal) \subseteq DOMAIN market \cup Held
<1>1. Allowed(signal) \subseteq DOMAIN market
  BY DEF Allowed, Blocked
<1> QED
  BY <1>1 DEF Processed, Replaced

LEMMA ValuedNext == Inv /\ Valued /\ [Next]_vars => Valued'
<1> SUFFICES ASSUME Inv, Valued, [Next]_vars PROVE Valued'
  OBVIOUS
<1>1. CASE LoadBar
  <2>1. phase' = "failed" \/ Held \subseteq DOMAIN market' \cup DOMAIN marks
    BY <1>1 DEF LoadBar, Fail
  <2>2. phase' \in {"drain", "failed"} /\ UNCHANGED <<book, marks>>
    BY <1>1 DEF LoadBar, Fail
  <2> QED
    BY <2>1, <2>2 DEF Valued, HeldPositionsHaveMarks, Held
<1>2. CASE DrainAtOpen
  <2>1. DOMAIN riskFills' \subseteq Held
    BY <1>2 DEF DrainAtOpen, Due, Inv, PendingExitsAreLive
  <2>2. Held' \subseteq Held
    BY <1>2, <2>1, ExecutedHolds DEF DrainAtOpen, Held
  <2> QED
    BY <1>2, <2>2
    DEF DrainAtOpen, loopVars, Valued, HeldPositionsHaveMarks
<1>3. CASE Rebalance
  <2>1. PICK signal \in Signals :
          LET wanted == Processed(signal)
              traded == [s \in DOMAIN wanted |-> wanted[s] - Quantity(s)]
          IN book' = Executed(traded, OpenMarks)
    BY <1>3 DEF Rebalance
  <2>2. Held' \subseteq Held \cup DOMAIN Processed(signal)
    BY <2>1, ExecutedHolds DEF Held
  <2>3. Held' \subseteq Held \cup DOMAIN market
    BY <2>2, ProcessedSymbols
  <2> QED
    BY <1>3, <2>3 DEF Rebalance, loopVars, Valued, HeldPositionsHaveMarks
<1>4. CASE CloseBar
  <2>1. phase' \in {"fill", "report", "failed"}
    BY <1>4 DEF CloseBar, Fail
  <2>2. phase = "close" /\ UNCHANGED <<book, market, marks>>
    BY <1>4 DEF CloseBar
  <2> QED
    BY <2>1, <2>2 DEF Valued, HeldPositionsHaveMarks, Held
<1>5. CASE FillSameBar
  <2> DEFINE exits == [s \in Due(closedAt) |-> ExitDelta(s, book)]
  <2>1. DOMAIN exits \subseteq Held
    BY DEF Due, Inv, PendingExitsAreLive
  <2>2. book' = Executed(exits, CloseMarks)
    BY <1>5 DEF FillSameBar
  <2> HIDE DEF exits
  <2>3. Held' \subseteq Held
    BY <2>1, <2>2, ExecutedHolds DEF Held
  <2> QED
    BY <1>5, <2>3
    DEF FillSameBar, loopVars, Valued, HeldPositionsHaveMarks
<1>6. CASE ReportBar
  <2>1. DOMAIN CloseMarks = DOMAIN market \cup DOMAIN marks
    BY DEF CloseMarks
  <2>2. DOMAIN marks' = Held \cap DOMAIN CloseMarks
    BY <1>6 DEF ReportBar, CarriedMarks, Restrict
  <2> QED
    BY <1>6, <2>1, <2>2
    DEF ReportBar, Valued, HeldPositionsHaveMarks, Held
<1>9. CASE StartChunk
  BY <1>9, RestoredState
  DEF StartChunk, Continue, Fail, Valued, HeldPositionsHaveMarks, Held
<1>7. CASE SkipBar \/ Finish \/ RefuseSignals \/ DrainOverdue
  BY <1>7
  DEF SkipBar, Finish, RefuseSignals, DrainOverdue, Fail, Valued,
      HeldPositionsHaveMarks, Held
<1>8. CASE UNCHANGED vars
  BY <1>8 DEF vars, loopVars, Valued, HeldPositionsHaveMarks, Held
<1> QED
  BY <1>1, <1>2, <1>3, <1>4, <1>5, <1>6, <1>7, <1>8, <1>9 DEF Next

LEMMA GuardsNext ==
  Inv /\ Valued /\ GuardsHold /\ [Next]_vars => GuardsHold'
<1> SUFFICES ASSUME Inv, Valued, GuardsHold, [Next]_vars PROVE GuardsHold'
  OBVIOUS
<1>1. CASE LoadBar
  <2>1. Held \subseteq DOMAIN marks
    BY <1>1 DEF LoadBar, Valued, HeldPositionsHaveMarks
  <2> QED
    BY <1>1, <2>1 DEF LoadBar, Fail, GuardsHold
<1>2. CASE CloseBar
  <2>1. NothingPending
    BY <1>2 DEF CloseBar, Inv, DrainedInTime
  <2>2. \A equity \in Equities : EvaluationFailure(equity) # "undrained exit"
    BY <2>1 DEF EvaluationFailure, Undrained, NothingPending
  <2>3. \A equity \in Equities :
          EvaluationFailure(equity) # "unvalued position"
    BY DEF EvaluationFailure
  <2> QED
    BY <1>2, <2>2, <2>3 DEF CloseBar, Fail, GuardsHold
<1>3. CASE \/ DrainOverdue \/ RefuseSignals \/ StartChunk \/ Finish
  BY <1>3
  DEF DrainOverdue, RefuseSignals, StartChunk, Continue, Finish, Fail, GuardsHold
<1>4. CASE \/ SkipBar \/ DrainAtOpen \/ Rebalance \/ FillSameBar \/ ReportBar
  BY <1>4
  DEF SkipBar, DrainAtOpen, Rebalance, FillSameBar, ReportBar, loopVars,
      GuardsHold
<1>5. CASE UNCHANGED vars
  BY <1>5 DEF vars, loopVars, GuardsHold
<1> QED
  BY <1>1, <1>2, <1>3, <1>4, <1>5 DEF Next

LEMMA ValuedInvariance == Spec => [](Valued /\ GuardsHold)
<1>1. Init => Valued /\ GuardsHold
  BY DEF Init, Valued, GuardsHold, HeldPositionsHaveMarks, Held, Empty
<1> QED
  BY <1>1, ValuedNext, GuardsNext, Invariance, PTL DEF Spec

(* A held position can be valued at the next bar, traded or not, at the    *)
(* start of a chunk as anywhere else.                                      *)
THEOREM HeldValued == Spec => []HeldPositionsHaveMarks
<1>1. Valued => HeldPositionsHaveMarks
  BY DEF Valued
<1> QED
  BY <1>1, ValuedInvariance, PTL

(* The checks against the loop's own misuse of the risk machine and of the *)
(* valuation never end a run.                                              *)
THEOREM GuardsNeverTrip == Spec => []GuardsHold
<1> QED
  BY ValuedInvariance, PTL

-----------------------------------------------------------------------------
(* Types.                                                                  *)

RiskPosition ==
  [direction : {"LONG", "SHORT"}, average : Int, extreme : Int,
   triggers : Int]

CooldownLength == IF risk.cooldown_bars > 1 THEN risk.cooldown_bars ELSE 1

PricesTyped ==
  /\ \A s \in DOMAIN market : s \in Symbols /\ market[s] \in Bars
  /\ \A s \in DOMAIN window : window[s].low \in Int /\ window[s].high \in Int
  /\ \A s \in DOMAIN marks : marks[s] \in Int

BookTyped ==
  \A s \in Held : /\ s \in Symbols
                  /\ book[s].quantity \in Int \ {0}
                  /\ book[s].average \in Int

RiskTyped ==
  /\ risk \in RiskConfigs
  /\ \A s \in DOMAIN riskPositions :
       s \in Symbols /\ riskPositions[s] \in RiskPosition
  /\ \A s \in DOMAIN pending :
       /\ s \in Symbols
       /\ pending[s].priority \in {PORTFOLIO_RISK, SYMBOL_RISK}
       /\ pending[s].reduce \in 1 .. 100
  /\ \A s \in DOMAIN cooldowns :
       /\ s \in Symbols
       /\ cooldowns[s].trigger_index \in Nat
       /\ cooldowns[s].release_index
            = cooldowns[s].trigger_index + CooldownLength

RowsTyped ==
  /\ portfolio \in Portfolios
  /\ phase \in Phases
  /\ \A s \in DOMAIN riskFills : s \in Symbols /\ riskFills[s] \in Int
  /\ \A row \in trades : row.symbol \in Symbols
  /\ \A s \in Symbols : ledger[s] \in Int

Typed == PricesTyped /\ BookTyped /\ RiskTyped /\ RowsTyped

(* updated_average_entry is a price.                                       *)
LEMMA AverageTyped ==
  ASSUME BookTyped, NEW s, NEW new \in Int, NEW price \in Int
  PROVE  AverageEntry(s, new, price) \in Int
<1> DEFINE old == Quantity(s)
<1>1. old \in Int
  BY DEF Quantity, BookTyped
<1>2. CASE old * new <= 0
  BY <1>2 DEF AverageEntry
<1>3. CASE ~(old * new <= 0)
  <2>1. s \in Held /\ new # 0
    BY <1>1, <1>3 DEF Quantity
  <2>2. book[s].average \in Int
    BY <2>1 DEF BookTyped
  <2>3. Magnitude(new) \in Nat \ {0} /\ Magnitude(old) \in Nat
    BY <2>1, <1>1 DEF Magnitude
  <2>4. \A m \in Nat \ {0}, x \in Int : x \div m \in Int
    OBVIOUS
  <2> DEFINE value == Magnitude(old) * book[s].average
                        + (Magnitude(new) - Magnitude(old)) * price
  <2>5. value \in Int
    BY <2>2, <2>3
  <2>6. value \div Magnitude(new) \in Int
    BY <2>3, <2>4, <2>5
  <2> QED
    BY <1>3, <2>2, <2>6 DEF AverageEntry
<1> QED
  BY <1>2, <1>3

(* The book after a set of deltas: every quantity moves by its delta, and  *)
(* what reaches zero is gone.                                              *)
LEMMA ExecutedMoves ==
  ASSUME BookTyped, NEW delta, NEW price,
         \A s \in DOMAIN delta :
           s \in Symbols /\ delta[s] \in Int /\ price[s] \in Int,
         book' = Executed(delta, price)
  PROVE  /\ BookTyped'
         /\ \A s : Quantity(s)' = Quantity(s)
                     + (IF s \in DOMAIN delta THEN delta[s] ELSE 0)
<1> DEFINE moved(s) ==
             Quantity(s) + (IF s \in DOMAIN delta THEN delta[s] ELSE 0)
           after == {t \in Held \cup DOMAIN delta : moved(t) # 0}
<1>1. \A s : Quantity(s) \in Int /\ moved(s) \in Int
  BY DEF Quantity, BookTyped
<1>2. /\ Held' = after
      /\ \A s \in after :
           book'[s] = IF s \in Held /\ moved(s) = Quantity(s)
                      THEN book[s]
                      ELSE [quantity |-> moved(s),
                            average  |-> AverageEntry(s, moved(s), price[s])]
  BY DEF Executed, Holds, Held
<1> HIDE DEF moved, after
<1>3. \A s \in after :
        ~(s \in Held /\ moved(s) = Quantity(s)) =>
          book'[s] = [quantity |-> moved(s),
                      average  |-> AverageEntry(s, moved(s), price[s])]
  BY <1>2, Zenon
<1>4. \A s \in after : book'[s].quantity = moved(s)
  <2> TAKE s \in after
  <2>1. CASE s \in Held /\ moved(s) = Quantity(s)
    BY <1>2, <2>1 DEF Quantity
  <2>2. CASE ~(s \in Held /\ moved(s) = Quantity(s))
    <3>1. book'[s] = [quantity |-> moved(s),
                      average  |-> AverageEntry(s, moved(s), price[s])]
      BY <1>3, <2>2
    <3> QED
      BY <3>1
  <2> QED
    BY <2>1, <2>2
<1>5. \A s \in after : book'[s].average \in Int
  <2> TAKE s \in after
  <2>1. CASE s \in Held /\ moved(s) = Quantity(s)
    BY <1>2, <2>1 DEF BookTyped
  <2>2. CASE ~(s \in Held /\ moved(s) = Quantity(s))
    <3>1. s \in DOMAIN delta
      BY <2>2, <1>1 DEF moved, after
    <3>2. AverageEntry(s, moved(s), price[s]) \in Int
      BY <3>1, <1>1, AverageTyped
    <3>3. book'[s] = [quantity |-> moved(s),
                      average  |-> AverageEntry(s, moved(s), price[s])]
      BY <1>3, <2>2
    <3> QED
      BY <3>2, <3>3
  <2> QED
    BY <2>1, <2>2
<1>6. \A s : Quantity(s)' = moved(s)
  <2> TAKE s
  <2>1. CASE s \in after
    BY <2>1, <1>2, <1>4 DEF Quantity
  <2>2. CASE s \notin after
    <3>1. moved(s) = 0
      BY <2>2, <1>1 DEF Quantity, moved, after
    <3> QED
      BY <3>1, <2>2, <1>2 DEF Quantity
  <2> QED
    BY <2>1, <2>2
<1>7. BookTyped'
  <2>1. \A s \in after : s \in Symbols /\ moved(s) \in Int \ {0}
    BY <1>1 DEF BookTyped, after
  <2> QED
    BY <2>1, <1>2, <1>4, <1>5 DEF BookTyped
<1> QED
  BY <1>6, <1>7 DEF moved

LEMMA MarksTyped ==
  ASSUME PricesTyped
  PROVE  \A s \in DOMAIN market \cup DOMAIN marks :
           OpenMarks[s] \in Int /\ CloseMarks[s] \in Int
<1> TAKE s \in DOMAIN market \cup DOMAIN marks
<1>1. CASE s \in DOMAIN market
  <2>1. market[s] \in [open : Int, high : Int, low : Int, close : Int]
    BY <1>1, MarketAssumption DEF PricesTyped
  <2>2. OpenMarks[s] = market[s].open /\ CloseMarks[s] = market[s].close
    BY <1>1 DEF OpenMarks, CloseMarks
  <2> QED
    BY <2>1, <2>2
<1>2. CASE s \notin DOMAIN market
  BY <1>2 DEF OpenMarks, CloseMarks, PricesTyped
<1> QED
  BY <1>1, <1>2

(* The part of a position an exit takes: some of it, at most all.          *)
LEMMA PartOf ==
  ASSUME NEW m \in Nat, NEW r \in 1 .. 100
  PROVE  /\ (m * r) \div 100 \in Nat
         /\ (m * r) \div 100 <= m
         /\ r = 100 => (m * r) \div 100 = m
<1>1. m * r \in Nat /\ m * r <= m * 100
  <2>1. 100 - r \in Nat
    OBVIOUS
  <2>2. m * (100 - r) \in Nat
    BY <2>1
  <2>3. m * (100 - r) = m * 100 - m * r
    OBVIOUS
  <2> QED
    BY <2>2, <2>3
<1> QED
  BY <1>1

(* An exit moves a position towards zero and not beyond; a whole one ends  *)
(* it.                                                                     *)
LEMMA ExitShrinks ==
  ASSUME BookTyped, NEW s \in DOMAIN pending, s \in Held,
         pending[s].reduce \in 1 .. 100
  PROVE  LET before == Quantity(s)
             after == Quantity(s) + ExitDelta(s, book)
         IN /\ ExitDelta(s, book) \in Int
            /\ after * before >= 0
            /\ after # before => Magnitude(after) < Magnitude(before)
            /\ pending[s].reduce = 100 => after = 0
<1> DEFINE q == book[s].quantity
           reduce == pending[s].reduce
<1>1. q \in Int \ {0}
  BY DEF BookTyped
<1>2. Quantity(s) = q
  BY DEF Quantity
<1>3. CASE q > 0
  <2> DEFINE k == (q * reduce) \div 100
  <2>1. k \in Nat /\ k <= q /\ (reduce = 100 => k = q)
    BY <1>1, <1>3, PartOf
  <2>2. ExitDelta(s, book) = -k
    BY <1>1, <1>3 DEF ExitDelta, Direction, Sign, Held
  <2> HIDE DEF k, q
  <2>3. q \in Nat /\ q - k \in Nat
    BY <1>1, <1>3, <2>1
  <2>4. (q - k) * q >= 0
    BY <2>3
  <2> QED
    BY <1>1, <1>2, <1>3, <2>1, <2>2, <2>3, <2>4 DEF Magnitude
<1>4. CASE q < 0
  <2> DEFINE m == -q
             k == (m * reduce) \div 100
  <2>1. m \in Nat
    BY <1>1, <1>4
  <2>2. k \in Nat /\ k <= m /\ (reduce = 100 => k = m)
    BY <2>1, PartOf
  <2>3. ExitDelta(s, book) = k
    <3>1. Sign(Direction(q)) = -1
      BY <1>1, <1>4 DEF Direction, Sign
    <3>2. ExitDelta(s, book) = -(-1) * (((-1) * q * reduce) \div 100)
      BY <3>1 DEF ExitDelta, Held
    <3>3. (-1) * q = m
      BY <1>1
    <3> QED
      BY <2>2, <3>2, <3>3
  <2> HIDE DEF k, q
  <2>4. q + k <= 0 /\ q = -m /\ q \in Int
    BY <1>1, <2>1, <2>2 DEF q
  <2>5. (q + k) * q >= 0
    <3>1. m - k \in Nat
      BY <2>1, <2>2
    <3>2. (m - k) * m >= 0
      BY <3>1, <2>1
    <3>3. (q + k) * q = (m - k) * m
      BY <2>1, <2>2, <2>4
    <3> QED
      BY <3>2, <3>3
  <2> QED
    BY <1>1, <1>2, <1>4, <2>1, <2>2, <2>3, <2>4, <2>5 DEF Magnitude
<1> QED
  BY <1>1, <1>3, <1>4

(* A rebalance asks for a whole number of every contract it touches, and   *)
(* what it touches is not among the exits of this open.                    *)
LEMMA ProcessedTyped ==
  ASSUME BookTyped, NEW signal \in Signals
  PROVE  /\ \A s \in DOMAIN Processed(signal) :
              s \in Symbols /\ Processed(signal)[s] \in Int
         /\ Candidates(signal) \subseteq Symbols
<1>1. DOMAIN signal \subseteq Symbols
      /\ \A s \in DOMAIN signal : signal[s] \in {-1, 0, 1}
  BY DEF Signals
<1>2. \A s : Wanted(signal, s) \in {-1, 0, 1}
  BY <1>1 DEF Wanted
<1>3. \A s : Quantity(s) \in Int
  BY DEF Quantity, BookTyped
<1>4. Candidates(signal) \subseteq Symbols /\ Held \subseteq Symbols
  BY <1>1 DEF Candidates, BookTyped
<1>5. \A s : \A side \in {-1, 0, 1} : AfterSignal(s, side) \in Int
  <2> TAKE s
  <2> TAKE side \in {-1, 0, 1}
  <2>1. side * Unit \in Int
    BY MarketAssumption
  <2> QED
    BY <1>3, <2>1 DEF AfterSignal
<1>6. \A s : Wanted(signal, s) * Unit \in Int
  <2> TAKE s
  <2> QED
    BY <1>2, MarketAssumption
<1>7. \A s \in DOMAIN Processed(signal) :
        /\ s \in Allowed(signal) \cup Replaced(signal)
        /\ \/ Processed(signal)[s] = 0
           \/ Processed(signal)[s] = Wanted(signal, s) * Unit
           \/ Processed(signal)[s] = AfterSignal(s, Wanted(signal, s))
  BY DEF Processed
<1>8. Allowed(signal) \cup Replaced(signal) \subseteq Symbols
  BY <1>4 DEF Allowed, Replaced
<1> QED
  BY <1>2, <1>4, <1>5, <1>6, <1>7, <1>8

-----------------------------------------------------------------------------
(* What an evaluation makes of the state it finds.                         *)

HitBars(bars) ==
  \A s \in Held : bars[s].low \in Int /\ bars[s].high \in Int

LEMMA RiskBarsTyped ==
  ASSUME PricesTyped, Held \subseteq DOMAIN market \cup DOMAIN marks
  PROVE  HitBars(RiskBars)
<1> SUFFICES ASSUME NEW s \in Held
             PROVE  RiskBars[s].low \in Int /\ RiskBars[s].high \in Int
  BY DEF HitBars
<1>1. CASE s \in DOMAIN window
  BY <1>1 DEF RiskBars, PricesTyped
<1>2. CASE s \notin DOMAIN window
  <2>1. RiskBars[s] = [low |-> CloseMarks[s], high |-> CloseMarks[s]]
    BY <1>2 DEF RiskBars
  <2> QED
    BY <2>1, MarksTyped
<1> QED
  BY <1>1, <1>2

(* A position that stays keeps its extreme; one that begins starts from    *)
(* its entry.                                                              *)
LEMMA SyncedPosition ==
  ASSUME BookTyped, RiskTyped, NEW s \in Held
  PROVE  LET p == SyncPositions(book)[s]
         IN /\ p \in RiskPosition
            /\ p.direction = Direction(book[s].quantity)
            /\ Continues(s, book) => p.extreme = riskPositions[s].extreme
<1> DEFINE p == SyncPositions(book)[s]
<1>1. book[s].quantity \in Int /\ book[s].average \in Int
  BY DEF BookTyped
<1>2. Direction(book[s].quantity) \in {"LONG", "SHORT"}
  BY DEF Direction
<1>3. CASE Continues(s, book)
  <2>1. p = [riskPositions[s] EXCEPT !.average = book[s].average]
    BY <1>3 DEF SyncPositions, Held
  <2>2. riskPositions[s] \in RiskPosition
    BY <1>3 DEF Continues, RiskTyped
  <2>3. riskPositions[s].direction = Direction(book[s].quantity)
    BY <1>3 DEF Continues
  <2> HIDE DEF p
  <2>4. /\ p \in RiskPosition
        /\ p.direction = Direction(book[s].quantity)
        /\ p.extreme = riskPositions[s].extreme
    BY <1>1, <2>1, <2>2, <2>3 DEF RiskPosition
  <2> QED
    BY <1>3, <2>4 DEF p
<1>4. CASE ~Continues(s, book)
  <2>1. p = [direction |-> Direction(book[s].quantity),
             average   |-> book[s].average,
             extreme   |-> book[s].average,
             triggers  |-> 0]
    BY <1>4 DEF SyncPositions, Held
  <2> HIDE DEF p
  <2>2. p \in RiskPosition /\ p.direction = Direction(book[s].quantity)
    BY <1>1, <1>2, <2>1 DEF RiskPosition
  <2> QED
    BY <1>4, <2>2 DEF p
<1> QED
  BY <1>3, <1>4

(* The rule that closes a position is one of the configured ones.          *)
LEMMA WorstHitIsHit ==
  ASSUME NEW hits \in SUBSET RuleNames, hits # {}
  PROVE  WorstHit(hits) \in hits
<1> DEFINE worst(name) ==
      \/ name = "stop_loss"
      \/ name = "trailing_stop" /\ "stop_loss" \notin hits
      \/ hits = {"take_profit"}
<1>1. \E name \in hits : worst(name)
  <2>1. CASE "stop_loss" \in hits
    BY <2>1
  <2>2. CASE "stop_loss" \notin hits /\ "trailing_stop" \in hits
    BY <2>2
  <2>3. CASE "stop_loss" \notin hits /\ "trailing_stop" \notin hits
    <3>1. hits = {"take_profit"}
      BY <2>3 DEF RuleNames
    <3> QED
      BY <3>1
  <2> QED
    BY <2>1, <2>2, <2>3
<1>2. WorstHit(hits) = CHOOSE name \in hits : worst(name)
  BY DEF WorstHit
<1> HIDE DEF worst
<1> QED
  BY <1>1, <1>2

(* The exit of an evaluation takes a legal part of the position: the part  *)
(* of a rule that was hit, or all of it.                                   *)
LEMMA ExitIntentTyped ==
  ASSUME RiskTyped, NEW bars, NEW equity,
         NEW s \in Exiting(bars, book, equity)
  PROVE  LET intent == ExitIntent(s, bars, book, equity, closedAt)
         IN /\ intent.priority \in {PORTFOLIO_RISK, SYMBOL_RISK}
            /\ intent.reduce \in 1 .. 100
            /\ \/ intent.reduce = 100
               \/ \E name \in RuleNames :
                    intent.reduce = risk.symbol_exits[name].reduce
<1>1. CASE PortfolioExit(book, equity)
  BY <1>1 DEF ExitIntent
<1>2. CASE ~PortfolioExit(book, equity)
  <2> DEFINE hits == Hits(SyncPositions(book)[s], bars[s])
             rule == risk.symbol_exits[WorstHit(hits)]
  <2>1. hits \in SUBSET RuleNames /\ hits # {}
    BY <1>2 DEF Exiting, SymbolExits, Hits
  <2>2. WorstHit(hits) \in RuleNames
    BY <2>1, WorstHitIsHit
  <2>3. rule.reduce \in 1 .. 100
    <3>1. LegalRisk(risk)
      BY ConfigAssumption DEF RiskTyped
    <3> HIDE DEF hits
    <3> QED
      BY <2>2, <3>1 DEF LegalRisk, LegalSymbolExits, LegalRule
  <2>4. ExitIntent(s, bars, book, equity, closedAt) =
          [fill_time |-> closedAt, priority |-> SYMBOL_RISK,
           reduce |-> rule.reduce]
    BY <1>2 DEF ExitIntent
  <2> HIDE DEF hits
  <2> QED
    BY <2>2, <2>3, <2>4
<1> QED
  BY <1>1, <1>2

LEMMA EvaluateTyped ==
  ASSUME Clock, NothingPending, BookTyped, RiskTyped, NEW bars, HitBars(bars),
         NEW equity, Evaluate(bars, book, equity, closedAt),
         UNCHANGED <<risk, book>>
  PROVE  RiskTyped'
<1> DEFINE exiting == Exiting(bars, book, equity)
           index == evaluationCount + 1
           synced == SyncPositions(book)
<1>1. exiting \subseteq Held /\ Held \subseteq Symbols
  BY DEF Exiting, SymbolExits, Held, BookTyped
<1>2. \A s \in DOMAIN pending' :
        /\ s \in exiting
        /\ pending'[s] = ExitIntent(s, bars, book, equity, closedAt)
  BY DEF Evaluate, NothingPending, Queued
<1>3. \A s \in DOMAIN pending' :
        /\ s \in Symbols
        /\ pending'[s].priority \in {PORTFOLIO_RISK, SYMBOL_RISK}
        /\ pending'[s].reduce \in 1 .. 100
  BY <1>1, <1>2, ExitIntentTyped
<1>4. \A s \in DOMAIN cooldowns' :
        \/ /\ s \in exiting
           /\ cooldowns'[s] = [trigger_index |-> index,
                               release_index |-> index + CooldownLength]
        \/ s \in DOMAIN cooldowns /\ cooldowns'[s] = cooldowns[s]
  <2>1. cooldowns' = [s \in LiveCooldowns(book) \cup exiting |->
                        IF s \in exiting
                        THEN [trigger_index |-> index,
                              release_index |-> index + CooldownLength]
                        ELSE cooldowns[s]]
    BY DEF Evaluate, CooldownLength
  <2>2. LiveCooldowns(book) \subseteq DOMAIN cooldowns
    BY DEF LiveCooldowns
  <2> HIDE DEF exiting, index
  <2> QED
    BY <2>1, <2>2
<1>5. \A s \in DOMAIN cooldowns' :
        /\ s \in Symbols
        /\ cooldowns'[s].trigger_index \in Nat
        /\ cooldowns'[s].release_index
             = cooldowns'[s].trigger_index + CooldownLength
  <2>1. index \in Nat
    BY DEF Clock
  <2> HIDE DEF exiting, index
  <2> QED
    BY <1>1, <1>4, <2>1 DEF RiskTyped
<1>6. \A s \in DOMAIN riskPositions' :
        s \in Symbols /\ riskPositions'[s] \in RiskPosition
  <2> TAKE s \in DOMAIN riskPositions'
  <2> DEFINE exits == s \in exiting /\ ~PortfolioExit(book, equity)
             best == Best(synced[s].direction, synced[s].extreme,
                          Favorable(synced[s], bars[s]))
             triggers == IF exits THEN synced[s].triggers + 1
                                  ELSE synced[s].triggers
  <2>1. s \in Held
    BY DEF Evaluate, Held
  <2>2. synced[s] \in RiskPosition
    BY <2>1, SyncedPosition
  <2>3. riskPositions'[s] = [synced[s] EXCEPT !.triggers = triggers,
                                              !.extreme = best]
    BY <2>1 DEF Evaluate, Held
  <2>4. best \in Int
    <3>1. synced[s].extreme \in Int
      BY <2>2 DEF RiskPosition
    <3>2. Favorable(synced[s], bars[s]) \in Int
      BY <2>1 DEF Favorable, HitBars
    <3> QED
      BY <3>1, <3>2 DEF Best
  <2>5. triggers \in Int
    BY <2>2 DEF RiskPosition
  <2> HIDE DEF best, triggers, synced
  <2> QED
    BY <1>1, <2>1, <2>2, <2>3, <2>4, <2>5 DEF RiskPosition
<1>7. CooldownLength' = CooldownLength
  BY DEF CooldownLength
<1> QED
  BY <1>3, <1>5, <1>6, <1>7 DEF RiskTyped

-----------------------------------------------------------------------------
(* Every step keeps the types.                                             *)

LEMMA PricesNext == Valued /\ Typed /\ [Next]_vars => PricesTyped'
<1> SUFFICES ASSUME Valued, Typed, [Next]_vars PROVE PricesTyped'
  OBVIOUS
<1> USE DEF Typed
<1>1. CASE LoadBar
  <2>1. PICK present \in SUBSET Symbols \ {{}} :
          \E bars \in [present -> Bars] :
            Listed(present) /\ market' = bars /\ window' = Extended(bars)
    BY <1>1 DEF LoadBar
  <2>2. PICK bars \in [present -> Bars] :
            Listed(present) /\ market' = bars /\ window' = Extended(bars)
    BY <2>1
  <2>3. \A s \in present : bars[s].low \in Int /\ bars[s].high \in Int
    BY MarketAssumption
  <2>4. \A s \in DOMAIN window' :
           window'[s].low \in Int /\ window'[s].high \in Int
    <3>1. CASE now % RiskEvery = 0
      BY <2>2, <2>3, <3>1 DEF Extended
    <3>2. CASE now % RiskEvery # 0
      <4>1. present = DOMAIN window
        BY <2>2, <3>2 DEF Listed
      <4> QED
        BY <2>2, <2>3, <3>2, <4>1 DEF Extended, Lower, Higher, PricesTyped
    <3> QED
      BY <3>1, <3>2
  <2> QED
    BY <1>1, <2>2, <2>4 DEF LoadBar, PricesTyped
<1>2. CASE ReportBar
  <2>1. Held \cap DOMAIN CloseMarks \subseteq DOMAIN market \cup DOMAIN marks
    BY DEF CloseMarks
  <2>2. \A s \in DOMAIN marks' : marks'[s] \in Int
    BY <1>2, <2>1, MarksTyped DEF ReportBar, CarriedMarks, Restrict
  <2> QED
    BY <1>2, <2>2 DEF ReportBar, PricesTyped, Empty
<1>3. CASE StartChunk
  BY <1>3, RestoredState DEF StartChunk, PricesTyped
<1>4. CASE \/ SkipBar \/ DrainOverdue \/ DrainAtOpen \/ Rebalance
           \/ RefuseSignals \/ CloseBar \/ FillSameBar \/ Finish
           \/ UNCHANGED vars
  BY <1>4
  DEF SkipBar, DrainOverdue, DrainAtOpen, Rebalance, RefuseSignals, CloseBar,
      FillSameBar, Finish, Fail, vars, loopVars, PricesTyped
<1> QED
  BY <1>1, <1>2, <1>3, <1>4 DEF Next

(* The exits of one drain: each moves a held position by a whole number.   *)
LEMMA ExitsTyped ==
  ASSUME Inv, Valued, Typed, NEW time
  PROVE  \A s \in Due(time) :
           /\ s \in Symbols /\ s \in Held
           /\ ExitDelta(s, book) \in Int
           /\ phase \in {"drain", "fill"} =>
                OpenMarks[s] \in Int /\ CloseMarks[s] \in Int
<1> TAKE s \in Due(time)
<1>1. s \in DOMAIN pending /\ s \in Held
  BY DEF Due, Inv, PendingExitsAreLive
<1>2. ExitDelta(s, book) \in Int
  BY <1>1, ExitShrinks DEF Typed, RiskTyped
<1>3. phase \in {"drain", "fill"} => s \in DOMAIN market \cup DOMAIN marks
  BY <1>1 DEF Valued
<1> QED
  BY <1>1, <1>2, <1>3, MarksTyped DEF Typed, BookTyped

(* The trades of a rebalance.                                              *)
LEMMA TradedTyped ==
  ASSUME Valued, Typed, phase = "rebalance", NEW signal \in Signals
  PROVE  \A s \in DOMAIN Processed(signal) :
           /\ s \in Symbols
           /\ Processed(signal)[s] - Quantity(s) \in Int
           /\ OpenMarks[s] \in Int
<1> TAKE s \in DOMAIN Processed(signal)
<1>1. s \in Symbols /\ Processed(signal)[s] \in Int
  BY ProcessedTyped DEF Typed
<1>2. Quantity(s) \in Int
  BY DEF Quantity, Typed, BookTyped
<1>3. s \in DOMAIN market \cup DOMAIN marks
  BY ProcessedSymbols DEF Valued
<1> QED
  BY <1>1, <1>2, <1>3, MarksTyped DEF Typed

LEMMA BookNext == Inv /\ Valued /\ Typed /\ [Next]_vars => BookTyped'
<1> SUFFICES ASSUME Inv, Valued, Typed, [Next]_vars PROVE BookTyped'
  OBVIOUS
<1>1. CASE DrainAtOpen
  <2> DEFINE exits == [s \in Due(now) |-> ExitDelta(s, book)]
  <2>1. \A s \in DOMAIN exits :
           s \in Symbols /\ exits[s] \in Int /\ OpenMarks[s] \in Int
    BY <1>1, ExitsTyped DEF DrainAtOpen
  <2>2. book' = Executed(exits, OpenMarks)
    BY <1>1 DEF DrainAtOpen
  <2> HIDE DEF exits
  <2> QED
    BY <2>1, <2>2, ExecutedMoves DEF Typed
<1>2. CASE Rebalance
  <2>1. PICK signal \in Signals :
          LET wanted == Processed(signal)
              traded == [s \in DOMAIN wanted |-> wanted[s] - Quantity(s)]
          IN book' = Executed(traded, OpenMarks)
    BY <1>2 DEF Rebalance
  <2> DEFINE traded == [s \in DOMAIN Processed(signal) |->
                          Processed(signal)[s] - Quantity(s)]
  <2>2. \A s \in DOMAIN traded :
           s \in Symbols /\ traded[s] \in Int /\ OpenMarks[s] \in Int
    BY <1>2, TradedTyped DEF Rebalance
  <2>3. book' = Executed(traded, OpenMarks)
    BY <2>1
  <2> HIDE DEF traded
  <2> QED
    BY <2>2, <2>3, ExecutedMoves DEF Typed
<1>3. CASE FillSameBar
  <2> DEFINE exits == [s \in Due(closedAt) |-> ExitDelta(s, book)]
  <2>1. \A s \in DOMAIN exits :
           s \in Symbols /\ exits[s] \in Int /\ CloseMarks[s] \in Int
    BY <1>3, ExitsTyped DEF FillSameBar
  <2>2. book' = Executed(exits, CloseMarks)
    BY <1>3 DEF FillSameBar
  <2> HIDE DEF exits
  <2> QED
    BY <2>1, <2>2, ExecutedMoves DEF Typed
<1>4. CASE StartChunk
  BY <1>4, RestoredState DEF Typed, BookTyped, Held
<1>5. CASE \/ LoadBar \/ SkipBar \/ DrainOverdue \/ RefuseSignals
           \/ CloseBar \/ ReportBar \/ Finish \/ UNCHANGED vars
  BY <1>5
  DEF LoadBar, SkipBar, DrainOverdue, RefuseSignals, CloseBar, ReportBar,
      Finish, Fail, vars, Typed, BookTyped, Held
<1> QED
  BY <1>1, <1>2, <1>3, <1>4, <1>5 DEF Next

LEMMA RiskNext == Inv /\ Valued /\ Typed /\ [Next]_vars => RiskTyped'
<1> SUFFICES ASSUME Inv, Valued, Typed, [Next]_vars PROVE RiskTyped'
  OBVIOUS
<1>l. risk' = risk
  BY DEF Next, LoadBar, SkipBar, DrainOverdue, DrainAtOpen, Rebalance,
         RefuseSignals, CloseBar, FillSameBar, ReportBar, StartChunk, Finish,
         vars
<1>c. CooldownLength' = CooldownLength
  BY <1>l DEF CooldownLength
<1>1. CASE DrainAtOpen \/ FillSameBar
  <2>1. /\ DOMAIN pending' \subseteq DOMAIN pending
        /\ \A s \in DOMAIN pending' : pending'[s] = pending[s]
        /\ UNCHANGED <<riskPositions, cooldowns>>
    BY <1>1 DEF DrainAtOpen, FillSameBar, DrainDue, Restrict
  <2> QED
    BY <1>l, <1>c, <2>1 DEF Typed, RiskTyped
<1>2. CASE Rebalance \/ RefuseSignals
  <2>1. /\ DOMAIN cooldowns' \subseteq DOMAIN cooldowns
        /\ \A s \in DOMAIN cooldowns' : cooldowns'[s] = cooldowns[s]
        /\ UNCHANGED <<riskPositions, pending>>
    BY <1>2 DEF Rebalance, RefuseSignals, ReentryDecisions, Restrict
  <2> QED
    BY <1>l, <1>c, <2>1 DEF Typed, RiskTyped
<1>3. CASE CloseBar
  <2>1. CASE UNCHANGED riskVars
    BY <2>1, <1>l, <1>c DEF riskVars, Typed, RiskTyped
  <2>2. CASE \E equity \in Equities :
               Evaluate(RiskBars, book, equity, closedAt)
    <3>1. HitBars(RiskBars)
      BY <1>3, RiskBarsTyped DEF CloseBar, Typed, Valued
    <3>2. NothingPending /\ Clock
      BY <1>3 DEF CloseBar, Inv, DrainedInTime
    <3>3. UNCHANGED <<risk, book>>
      BY <1>3 DEF CloseBar
    <3> QED
      BY <2>2, <3>1, <3>2, <3>3, EvaluateTyped DEF Typed
  <2> QED
    BY <1>3, <2>1, <2>2 DEF CloseBar
<1>4. CASE StartChunk
  BY <1>4, <1>l, <1>c, RestoredState DEF Typed, RiskTyped
<1>5. CASE \/ LoadBar \/ SkipBar \/ DrainOverdue \/ ReportBar \/ Finish
           \/ UNCHANGED vars
  <2>1. UNCHANGED riskVars
    BY <1>5
    DEF LoadBar, SkipBar, DrainOverdue, ReportBar, Finish, Fail, vars
  <2> QED
    BY <2>1, <1>l, <1>c DEF riskVars, Typed, RiskTyped
<1> QED
  BY <1>1, <1>2, <1>3, <1>4, <1>5 DEF Next

LEMMA RowsBooked ==
  ASSUME RowsTyped, NEW accepted, NEW time, NEW atClose,
         \A s \in DOMAIN accepted : s \in Symbols /\ accepted[s] \in Int
  PROVE  /\ \A s \in Symbols :
              /\ Booked(accepted)[s] \in Int
              /\ Booked(accepted)[s] = ledger[s]
                   + (IF s \in DOMAIN accepted THEN accepted[s] ELSE 0)
         /\ \A row \in Rows(accepted, time, atClose) :
              /\ row.symbol \in DOMAIN accepted
              /\ row.symbol \in Symbols
              /\ row.fill_time = time
              /\ accepted[row.symbol] # 0
         /\ \A row, other \in Rows(accepted, time, atClose) :
              row.symbol = other.symbol => row = other
<1>1. \A s \in Symbols :
        /\ Booked(accepted)[s] \in Int
        /\ Booked(accepted)[s] = ledger[s]
             + (IF s \in DOMAIN accepted THEN accepted[s] ELSE 0)
  BY DEF Booked, RowsTyped
<1>2. \A row \in Rows(accepted, time, atClose) :
        \E s \in DOMAIN accepted :
          accepted[s] # 0 /\ row = Row(s, time, accepted[s], atClose)
  BY DEF Rows
<1>3. \A s, delta : Row(s, time, delta, atClose).symbol = s
                    /\ Row(s, time, delta, atClose).fill_time = time
  BY DEF Row
<1>4. \A row \in Rows(accepted, time, atClose) :
        /\ row.symbol \in DOMAIN accepted
        /\ row.fill_time = time
        /\ accepted[row.symbol] # 0
        /\ row = Row(row.symbol, time, accepted[row.symbol], atClose)
  BY <1>2, <1>3
<1> QED
  BY <1>1, <1>4

(* What the arbitration of a rebalance lets through.                       *)
LEMMA ArbitratedTyped ==
  ASSUME Valued, Typed, phase = "rebalance", NEW signal \in Signals,
         NEW suppressed
  PROVE  LET traded == [s \in DOMAIN Processed(signal) |->
                          Processed(signal)[s] - Quantity(s)]
             accepted == Arbitrated(traded, suppressed)
         IN /\ DOMAIN accepted
                 = DOMAIN riskFills \cup (DOMAIN traded \ suppressed)
            /\ \A s \in DOMAIN accepted :
                 /\ s \in Symbols
                 /\ accepted[s] \in Int
                 /\ accepted[s] = IF s \in DOMAIN riskFills
                                  THEN riskFills[s] ELSE traded[s]
<1> DEFINE traded == [s \in DOMAIN Processed(signal) |->
                        Processed(signal)[s] - Quantity(s)]
<1>1. \A s \in DOMAIN traded : s \in Symbols /\ traded[s] \in Int
  BY TradedTyped
<1>2. \A s \in DOMAIN riskFills : s \in Symbols /\ riskFills[s] \in Int
  BY DEF Typed, RowsTyped
<1> HIDE DEF traded
<1>3. /\ DOMAIN Arbitrated(traded, suppressed)
           = DOMAIN riskFills \cup (DOMAIN traded \ suppressed)
      /\ \A s \in DOMAIN Arbitrated(traded, suppressed) :
           Arbitrated(traded, suppressed)[s]
             = IF s \in DOMAIN riskFills THEN riskFills[s] ELSE traded[s]
  BY DEF Arbitrated
<1>4. \A s \in DOMAIN Arbitrated(traded, suppressed) :
        s \in Symbols /\ Arbitrated(traded, suppressed)[s] \in Int
  BY <1>1, <1>2, <1>3
<1> QED
  BY <1>3, <1>4 DEF traded

LEMMA RowsNext == Inv /\ Valued /\ Typed /\ [Next]_vars => RowsTyped'
<1> SUFFICES ASSUME Inv, Valued, Typed, [Next]_vars PROVE RowsTyped'
  OBVIOUS
<1>l. portfolio' = portfolio /\ phase' \in Phases
  BY DEF Next, LoadBar, SkipBar, DrainOverdue, DrainAtOpen, Rebalance,
         RefuseSignals, CloseBar, FillSameBar, ReportBar, StartChunk,
         Continue, Finish, Fail, Phases, vars, Typed, RowsTyped
<1>1. CASE DrainAtOpen
  <2>1. \A s \in DOMAIN riskFills' : s \in Symbols /\ riskFills'[s] \in Int
    BY <1>1, ExitsTyped DEF DrainAtOpen
  <2> QED
    BY <1>1, <1>l, <2>1 DEF DrainAtOpen, Typed, RowsTyped
<1>2. CASE Rebalance
  <2>1. PICK signal \in Signals :
          LET traded == [s \in DOMAIN Processed(signal) |->
                           Processed(signal)[s] - Quantity(s)]
          IN \E suppressed \in Suppressions(signal) :
               LET accepted == Arbitrated(traded, suppressed)
               IN /\ trades' = trades \cup Rows(accepted, now, FALSE)
                  /\ ledger' = Booked(accepted)
    BY <1>2 DEF Rebalance
  <2>2. PICK suppressed \in Suppressions(signal) :
          LET traded == [s \in DOMAIN Processed(signal) |->
                           Processed(signal)[s] - Quantity(s)]
              accepted == Arbitrated(traded, suppressed)
          IN /\ trades' = trades \cup Rows(accepted, now, FALSE)
             /\ ledger' = Booked(accepted)
    BY <2>1
  <2> DEFINE accepted == Arbitrated([s \in DOMAIN Processed(signal) |->
                           Processed(signal)[s] - Quantity(s)], suppressed)
  <2>3. \A s \in DOMAIN accepted : s \in Symbols /\ accepted[s] \in Int
    BY <1>2, ArbitratedTyped DEF Rebalance
  <2>4. trades' = trades \cup Rows(accepted, now, FALSE)
        /\ ledger' = Booked(accepted)
    BY <2>2
  <2> HIDE DEF accepted
  <2>5. /\ \A s \in Symbols : ledger'[s] \in Int
        /\ \A row \in trades' : row.symbol \in Symbols
    BY <2>3, <2>4, RowsBooked DEF Typed, RowsTyped
  <2> QED
    BY <1>2, <1>l, <2>5 DEF Rebalance, Typed, RowsTyped
<1>3. CASE FillSameBar
  <2> DEFINE exits == [s \in Due(closedAt) |-> ExitDelta(s, book)]
  <2>1. \A s \in DOMAIN exits : s \in Symbols /\ exits[s] \in Int
    BY ExitsTyped
  <2>2. trades' = trades \cup Rows(exits, closedAt, TRUE)
        /\ ledger' = Booked(exits)
    BY <1>3 DEF FillSameBar
  <2> HIDE DEF exits
  <2>3. /\ \A s \in Symbols : ledger'[s] \in Int
        /\ \A row \in trades' : row.symbol \in Symbols
    BY <2>1, <2>2, RowsBooked DEF Typed, RowsTyped
  <2> QED
    BY <1>3, <1>l, <2>3 DEF FillSameBar, Typed, RowsTyped
<1>4. CASE ReportBar
  <2>1. trades' \subseteq trades
    BY <1>4 DEF ReportBar, Ambiguous
  <2> QED
    BY <1>4, <1>l, <2>1 DEF ReportBar, Empty, Typed, RowsTyped
<1>5. CASE StartChunk
  <2>1. trades' \subseteq trades
    BY <1>5 DEF StartChunk, Continue
  <2> QED
    BY <1>5, <1>l, <2>1 DEF StartChunk, Typed, RowsTyped
<1>6. CASE \/ LoadBar \/ SkipBar \/ DrainOverdue \/ RefuseSignals
           \/ CloseBar \/ Finish \/ UNCHANGED vars
  BY <1>6, <1>l
  DEF LoadBar, SkipBar, DrainOverdue, RefuseSignals, CloseBar, Finish, Fail,
      vars, Typed, RowsTyped
<1> QED
  BY <1>1, <1>2, <1>3, <1>4, <1>5, <1>6 DEF Next

LEMMA TypedInvariance == Spec => []Typed
<1>1. Init => Typed
  <2> SUFFICES ASSUME Init PROVE Typed
    OBVIOUS
  <2>1. PricesTyped /\ BookTyped
    BY DEF Init, Empty, PricesTyped, BookTyped, Held
  <2>2. RiskTyped
    BY DEF Init, RiskInit, Empty, RiskTyped
  <2>3. RowsTyped
    BY DEF Init, Empty, RowsTyped, Phases
  <2> QED
    BY <2>1, <2>2, <2>3 DEF Typed
<1>2. Inv /\ Valued /\ Typed /\ [Next]_vars => Typed'
  BY PricesNext, BookNext, RiskNext, RowsNext DEF Typed
<1> QED
  BY <1>1, <1>2, Invariance, ValuedInvariance, PTL DEF Spec

(* Every variable keeps its type: positions are never of size 0, and every *)
(* average, mark and extreme is a price.                                   *)
THEOREM TypeCorrect == Spec => []TypeOK
<1>1. Inv /\ Typed => TypeOK
  <2> SUFFICES ASSUME Inv, Typed PROVE TypeOK
    OBVIOUS
  <2>1. \A s \in DOMAIN cooldowns :
          cooldowns[s].trigger_index < cooldowns[s].release_index
    <3>1. CooldownLength \in Nat \ {0}
      BY ConfigAssumption
      DEF Typed, RiskTyped, LegalRisk, CooldownLength
    <3> QED
      BY <3>1 DEF Typed, RiskTyped
  <2> QED
    BY <2>1
    DEF TypeOK, Inv, Clock, Typed, PricesTyped, BookTyped, RiskTyped,
        RowsTyped, Held
<1> QED
  BY <1>1, Invariance, TypedInvariance, PTL

-----------------------------------------------------------------------------
(* The trade rows and the book.  Exits drained at an open are in the book  *)
(* at once and in the rows only after the rebalance of that open; a        *)
(* rebalance trades no contract of theirs, and executes nothing that the   *)
(* arbitration then suppresses, as long as positions do not replace each   *)
(* other.                                                                  *)
Explained ==
  ~Replacing =>
    \A s \in Symbols :
      ledger[s] = Quantity(s)
        - (IF phase = "rebalance" /\ s \in DOMAIN riskFills
           THEN riskFills[s] ELSE 0)

LEMMA ScheduledTradesAreOwn ==
  ASSUME ~Replacing, NEW signal, NEW suppressed \in Suppressions(signal)
  PROVE  /\ DOMAIN Processed(signal) \cap DOMAIN riskFills = {}
         /\ DOMAIN Processed(signal) \cap suppressed = {}
<1>1. DOMAIN Processed(signal) = Allowed(signal)
  BY DEF Processed, Replaced
<1>2. \A s \in Allowed(signal) :
        /\ s \in DOMAIN market
        /\ s \notin DOMAIN riskFills
        /\ ~CoolingDown(signal, s)
  BY DEF Allowed, Blocked
<1>3. \A s \in suppressed : s \notin DOMAIN market \/ CoolingDown(signal, s)
  BY DEF Suppressions
<1> QED
  BY <1>1, <1>2, <1>3

LEMMA ExplainedNext ==
  Inv /\ Valued /\ Typed /\ Explained /\ [Next]_vars => Explained'
<1> SUFFICES ASSUME Inv, Valued, Typed, Explained, [Next]_vars, ~Replacing'
             PROVE  \A s \in Symbols :
                      ledger'[s] = Quantity(s)'
                        - (IF phase' = "rebalance" /\ s \in DOMAIN riskFills'
                           THEN riskFills'[s] ELSE 0)
  BY DEF Explained
<1>p. portfolio' = portfolio
  BY DEF Next, LoadBar, SkipBar, DrainOverdue, DrainAtOpen, Rebalance,
         RefuseSignals, CloseBar, FillSameBar, ReportBar, StartChunk, Finish,
         vars
<1>r. ~Replacing
  BY <1>p DEF Replacing
<1>q. \A s \in Symbols : Quantity(s) \in Int /\ ledger[s] \in Int
  BY DEF Quantity, Typed, BookTyped, RowsTyped
<1>1. CASE DrainAtOpen
  <2> DEFINE exits == [s \in Due(now) |-> ExitDelta(s, book)]
  <2>1. \A s \in DOMAIN exits :
           s \in Symbols /\ exits[s] \in Int /\ OpenMarks[s] \in Int
    BY <1>1, ExitsTyped DEF DrainAtOpen
  <2>2. /\ book' = Executed(exits, OpenMarks) /\ riskFills' = exits
        /\ phase = "drain" /\ phase' = "rebalance" /\ ledger' = ledger
    BY <1>1 DEF DrainAtOpen
  <2> HIDE DEF exits
  <2>3. \A s : Quantity(s)' = Quantity(s)
                 + (IF s \in DOMAIN exits THEN exits[s] ELSE 0)
    BY <2>1, <2>2, ExecutedMoves DEF Typed
  <2>4. \A s \in Symbols : ledger[s] = Quantity(s)
    BY <1>r, <1>q, <2>2 DEF Explained
  <2> QED
    BY <1>q, <2>1, <2>2, <2>3, <2>4
<1>2. CASE Rebalance
  <2>1. PICK signal \in Signals :
          LET traded == [s \in DOMAIN Processed(signal) |->
                           Processed(signal)[s] - Quantity(s)]
          IN /\ book' = Executed(traded, OpenMarks)
             /\ \E suppressed \in Suppressions(signal) :
                  ledger' = Booked(Arbitrated(traded, suppressed))
    BY <1>2 DEF Rebalance
  <2> DEFINE traded == [s \in DOMAIN Processed(signal) |->
                          Processed(signal)[s] - Quantity(s)]
  <2>2. PICK suppressed \in Suppressions(signal) :
          ledger' = Booked(Arbitrated(traded, suppressed))
    BY <2>1
  <2> DEFINE accepted == Arbitrated(traded, suppressed)
  <2>3. /\ DOMAIN accepted
             = DOMAIN riskFills \cup (DOMAIN traded \ suppressed)
        /\ \A s \in DOMAIN accepted :
             /\ s \in Symbols
             /\ accepted[s] \in Int
             /\ accepted[s] = IF s \in DOMAIN riskFills
                              THEN riskFills[s] ELSE traded[s]
    <3>1. phase = "rebalance"
      BY <1>2 DEF Rebalance
    <3> QED
      BY <3>1, ArbitratedTyped, Zenon
  <2>4. \A s \in DOMAIN traded :
           s \in Symbols /\ traded[s] \in Int /\ OpenMarks[s] \in Int
    BY <1>2, TradedTyped DEF Rebalance
  <2>5. /\ DOMAIN traded \cap DOMAIN riskFills = {}
        /\ DOMAIN traded \cap suppressed = {}
    BY <1>r, ScheduledTradesAreOwn
  <2>6. book' = Executed(traded, OpenMarks) /\ ledger' = Booked(accepted)
    BY <2>1, <2>2
  <2> HIDE DEF accepted, traded
  <2>7. \A s : Quantity(s)' = Quantity(s)
                 + (IF s \in DOMAIN traded THEN traded[s] ELSE 0)
    BY <2>4, <2>6, ExecutedMoves DEF Typed
  <2>8. \A s \in Symbols :
          ledger'[s] = ledger[s]
            + (IF s \in DOMAIN accepted THEN accepted[s] ELSE 0)
    BY <2>3, <2>6, RowsBooked DEF Typed
  <2>9. \A s \in DOMAIN riskFills : riskFills[s] \in Int
    BY DEF Typed, RowsTyped
  <2>10. phase = "rebalance" /\ phase' = "close"
    BY <1>2 DEF Rebalance
  <2>11. \A s \in Symbols :
           ledger[s] = Quantity(s)
             - (IF s \in DOMAIN riskFills THEN riskFills[s] ELSE 0)
    BY <1>r, <2>10 DEF Explained
  <2>12. ASSUME NEW s \in Symbols PROVE ledger'[s] = Quantity(s)'
    <3>1. CASE s \in DOMAIN riskFills
      BY <3>1, <1>q, <2>3, <2>5, <2>7, <2>8, <2>9, <2>11
    <3>2. CASE s \in DOMAIN traded
      BY <3>2, <1>q, <2>3, <2>4, <2>5, <2>7, <2>8, <2>11
    <3>3. CASE s \notin DOMAIN riskFills /\ s \notin DOMAIN traded
      BY <3>3, <1>q, <2>3, <2>7, <2>8, <2>11
    <3> QED
      BY <3>1, <3>2, <3>3
  <2>13. \A s \in Symbols : Quantity(s)' \in Int
    BY <1>q, <2>4, <2>7
  <2> QED
    BY <2>10, <2>12, <2>13
<1>3. CASE FillSameBar
  <2> DEFINE exits == [s \in Due(closedAt) |-> ExitDelta(s, book)]
  <2>1. \A s \in DOMAIN exits :
           s \in Symbols /\ exits[s] \in Int /\ CloseMarks[s] \in Int
    BY <1>3, ExitsTyped DEF FillSameBar
  <2>2. /\ book' = Executed(exits, CloseMarks)
        /\ ledger' = Booked(exits)
        /\ phase = "fill" /\ phase' = "report"
    BY <1>3 DEF FillSameBar
  <2> HIDE DEF exits
  <2>3. \A s : Quantity(s)' = Quantity(s)
                 + (IF s \in DOMAIN exits THEN exits[s] ELSE 0)
    BY <2>1, <2>2, ExecutedMoves DEF Typed
  <2>4. \A s \in Symbols :
          ledger'[s] = ledger[s]
            + (IF s \in DOMAIN exits THEN exits[s] ELSE 0)
    BY <2>1, <2>2, RowsBooked DEF Typed
  <2>5. \A s \in Symbols : ledger[s] = Quantity(s)
    BY <1>r, <1>q, <2>2 DEF Explained
  <2> QED
    BY <1>q, <2>1, <2>2, <2>3, <2>4, <2>5
<1>4. CASE StartChunk
  <2>1. \A s : Quantity(s)' = Quantity(s)
    BY <1>4, RestoredState DEF Quantity, Held
  <2>2. /\ ledger' = ledger /\ phase = "load" /\ phase' \in {"load", "failed"}
    BY <1>4 DEF StartChunk, Continue, Fail
  <2> QED
    BY <1>r, <1>q, <2>1, <2>2 DEF Explained
<1>5. CASE \/ LoadBar \/ SkipBar \/ DrainOverdue \/ CloseBar \/ ReportBar
           \/ Finish
  <2>1. /\ phase # "rebalance" /\ phase' # "rebalance"
        /\ UNCHANGED <<ledger, book>>
    BY <1>5
    DEF LoadBar, SkipBar, DrainOverdue, CloseBar, ReportBar, Finish, Fail
  <2>2. \A s : Quantity(s)' = Quantity(s)
    BY <2>1 DEF Quantity, Held
  <2> QED
    BY <1>r, <1>q, <2>1, <2>2 DEF Explained
<1>6. CASE RefuseSignals
  BY <1>6, <1>r DEF RefuseSignals
<1>7. CASE UNCHANGED vars
  <2>1. \A s : Quantity(s)' = Quantity(s)
    BY <1>7 DEF Quantity, Held, vars
  <2> QED
    BY <1>r, <1>7, <2>1 DEF Explained, vars
<1> QED
  BY <1>1, <1>2, <1>3, <1>4, <1>5, <1>6, <1>7 DEF Next

(* Trades are the only fact table of fills (v2_design.md section 9): at    *)
(* every point of the loop the book is the sum of the rows, unless         *)
(* positions replace each other.                                           *)
THEOREM TradesExplain == Spec => []TradesExplainBook
<1>1. Init => Explained
  BY DEF Init, Empty, Explained, Quantity, Held
<1>2. Typed /\ Explained => TradesExplainBook
  <2> SUFFICES ASSUME Typed, Explained, ~Replacing, phase # "rebalance",
                      NEW s \in Symbols
               PROVE  ledger[s] = Quantity(s)
    BY DEF TradesExplainBook, BookIsSumOfTrades
  <2>1. Quantity(s) \in Int
    BY DEF Quantity, Typed, BookTyped
  <2> QED
    BY <2>1 DEF Explained
<1> QED
  BY <1>1, <1>2, ExplainedNext, Invariance, ValuedInvariance,
     TypedInvariance, PTL DEF Spec

-----------------------------------------------------------------------------
(* Action properties.                                                      *)

LEMMA DrainedMoves ==
  ASSUME Inv, Typed, Valued, NEW time, NEW price,
         \A s \in Due(time) : price[s] \in Int,
         book' = Executed([s \in Due(time) |-> ExitDelta(s, book)], price)
  PROVE  \A s : \/ Quantity(s)' = Quantity(s)
                \/ /\ s \in Due(time) /\ s \in DOMAIN pending /\ s \in Held
                   /\ Quantity(s)' * Quantity(s) >= 0
                   /\ Magnitude(Quantity(s)') < Magnitude(Quantity(s))
<1> DEFINE exits == [s \in Due(time) |-> ExitDelta(s, book)]
<1>1. \A s \in DOMAIN exits : s \in Symbols /\ exits[s] \in Int
  BY ExitsTyped
<1>2. \A s : Quantity(s)' = Quantity(s)
               + (IF s \in DOMAIN exits THEN exits[s] ELSE 0)
  <2> HIDE DEF exits
  <2>1. DOMAIN exits = Due(time) /\ book' = Executed(exits, price)
    BY DEF exits
  <2> QED
    BY <1>1, <2>1, ExecutedMoves DEF Typed
<1> TAKE s
<1>3. Quantity(s) \in Int
  BY DEF Quantity, Typed, BookTyped
<1>4. CASE s \notin Due(time)
  <2>1. Quantity(s)' = Quantity(s) + 0
    BY <1>2, <1>4
  <2> QED
    BY <1>3, <2>1
<1>5. CASE s \in Due(time)
  <2>1. s \in DOMAIN pending /\ s \in Held
    BY <1>5 DEF Due, Inv, PendingExitsAreLive
  <2>2. pending[s].reduce \in 1 .. 100
    BY <2>1 DEF Typed, RiskTyped
  <2>3. Quantity(s)' = Quantity(s) + ExitDelta(s, book)
    BY <1>2, <1>5
  <2> QED
    BY <1>5, <2>1, <2>2, <2>3, ExitShrinks DEF Typed
<1> QED
  BY <1>4, <1>5

(* Whatever traded since its trigger, an exit only shrinks its position.   *)
THEOREM ExitsShrink == Spec => ExitsOnlyShrink
<1>1. Inv /\ Valued /\ Typed /\ [Next]_vars =>
        [\A s \in Symbols :
           phase \in {"drain", "fill"} /\ Quantity(s)' # Quantity(s) =>
             /\ s \in DOMAIN pending
             /\ Quantity(s)' * Quantity(s) >= 0
             /\ Magnitude(Quantity(s)') < Magnitude(Quantity(s))]_vars
  <2> SUFFICES ASSUME Inv, Valued, Typed, Next, NEW s \in Symbols,
                      phase \in {"drain", "fill"},
                      Quantity(s)' # Quantity(s)
               PROVE  /\ s \in DOMAIN pending
                      /\ Quantity(s)' * Quantity(s) >= 0
                      /\ Magnitude(Quantity(s)') < Magnitude(Quantity(s))
    OBVIOUS
  <2>1. CASE DrainAtOpen
    <3>1. \A t \in Due(now) : OpenMarks[t] \in Int
      BY ExitsTyped
    <3>2. book' = Executed([t \in Due(now) |-> ExitDelta(t, book)], OpenMarks)
      BY <2>1 DEF DrainAtOpen
    <3> QED
      BY <3>1, <3>2, DrainedMoves
  <2>2. CASE FillSameBar
    <3>1. \A t \in Due(closedAt) : CloseMarks[t] \in Int
      BY ExitsTyped
    <3>2. book' = Executed([t \in Due(closedAt) |-> ExitDelta(t, book)],
                           CloseMarks)
      BY <2>2 DEF FillSameBar
    <3> QED
      BY <3>1, <3>2, DrainedMoves
  <2>3. CASE DrainOverdue
    BY <2>3 DEF DrainOverdue, Quantity, Held
  <2> QED
    BY <2>1, <2>2, <2>3
    DEF Next, LoadBar, SkipBar, Rebalance, RefuseSignals, CloseBar, ReportBar,
        StartChunk, Finish
<1> QED
  BY <1>1, Invariance, ValuedInvariance, TypedInvariance, PTL
  DEF Spec, ExitsOnlyShrink

LEMMA BestIsBest ==
  ASSUME NEW direction, NEW a \in Int, NEW b \in Int
  PROVE  Best(direction, Best(direction, a, b), a) = Best(direction, a, b)
<1>1. Sign(direction) \in {1, -1}
  BY DEF Sign
<1> QED
  BY <1>1 DEF Best

LEMMA ExtremeKept ==
  ASSUME Typed, NEW bars, HitBars(bars), NEW equity,
         Evaluate(bars, book, equity, closedAt),
         NEW s \in DOMAIN riskPositions, s \in DOMAIN riskPositions',
         riskPositions'[s].direction = riskPositions[s].direction
  PROVE  Best(riskPositions'[s].direction, riskPositions'[s].extreme,
              riskPositions[s].extreme) = riskPositions'[s].extreme
<1> DEFINE p == SyncPositions(book)[s]
           best == Best(p.direction, p.extreme, Favorable(p, bars[s]))
<1>1. s \in Held
  BY DEF Evaluate, Held
<1>2. p \in RiskPosition /\ p.direction = Direction(book[s].quantity)
      /\ (Continues(s, book) => p.extreme = riskPositions[s].extreme)
  BY <1>1, SyncedPosition DEF Typed
<1>3. \E triggers : riskPositions'[s] =
        [p EXCEPT !.triggers = triggers, !.extreme = best]
  BY <1>1 DEF Evaluate, Held
<1>4. riskPositions'[s].direction = p.direction
      /\ riskPositions'[s].extreme = best
  <2> HIDE DEF p, best
  <2> QED
    BY <1>2, <1>3 DEF RiskPosition
<1>5. Continues(s, book)
  BY <1>2, <1>4 DEF Continues
<1>6. p.extreme \in Int /\ Favorable(p, bars[s]) \in Int
  BY <1>1, <1>2 DEF RiskPosition, Favorable, HitBars
<1> HIDE DEF p
<1> QED
  BY <1>2, <1>4, <1>5, <1>6, BestIsBest

(* A confirmed favourable extreme never retreats while the position stays  *)
(* in its direction, additions, reductions and chunks included.            *)
THEOREM TrailingHolds == Spec => TrailingNeverRetreats
<1>1. Inv /\ Valued /\ Typed /\ [Next]_vars =>
        [\A s \in DOMAIN riskPositions \cap DOMAIN riskPositions' :
           LET before == riskPositions[s]
               after == riskPositions'[s]
           IN before.direction = after.direction =>
                Best(after.direction, after.extreme, before.extreme)
                  = after.extreme]_vars
  <2> SUFFICES ASSUME Inv, Valued, Typed, Next,
                      NEW s \in DOMAIN riskPositions \cap DOMAIN riskPositions',
                      riskPositions[s].direction = riskPositions'[s].direction
               PROVE  Best(riskPositions'[s].direction,
                           riskPositions'[s].extreme,
                           riskPositions[s].extreme)
                        = riskPositions'[s].extreme
    OBVIOUS
  <2>1. CASE riskPositions'[s] = riskPositions[s]
    BY <2>1 DEF Best
  <2>2. CASE CloseBar /\ riskPositions' # riskPositions
    <3>1. PICK equity \in Equities :
            Evaluate(RiskBars, book, equity, closedAt)
      BY <2>2 DEF CloseBar, riskVars
    <3>2. HitBars(RiskBars)
      BY <2>2, RiskBarsTyped DEF CloseBar, Typed, Valued
    <3> QED
      BY <3>1, <3>2, ExtremeKept
  <2>3. CASE StartChunk
    BY <2>1, <2>3, RestoredState
  <2>4. CASE riskPositions' = riskPositions
    BY <2>1, <2>4
  <2> QED
    BY <2>2, <2>3, <2>4
    DEF Next, LoadBar, SkipBar, DrainOverdue, DrainAtOpen, Rebalance,
        RefuseSignals, FillSameBar, ReportBar, Finish, riskVars
<1> QED
  BY <1>1, Invariance, ValuedInvariance, TypedInvariance, PTL
  DEF Spec, TrailingNeverRetreats

(* What a rebalance leaves with a position may be entered: its contract    *)
(* is not cooling down, and a target of nothing leaves none.               *)
LEMMA TargetsMayBeEntered ==
  ASSUME NEW signal, NEW s \in DOMAIN Processed(signal),
         Processed(signal)[s] # 0
  PROVE  s \in Allowed(signal) /\ ReentryAllowed(s)
<1>1. s \notin Replaced(signal) /\ s \in Allowed(signal)
  BY DEF Processed
<1>2. TargetWeight => Processed(signal)[s] = Wanted(signal, s) * Unit
  BY <1>1 DEF Processed
<1>3. Wanted(signal, s) = 0 => Wanted(signal, s) * Unit = 0
  BY MarketAssumption
<1>4. ~ClosingTarget(signal, s)
  BY <1>2, <1>3 DEF ClosingTarget
<1> QED
  BY <1>1, <1>4 DEF Allowed, Blocked, CoolingDown

(* A contract is never entered at the evaluation count of its last exit.   *)
LEMMA ReentryIsLater ==
  ASSUME Inv, Typed, NEW s \in DOMAIN cooldowns, ReentryAllowed(s)
  PROVE  /\ evaluationCount > cooldowns[s].trigger_index
         /\ risk.reentry_policy = "after_cooldown" =>
              evaluationCount
                >= cooldowns[s].trigger_index + risk.cooldown_bars
<1>1. /\ cooldowns[s].trigger_index \in Nat
      /\ cooldowns[s].release_index
           = cooldowns[s].trigger_index + CooldownLength
  BY DEF Typed, RiskTyped
<1>2. /\ risk.cooldown_bars \in Nat
      /\ CooldownLength \in Nat \ {0} /\ CooldownLength >= risk.cooldown_bars
  BY ConfigAssumption DEF Typed, RiskTyped, LegalRisk, CooldownLength
<1>3. evaluationCount \in Nat
  BY DEF Inv, Clock
<1> QED
  BY <1>1, <1>2, <1>3 DEF ReentryAllowed

(* Only a scheduled signal that the reentry policy lets through, for a     *)
(* target that is not flat, can open a position.                           *)
LEMMA OpenedByRebalance ==
  ASSUME Inv, Valued, Typed, Next, NEW s \in Symbols, Opened(s)
  PROVE  Rebalance /\ ReentryAllowed(s)
<1>1. /\ Quantity(s)' # 0
      /\ Quantity(s)' # Quantity(s)
      /\ s \in Held => Quantity(s)' * Quantity(s) < 0
  <2>1. book'[s].quantity \in Int \ {0} /\ Quantity(s)' = book'[s].quantity
    BY BookNext DEF Opened, BookTyped, Quantity, Held
  <2>2. CASE s \notin Held
    BY <2>1, <2>2 DEF Quantity
  <2>3. CASE s \in Held
    <3>1. book[s].quantity \in Int /\ Quantity(s) = book[s].quantity
      BY <2>3 DEF Typed, BookTyped, Quantity
    <3>2. book[s].quantity * book'[s].quantity < 0
      BY <2>3 DEF Opened, Held
    <3>3. \A q \in Int : q * q >= 0
      OBVIOUS
    <3> QED
      BY <2>1, <3>1, <3>2, <3>3
  <2> QED
    BY <2>2, <2>3
<1>2. CASE DrainAtOpen \/ FillSameBar
  <2>1. \A t \in Due(now) : OpenMarks[t] \in Int
    BY <1>2, ExitsTyped DEF DrainAtOpen, FillSameBar
  <2>2. \A t \in Due(closedAt) : CloseMarks[t] \in Int
    BY <1>2, ExitsTyped DEF DrainAtOpen, FillSameBar
  <2>3. \/ book' = Executed([t \in Due(now) |-> ExitDelta(t, book)], OpenMarks)
        \/ book' = Executed([t \in Due(closedAt) |-> ExitDelta(t, book)],
                            CloseMarks)
    BY <1>2 DEF DrainAtOpen, FillSameBar
  <2>4. s \in Held /\ Quantity(s)' * Quantity(s) >= 0
    BY <1>1, <2>1, <2>2, <2>3, DrainedMoves
  <2>5. Quantity(s) \in Int /\ Quantity(s)' \in Int
    BY BookNext DEF Quantity, Typed, BookTyped, Held
  <2> QED
    BY <1>1, <2>4, <2>5
<1>3. CASE Rebalance
  <2>1. PICK signal \in Signals :
          book' = Executed([t \in DOMAIN Processed(signal) |->
                              Processed(signal)[t] - Quantity(t)], OpenMarks)
    BY <1>3 DEF Rebalance
  <2> DEFINE traded == [t \in DOMAIN Processed(signal) |->
                          Processed(signal)[t] - Quantity(t)]
  <2>2. \A t \in DOMAIN traded :
           t \in Symbols /\ traded[t] \in Int /\ OpenMarks[t] \in Int
    BY <1>3, TradedTyped DEF Rebalance
  <2>3. \A t : Quantity(t)' = Quantity(t)
                 + (IF t \in DOMAIN traded THEN traded[t] ELSE 0)
    <3> HIDE DEF traded
    <3>1. book' = Executed(traded, OpenMarks)
      BY <2>1 DEF traded
    <3> QED
      BY <2>2, <3>1, ExecutedMoves DEF Typed
  <2>4. Quantity(s) \in Int
    BY DEF Quantity, Typed, BookTyped
  <2>5. s \in DOMAIN traded
    BY <1>1, <2>3, <2>4
  <2>6. Processed(signal)[s] \in Int
    BY <2>5, ProcessedTyped DEF Typed
  <2>7. Processed(signal)[s] # 0
    BY <1>1, <2>3, <2>4, <2>5, <2>6
  <2> QED
    BY <1>3, <2>5, <2>7, TargetsMayBeEntered
<1>4. CASE StartChunk
  BY <1>1, <1>4, RestoredState DEF Quantity, Held
<1>5. CASE UNCHANGED book
  BY <1>1, <1>5 DEF Quantity, Held
<1> QED
  BY <1>2, <1>3, <1>4, <1>5
  DEF Next, LoadBar, SkipBar, DrainOverdue, RefuseSignals, CloseBar,
      ReportBar, Finish

(* A contract that an exit took out is not entered again before its        *)
(* reentry policy allows it, counted from its last exit.                   *)
THEOREM CooldownsHold == Spec => ReentryRespectsCooldown
<1>1. Inv /\ Valued /\ Typed /\ [Next]_vars =>
        [\A s \in Symbols :
           Opened(s) /\ s \in DOMAIN cooldowns =>
             IF risk.reentry_policy = "after_cooldown"
             THEN evaluationCount
                    >= cooldowns[s].trigger_index + risk.cooldown_bars
                  /\ evaluationCount > cooldowns[s].trigger_index
             ELSE evaluationCount > cooldowns[s].trigger_index]_vars
  <2> SUFFICES ASSUME Inv, Valued, Typed, Next, NEW s \in Symbols,
                      Opened(s), s \in DOMAIN cooldowns
               PROVE  IF risk.reentry_policy = "after_cooldown"
                      THEN evaluationCount
                             >= cooldowns[s].trigger_index + risk.cooldown_bars
                           /\ evaluationCount > cooldowns[s].trigger_index
                      ELSE evaluationCount > cooldowns[s].trigger_index
    OBVIOUS
  <2>1. ReentryAllowed(s)
    BY OpenedByRebalance
  <2> QED
    BY <2>1, ReentryIsLater
<1> QED
  BY <1>1, Invariance, ValuedInvariance, TypedInvariance, PTL
  DEF Spec, ReentryRespectsCooldown

-----------------------------------------------------------------------------
(* One trade per key.  A same-bar exit has the fill time of the next open, *)
(* so the rebalance there must not trade its contract: it cannot if the    *)
(* exit took all of the position, for nothing is left to close and the     *)
(* contract is cooling down.                                               *)
WholeSameBarExits ==
  \A r \in RiskConfigs :
    r.fill_model = "same_bar_trigger" =>
      \A name \in RuleNames : r.symbol_exits[name].reduce = 100

JustLeft(s) ==
  /\ s \notin Held
  /\ s \in DOMAIN cooldowns
  /\ cooldowns[s].trigger_index = evaluationCount

OneTradePerKey ==
  \A row, other \in trades :
    row.symbol = other.symbol /\ row.fill_time = other.fill_time => row = other

Keys ==
  /\ OneTradePerKey
  /\ \A row \in trades :
       row.fill_time \in Nat
         /\ row.fill_time <= (IF phase = "report" THEN closedAt ELSE now)
  /\ phase \in {"load", "drain", "rebalance"} =>
       \A row \in trades : row.fill_time = now => JustLeft(row.symbol)
  /\ phase = "rebalance" =>
       \A row \in trades : row.fill_time = now =>
         row.symbol \notin DOMAIN riskFills
  /\ phase = "report" =>
       \A row \in trades : row.fill_time = closedAt => JustLeft(row.symbol)
  /\ phase = "fill" => risk.fill_model = "same_bar_trigger"
  /\ risk.fill_model = "same_bar_trigger" =>
       \A s \in DOMAIN pending : pending[s].reduce = 100

LEMMA NoneAmbiguous ==
  ASSUME OneTradePerKey
  PROVE  Ambiguous = {}
BY DEF OneTradePerKey, Ambiguous

LEMMA KeysNext ==
  ASSUME WholeSameBarExits
  PROVE  Inv /\ Valued /\ Typed /\ Keys /\ [Next]_vars => Keys'
<1> SUFFICES ASSUME Inv, Valued, Typed, Keys, [Next]_vars PROVE Keys'
  OBVIOUS
<1>n. now \in Nat /\ closedAt = now + 1
  BY DEF Inv, Clock, closedAt
<1>1. CASE LoadBar
  <2>1. phase = "load" /\ phase' \in {"drain", "failed"}
    BY <1>1 DEF LoadBar, Fail
  <2>2. UNCHANGED <<book, trades, risk, riskVars, now>>
    BY <1>1 DEF LoadBar
  <2> QED
    BY <2>1, <2>2
    DEF Keys, OneTradePerKey, JustLeft, Held, closedAt, riskVars
<1>2. CASE SkipBar
  <2>1. now' \in Nat /\ now' > now /\ phase = "load" /\ phase' = "load"
    BY <1>2, <1>n, ClockAssumption DEF SkipBar
  <2>2. UNCHANGED <<book, trades, risk, riskVars>>
    BY <1>2 DEF SkipBar
  <2>3. \A row \in trades : row.fill_time \in Nat /\ row.fill_time < now'
    BY <1>n, <2>1 DEF Keys
  <2> QED
    BY <1>n, <2>1, <2>2, <2>3
    DEF Keys, OneTradePerKey, JustLeft, Held, closedAt, riskVars
<1>3. CASE DrainAtOpen
  <2>1. DOMAIN riskFills' \subseteq Held
    BY <1>3, ExitsTyped DEF DrainAtOpen
  <2>2. Held' \subseteq Held
    BY <1>3, <2>1, ExecutedHolds DEF DrainAtOpen, Held
  <2>3. /\ phase = "drain" /\ phase' = "rebalance"
        /\ UNCHANGED <<trades, risk, cooldowns, evaluationCount, now>>
        /\ DOMAIN pending' \subseteq DOMAIN pending
        /\ \A s \in DOMAIN pending' : pending'[s] = pending[s]
    BY <1>3 DEF DrainAtOpen, loopVars, DrainDue, Restrict
  <2> QED
    BY <2>1, <2>2, <2>3 DEF Keys, OneTradePerKey, JustLeft, closedAt
<1>4. CASE Rebalance
  <2>1. PICK signal \in Signals :
          LET traded == [s \in DOMAIN Processed(signal) |->
                           Processed(signal)[s] - Quantity(s)]
          IN \E suppressed \in Suppressions(signal) :
               LET accepted == Arbitrated(traded, suppressed)
               IN trades' = trades \cup Rows(accepted, now, FALSE)
    BY <1>4 DEF Rebalance
  <2> DEFINE traded == [s \in DOMAIN Processed(signal) |->
                          Processed(signal)[s] - Quantity(s)]
  <2>2. PICK suppressed \in Suppressions(signal) :
          trades' = trades \cup Rows(Arbitrated(traded, suppressed), now, FALSE)
    BY <2>1
  <2> DEFINE accepted == Arbitrated(traded, suppressed)
  <2>3. phase = "rebalance" /\ phase' = "close"
    BY <1>4 DEF Rebalance
  <2>4. /\ DOMAIN accepted
             = DOMAIN riskFills \cup (DOMAIN traded \ suppressed)
        /\ \A s \in DOMAIN accepted :
             /\ s \in Symbols
             /\ accepted[s] \in Int
             /\ accepted[s] = IF s \in DOMAIN riskFills
                              THEN riskFills[s] ELSE traded[s]
    BY <2>3, ArbitratedTyped, Zenon
  <2>5. \A s \in DOMAIN traded :
          /\ s \in DOMAIN Processed(signal)
          /\ Processed(signal)[s] \in Int
          /\ traded[s] = Processed(signal)[s] - Quantity(s)
    BY ProcessedTyped DEF Typed
  <2>6. trades' = trades \cup Rows(accepted, now, FALSE)
    BY <2>2
  <2> HIDE DEF accepted, traded
  <2>7. \A row \in Rows(accepted, now, FALSE) :
          /\ row.symbol \in DOMAIN accepted
          /\ row.fill_time = now
          /\ accepted[row.symbol] # 0
    <3>1. \A s \in DOMAIN accepted : s \in Symbols /\ accepted[s] \in Int
      BY <2>4
    <3> QED
      BY <3>1, RowsBooked DEF Typed
  <2>8. ASSUME NEW row \in Rows(accepted, now, FALSE),
               NEW other \in trades, other.fill_time = now,
               other.symbol = row.symbol
        PROVE  FALSE
    <3> DEFINE s == row.symbol
    <3>1. JustLeft(s) /\ s \notin DOMAIN riskFills
      BY <2>3, <2>8 DEF Keys
    <3>2. s \in DOMAIN traded /\ traded[s] # 0
      BY <2>4, <2>7, <3>1
    <3>3. Quantity(s) = 0
      BY <3>1 DEF JustLeft, Quantity
    <3>4. s \in DOMAIN Processed(signal) /\ Processed(signal)[s] # 0
      BY <2>5, <3>2, <3>3
    <3>5. ReentryAllowed(s)
      BY <3>4, TargetsMayBeEntered
    <3>6. evaluationCount > cooldowns[s].trigger_index
      BY <3>1, <3>5, ReentryIsLater DEF JustLeft
    <3> QED
      BY <3>1, <3>6 DEF JustLeft, Inv, Clock
  <2>9. OneTradePerKey'
    <3> SUFFICES ASSUME NEW row \in trades', NEW other \in trades',
                        row.symbol = other.symbol,
                        row.fill_time = other.fill_time
                 PROVE  row = other
      BY DEF OneTradePerKey
    <3>1. CASE row \in trades /\ other \in trades
      BY <3>1 DEF Keys, OneTradePerKey
    <3>2. CASE row \in Rows(accepted, now, FALSE)
               /\ other \in Rows(accepted, now, FALSE)
      <4>1. \A s \in DOMAIN accepted : s \in Symbols /\ accepted[s] \in Int
        BY <2>4
      <4> QED
        BY <3>2, <4>1, RowsBooked DEF Typed
    <3>3. CASE row \in Rows(accepted, now, FALSE) /\ other \in trades
      BY <2>7, <2>8, <3>3
    <3>4. CASE row \in trades /\ other \in Rows(accepted, now, FALSE)
      BY <2>7, <2>8, <3>4
    <3> QED
      BY <2>6, <3>1, <3>2, <3>3, <3>4
  <2>10. \A row \in trades' : row.fill_time \in Nat /\ row.fill_time <= now
    <3>1. \A row \in trades : row.fill_time \in Nat /\ row.fill_time <= now
      BY <2>3 DEF Keys
    <3>2. \A row \in Rows(accepted, now, FALSE) :
            row.fill_time \in Nat /\ row.fill_time <= now
      <4>1. now \in Nat /\ now <= now
        BY <1>n
      <4> QED
        BY <2>7, <4>1, Zenon
    <3> QED
      BY <2>6, <3>1, <3>2
  <2>11. UNCHANGED <<risk, pending, now>>
    BY <1>4 DEF Rebalance, loopVars
  <2> QED
    BY <2>3, <2>9, <2>10, <2>11 DEF Keys
<1>5. CASE CloseBar
  <2>1. /\ phase = "close" /\ phase' \in {"fill", "report", "failed"}
        /\ phase' = "fill" => risk.fill_model = "same_bar_trigger"
        /\ UNCHANGED <<trades, risk, now>>
    BY <1>5 DEF CloseBar, Fail
  <2>2. risk.fill_model = "same_bar_trigger" =>
          \A s \in DOMAIN pending' : pending'[s].reduce = 100
    <3> SUFFICES ASSUME risk.fill_model = "same_bar_trigger",
                        NEW s \in DOMAIN pending'
                 PROVE  pending'[s].reduce = 100
      OBVIOUS
    <3>1. CASE UNCHANGED riskVars
      BY <3>1 DEF riskVars, Keys
    <3>2. CASE \E equity \in Equities :
                 Evaluate(RiskBars, book, equity, closedAt)
      <4>1. PICK equity \in Equities :
              Evaluate(RiskBars, book, equity, closedAt)
        BY <3>2
      <4>2. NothingPending
        BY <2>1 DEF Inv, DrainedInTime
      <4>3. /\ s \in Exiting(RiskBars, book, equity)
            /\ pending'[s] = ExitIntent(s, RiskBars, book, equity, closedAt)
        BY <4>1, <4>2 DEF Evaluate, NothingPending, Queued
      <4>4. \A name \in RuleNames : risk.symbol_exits[name].reduce = 100
        BY DEF Typed, RiskTyped, WholeSameBarExits
      <4> QED
        BY <4>3, <4>4, ExitIntentTyped DEF Typed
    <3> QED
      BY <1>5, <3>1, <3>2 DEF CloseBar
  <2>3. \A row \in trades : row.fill_time \in Nat /\ row.fill_time < closedAt
    BY <1>n, <2>1 DEF Keys
  <2>4. closedAt' = closedAt
    BY <2>1 DEF closedAt
  <2> QED
    BY <1>n, <2>1, <2>2, <2>3, <2>4 DEF Keys, OneTradePerKey
<1>6. CASE FillSameBar
  <2> DEFINE exits == [s \in Due(closedAt) |-> ExitDelta(s, book)]
  <2>1. \A s \in DOMAIN exits : /\ s \in Symbols /\ exits[s] \in Int
                                /\ CloseMarks[s] \in Int
                                /\ s \in Held /\ s \in DOMAIN pending
                                /\ exits[s] = ExitDelta(s, book)
    BY <1>6, ExitsTyped DEF FillSameBar, Due
  <2>2. /\ book' = Executed(exits, CloseMarks)
        /\ trades' = trades \cup Rows(exits, closedAt, TRUE)
        /\ phase = "fill" /\ phase' = "report"
    BY <1>6 DEF FillSameBar
  <2>3. /\ UNCHANGED <<risk, cooldowns, evaluationCount, now>>
        /\ DOMAIN pending' \subseteq DOMAIN pending
        /\ \A s \in DOMAIN pending' : pending'[s] = pending[s]
        /\ closedAt' = closedAt
    BY <1>6 DEF FillSameBar, loopVars, DrainDue, Restrict, closedAt
  <2> HIDE DEF exits
  <2>4. \A row \in Rows(exits, closedAt, TRUE) :
          /\ row.symbol \in DOMAIN exits
          /\ row.fill_time = closedAt
    <3>1. \A s \in DOMAIN exits : s \in Symbols /\ exits[s] \in Int
      BY <2>1
    <3> QED
      BY <3>1, RowsBooked DEF Typed
  <2>5. \A row \in trades : row.fill_time \in Nat /\ row.fill_time < closedAt
    BY <1>n, <2>2 DEF Keys
  <2>6. ASSUME NEW s \in DOMAIN exits PROVE JustLeft(s)'
    <3>1. pending[s].reduce = 100
      BY <2>1, <2>2 DEF Keys
    <3>2. Quantity(s) + exits[s] = 0
      BY <2>1, <3>1, ExitShrinks DEF Typed
    <3>3. Quantity(s)' = 0
      BY <2>1, <2>2, <3>2, ExecutedMoves DEF Typed
    <3>4. BookTyped'
      BY <1>6, BookNext
    <3>5. s \notin Held'
      BY <3>3, <3>4 DEF BookTyped, Quantity
    <3>6. s \in DOMAIN cooldowns
          /\ cooldowns[s].trigger_index = evaluationCount
      BY <2>1 DEF Inv, PendingExitsAreLive
    <3> QED
      BY <2>3, <3>5, <3>6 DEF JustLeft
  <2>7. OneTradePerKey'
    <3> SUFFICES ASSUME NEW row \in trades', NEW other \in trades',
                        row.symbol = other.symbol,
                        row.fill_time = other.fill_time
                 PROVE  row = other
      BY DEF OneTradePerKey
    <3>1. CASE row \in trades /\ other \in trades
      BY <3>1 DEF Keys, OneTradePerKey
    <3>2. CASE row \in Rows(exits, closedAt, TRUE)
               /\ other \in Rows(exits, closedAt, TRUE)
      <4>1. \A s \in DOMAIN exits : s \in Symbols /\ exits[s] \in Int
        BY <2>1
      <4> QED
        BY <3>2, <4>1, RowsBooked DEF Typed
    <3>3. row \in trades <=> other \in trades
      <4>1. \A old \in trades : old.fill_time # closedAt
        BY <1>n, <2>5
      <4>2. \A new \in Rows(exits, closedAt, TRUE) : new.fill_time = closedAt
        BY <2>4
      <4> QED
        BY <2>2, <4>1, <4>2
    <3> QED
      BY <2>2, <3>1, <3>2, <3>3
  <2>8. \A row \in trades' :
          /\ row.fill_time \in Nat /\ row.fill_time <= closedAt
          /\ row.fill_time = closedAt => JustLeft(row.symbol)'
    <3> TAKE row \in trades'
    <3>1. CASE row \in trades
      BY <1>n, <2>5, <3>1
    <3>2. CASE row \in Rows(exits, closedAt, TRUE)
      <4>1. row.fill_time = closedAt /\ row.symbol \in DOMAIN exits
        BY <2>4, <3>2
      <4>2. JustLeft(row.symbol)'
        BY <2>6, <4>1
      <4> QED
        BY <1>n, <4>1, <4>2
    <3> QED
      BY <2>2, <3>1, <3>2
  <2> QED
    BY <2>2, <2>3, <2>7, <2>8 DEF Keys
<1>7. CASE ReportBar
  <2>1. trades' \subseteq trades
    BY <1>7 DEF ReportBar, Ambiguous
  <2>2. /\ phase = "report" /\ phase' = "load" /\ now' = closedAt
        /\ UNCHANGED <<book, risk, riskVars>>
    BY <1>7 DEF ReportBar
  <2> QED
    BY <2>1, <2>2 DEF Keys, OneTradePerKey, JustLeft, Held, riskVars
<1>8. CASE StartChunk
  <2>1. /\ phase = "load" /\ phase' \in {"load", "failed"}
        /\ UNCHANGED <<risk, now>>
        /\ trades' = {} \/ (trades' = trades /\ phase' = "failed")
    BY <1>8 DEF StartChunk, Continue, Fail
  <2>2. risk.fill_model = "same_bar_trigger" =>
          \A s \in DOMAIN pending' : pending'[s].reduce = 100
    BY <1>8, RestoredState DEF Keys
  <2> QED
    BY <2>1, <2>2 DEF Keys, OneTradePerKey
<1>9. CASE DrainOverdue \/ RefuseSignals \/ Finish
  <2>1. /\ phase # "report" /\ phase' \in {"failed", "finished"}
        /\ UNCHANGED <<trades, risk, pending, now>>
    BY <1>9 DEF DrainOverdue, RefuseSignals, Finish, Fail, riskVars
  <2> QED
    BY <2>1 DEF Keys, OneTradePerKey
<1>10. CASE UNCHANGED vars
  BY <1>10
  DEF vars, loopVars, riskVars, Keys, OneTradePerKey, JustLeft, Held, closedAt
<1> QED
  BY <1>1, <1>2, <1>3, <1>4, <1>5, <1>6, <1>7, <1>8, <1>9, <1>10 DEF Next

-----------------------------------------------------------------------------
(* The budgets.  The state of a chunk is counted by its symbols when it is *)
(* written as when it was evaluated, so what an evaluation accepted the    *)
(* next chunk accepts.                                                     *)
WithinBudgets ==
  /\ Cardinality(DOMAIN riskPositions \cup DOMAIN cooldowns)
       <= MaxRiskStateRows
  /\ Cardinality(DOMAIN pending) <= MaxPendingIntents

LEMMA SmallerSet ==
  ASSUME NEW S, NEW T, T \subseteq S, S \subseteq Symbols, NEW bound \in Nat,
         Cardinality(S) <= bound
  PROVE  Cardinality(T) <= bound
<1>1. IsFiniteSet(S)
  BY MarketAssumption, FS_Subset
<1>2. IsFiniteSet(T) /\ Cardinality(T) <= Cardinality(S)
  BY <1>1, FS_Subset
<1>3. Cardinality(S) \in Nat /\ Cardinality(T) \in Nat
  BY <1>1, <1>2, FS_CardinalityType
<1> QED
  BY <1>2, <1>3

LEMMA TableRows ==
  ASSUME NEW state, DOMAIN state \subseteq Symbols, NEW bound \in Nat,
         Cardinality(DOMAIN state) <= bound
  PROVE  Cardinality(TableOf(state)) <= bound
<1> DEFINE f == [s \in DOMAIN state |-> [symbol |-> s, row |-> state[s]]]
<1>1. IsFiniteSet(DOMAIN state)
  BY MarketAssumption, FS_Subset
<1>2. f \in Surjection(DOMAIN state, TableOf(state))
  BY DEF Surjection, TableOf
<1> HIDE DEF f
<1>3. /\ IsFiniteSet(TableOf(state))
      /\ Cardinality(TableOf(state)) <= Cardinality(DOMAIN state)
  BY <1>1, <1>2, FS_Surjection
<1>4. Cardinality(TableOf(state)) \in Nat /\ Cardinality(DOMAIN state) \in Nat
  BY <1>1, <1>3, FS_CardinalityType
<1> QED
  BY <1>3, <1>4

LEMMA CheckpointAccepted ==
  ASSUME Typed, WithinBudgets
  PROVE  ~CheckpointOverBudget(
            ReadExecutionCheckpoint(WriteExecutionCheckpoint).risk)
<1> DEFINE checkpoint == ReadExecutionCheckpoint(WriteExecutionCheckpoint).risk
<1>1. /\ checkpoint.positions = TableOf(riskPositions)
      /\ checkpoint.cooldowns = TableOf(cooldowns)
      /\ checkpoint.pending = TableOf(pending)
  BY DEF ReadExecutionCheckpoint, WriteExecutionCheckpoint, RiskCheckpoint
<1>2. /\ SymbolsOf(TableOf(riskPositions)) = DOMAIN riskPositions
      /\ SymbolsOf(TableOf(cooldowns)) = DOMAIN cooldowns
  BY KeyedTable DEF Keyed
<1>3. RiskStateRows(checkpoint)
        = Cardinality(DOMAIN riskPositions \cup DOMAIN cooldowns)
  BY <1>1, <1>2 DEF RiskStateRows
<1>4. /\ MaxRiskStateRows \in Nat /\ MaxPendingIntents \in Nat
      /\ DOMAIN pending \subseteq Symbols
      /\ DOMAIN riskPositions \cup DOMAIN cooldowns \subseteq Symbols
  BY ConfigAssumption DEF LegalBudgets, Typed, RiskTyped
<1>5. Cardinality(checkpoint.pending) <= MaxPendingIntents
  BY <1>1, <1>4, TableRows DEF WithinBudgets
<1>6. Cardinality(checkpoint.pending) \in Nat
      /\ Cardinality(DOMAIN riskPositions \cup DOMAIN cooldowns) \in Nat
  <2>1. IsFiniteSet(DOMAIN pending)
        /\ IsFiniteSet(DOMAIN riskPositions \cup DOMAIN cooldowns)
    BY <1>4, MarketAssumption, FS_Subset
  <2> DEFINE f == [s \in DOMAIN pending |-> [symbol |-> s, row |-> pending[s]]]
  <2>2. f \in Surjection(DOMAIN pending, TableOf(pending))
    BY DEF Surjection, TableOf
  <2> HIDE DEF f
  <2>3. IsFiniteSet(TableOf(pending))
    BY <2>1, <2>2, FS_Surjection
  <2> QED
    BY <1>1, <2>1, <2>3, FS_CardinalityType
<1> HIDE DEF checkpoint
<1>7. ~CheckpointOverBudget(checkpoint)
  BY <1>3, <1>4, <1>5, <1>6 DEF CheckpointOverBudget, WithinBudgets
<1> QED
  BY <1>7 DEF checkpoint

LEMMA BudgetsNext ==
  Inv /\ Typed /\ WithinBudgets /\ [Next]_vars => WithinBudgets'
<1> SUFFICES ASSUME Inv, Typed, WithinBudgets, [Next]_vars
             PROVE  WithinBudgets'
  OBVIOUS
<1>1. /\ MaxRiskStateRows \in Nat /\ MaxPendingIntents \in Nat
      /\ DOMAIN pending \subseteq Symbols
      /\ DOMAIN riskPositions \cup DOMAIN cooldowns \subseteq Symbols
  BY ConfigAssumption DEF LegalBudgets, Typed, RiskTyped
<1>2. CASE CloseBar /\ ~UNCHANGED riskVars
  <2>1. PICK equity \in Equities :
          /\ EvaluationFailure(equity) = "none"
          /\ Evaluate(RiskBars, book, equity, closedAt)
    BY <1>2 DEF CloseBar
  <2> DEFINE exiting == Exiting(RiskBars, book, equity)
  <2>2. ~StateOverBudget(book) /\ ~PendingOverBudget(RiskBars, book, equity)
    BY <2>1 DEF EvaluationFailure
  <2>3. DOMAIN pending' = DOMAIN pending \cup exiting
    BY <2>1 DEF Evaluate
  <2>4. DOMAIN riskPositions' \cup DOMAIN cooldowns'
          = DOMAIN book \cup LiveCooldowns(book)
    <3>1. exiting \subseteq DOMAIN book
      BY DEF Exiting, SymbolExits
    <3>2. DOMAIN riskPositions' = DOMAIN book
      BY <2>1 DEF Evaluate
    <3>3. DOMAIN cooldowns' = LiveCooldowns(book) \cup exiting
      BY <2>1 DEF Evaluate
    <3> HIDE DEF exiting
    <3> QED
      BY <3>1, <3>2, <3>3
  <2>5. /\ Cardinality(DOMAIN pending \cup exiting) \in Nat
        /\ Cardinality(DOMAIN book \cup LiveCooldowns(book)) \in Nat
    <3>1. /\ DOMAIN pending \cup exiting \subseteq Symbols
          /\ DOMAIN book \cup LiveCooldowns(book) \subseteq Symbols
      BY <1>1 DEF Exiting, SymbolExits, LiveCooldowns, Typed, BookTyped, Held
    <3>2. /\ IsFiniteSet(DOMAIN pending \cup exiting)
          /\ IsFiniteSet(DOMAIN book \cup LiveCooldowns(book))
      BY <3>1, MarketAssumption, FS_Subset
    <3> QED
      BY <3>2, FS_CardinalityType
  <2> QED
    BY <1>1, <2>2, <2>3, <2>4, <2>5
    DEF WithinBudgets, StateOverBudget, PendingOverBudget
<1>3. CASE \/ DrainAtOpen \/ FillSameBar \/ Rebalance \/ RefuseSignals
           \/ StartChunk
  <2>1. /\ DOMAIN riskPositions' = DOMAIN riskPositions
        /\ DOMAIN cooldowns' \subseteq DOMAIN cooldowns
        /\ DOMAIN pending' \subseteq DOMAIN pending
    <3>1. CASE StartChunk
      BY <3>1, RestoredState
    <3>2. CASE DrainAtOpen \/ FillSameBar \/ Rebalance \/ RefuseSignals
      BY <3>2
      DEF DrainAtOpen, FillSameBar, Rebalance, RefuseSignals, DrainDue,
          ReentryDecisions, Restrict
    <3> QED
      BY <1>3, <3>1, <3>2
  <2>2. /\ Cardinality(DOMAIN riskPositions' \cup DOMAIN cooldowns')
             <= MaxRiskStateRows
        /\ Cardinality(DOMAIN pending') <= MaxPendingIntents
    BY <1>1, <2>1, SmallerSet DEF WithinBudgets
  <2> QED
    BY <2>2 DEF WithinBudgets
<1>4. CASE UNCHANGED riskVars
  BY <1>4 DEF riskVars, WithinBudgets
<1> QED
  BY <1>2, <1>3, <1>4
  DEF Next, LoadBar, SkipBar, DrainOverdue, CloseBar, ReportBar, Finish, vars

(* What ends a run is its input: neither the loop's misuse of the risk     *)
(* machine, nor two trades with one key, nor a checkpoint that the next    *)
(* chunk refuses, as long as a same-bar exit takes all of its position.    *)
THEOREM OnlyInputFails ==
  ASSUME WholeSameBarExits
  PROVE  Spec => []FailsOnlyOnInput
<1>1. Init => Keys /\ WithinBudgets /\ FailsOnlyOnInput
  <2> SUFFICES ASSUME Init PROVE Keys /\ WithinBudgets /\ FailsOnlyOnInput
    OBVIOUS
  <2>1. Keys
    BY DEF Init, RiskInit, Empty, Keys, OneTradePerKey
  <2>2. DOMAIN riskPositions \cup DOMAIN cooldowns = {} /\ DOMAIN pending = {}
    BY DEF Init, RiskInit, Empty
  <2>3. WithinBudgets
    BY <2>2, FS_EmptySet, ConfigAssumption DEF WithinBudgets, LegalBudgets
  <2> QED
    BY <2>1, <2>3 DEF Init, FailsOnlyOnInput
<1>2. Keys /\ Typed /\ WithinBudgets /\ GuardsHold' /\ FailsOnlyOnInput
        /\ [Next]_vars => FailsOnlyOnInput'
  <2> SUFFICES ASSUME Keys, Typed, WithinBudgets, GuardsHold',
                      FailsOnlyOnInput, [Next]_vars
               PROVE  FailsOnlyOnInput'
    OBVIOUS
  <2>1. Ambiguous = {}
    BY NoneAmbiguous DEF Keys
  <2>2. ~CheckpointOverBudget(
            ReadExecutionCheckpoint(WriteExecutionCheckpoint).risk)
    BY CheckpointAccepted
  <2>3. failure' \notin {"ambiguous fill", "checkpoint budget"}
    <3>1. CASE StartChunk
      BY <2>1, <2>2, <3>1
      DEF StartChunk, Continue, FailsOnlyOnInput
    <3>2. CASE CloseBar
      BY <3>2 DEF CloseBar, EvaluationFailure, Fail, FailsOnlyOnInput
    <3>3. CASE \/ LoadBar \/ SkipBar \/ DrainOverdue \/ DrainAtOpen
               \/ Rebalance \/ RefuseSignals \/ FillSameBar \/ ReportBar
               \/ Finish \/ UNCHANGED vars
      BY <2>1, <3>3
      DEF LoadBar, SkipBar, DrainOverdue, DrainAtOpen, Rebalance,
          RefuseSignals, FillSameBar, ReportBar, Finish, Fail, vars, loopVars,
          FailsOnlyOnInput
    <3> QED
      BY <3>1, <3>2, <3>3 DEF Next
  <2> QED
    BY <2>3 DEF GuardsHold, FailsOnlyOnInput
<1>3. Inv /\ Valued /\ Typed /\ Keys /\ [Next]_vars => Keys'
  BY KeysNext
<1> QED
  BY <1>1, <1>2, <1>3, BudgetsNext, Invariance, ValuedInvariance,
     TypedInvariance, PTL DEF Spec
=============================================================================
