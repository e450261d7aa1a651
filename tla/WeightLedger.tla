---------------------------- MODULE WeightLedger ----------------------------
(***************************************************************************)
(* The V1 ledger: the selections of a signal become target weights         *)
(* (weight_selected, apply_static_constraints), which are filled at the    *)
(* open some bars later and valued bar by bar, over the whole market       *)
(* (run_vectorized_backtest) or chunk by chunk with a bounded state        *)
(* (StreamingLedger, driven by execute_chunked_pipeline).                  *)
(*                                                                         *)
(* Weights, budgets, the leverage and the turnover limit are quarters of   *)
(* the equity; fees, slippage and funding rates are eighths of the         *)
(* notional.  Where the code divides, the model rounds, the same way in    *)
(* both ledgers.  Bar t opens at time 2t and closes at 2t + 2.             *)
(***************************************************************************)
EXTENDS Integers, Sequences, FiniteSets, Functions

CONSTANTS
  Symbols,
  Bars,           \* bars of the execution range, 0 .. Bars - 1
  Rows,           \* what a symbol does in a bar: [open, close], or Null
  Configs,        \* selections, funding, marks, chunk length, limits, rates
  Capital,        \* initial equity
  Gaps,           \* whether a chunk may be without any bar
  Null

Times == 0 .. Bars - 1

Policies == {"error", "assume_zero", "exclude_symbol"}

ASSUME WeightAssumption ==
  /\ Bars \in Nat /\ Capital \in Nat \ {0}
  /\ \A c \in Configs :
       /\ c.chunk \in Nat \ {0} /\ c.delay \in Nat \ {0} /\ c.policy \in Policies
       /\ \A row \in c.selections :
            /\ row.side \in {"LONG", "SHORT"} /\ row.strength \in Nat
            /\ row.signal + c.delay \in Times
            /\ \A other \in c.selections :
                 row.signal = other.signal /\ row.symbol = other.symbol => row = other

\* Prices are positive, rates and limits are numbers, and what is absent is
\* not one of them.
Prices == [open : Nat \ {0}, close : Nat \ {0}]

Event(e) ==
  /\ e.time \in Int /\ e.mark \in Nat \union {Null}
  /\ \A s \in DOMAIN e.rates : e.rates[s] \in Int

ASSUME NumbersAssumption ==
  /\ IsFiniteSet(Symbols) /\ Rows \subseteq Prices \union {Null}
  /\ Null \notin Int /\ Null \notin Prices
  /\ \A c \in Configs :
       /\ IsFiniteSet(c.selections)
       /\ \A row \in c.selections : row.symbol \in Symbols
       /\ {c.longs, c.shorts, c.leverage, c.fee, c.slip} \subseteq Nat
       /\ {c.maxWeight, c.maxTurnover} \subseteq Nat \union {Null}
       /\ c.marks # Null =>
            \A t \in Times, s \in Symbols : c.marks[t][s] \in Prices \union {Null}
       /\ c.funding # Null =>
            IsFiniteSet(c.funding) /\ \A e \in c.funding : Event(e)

VARIABLES
  config, market,
  cursor,         \* the bar the next chunk begins with
  ledger          \* StreamingLedger.state and what it has put out

vars == <<config, market, cursor, ledger>>

Abs(n) == IF n < 0 THEN -n ELSE n

Quarters(weight, amount) == (weight * amount) \div 4

-----------------------------------------------------------------------------
(* From selections to target weights.                                      *)
Peers(row) == {r \in config.selections : r.signal = row.signal /\ r.side = row.side}

Budget(side) == IF side = "LONG" THEN config.longs ELSE config.shorts

\* A side's budget is shared by strength, evenly when nobody has any.
Size(row) ==
  LET total == SumFunction([r \in Peers(row) |-> r.strength])
  IN IF total > 0 THEN (Budget(row.side) * row.strength) \div total
     ELSE Budget(row.side) \div Cardinality(Peers(row))

UnconstrainedWeight(row) == IF row.side = "LONG" THEN Size(row) ELSE -Size(row)

TargetWeight(row) ==
  IF config.maxWeight = Null \/ Size(row) <= config.maxWeight
  THEN UnconstrainedWeight(row)
  ELSE IF row.side = "LONG" THEN config.maxWeight ELSE -config.maxWeight

Targets ==
  {[fill |-> row.signal + config.delay, symbol |-> row.symbol,
    weight |-> TargetWeight(row)] : row \in config.selections}

-----------------------------------------------------------------------------
(* The inputs of a bar.                                                    *)
Trading(t) == {s \in Symbols : market[t][s] # Null}

Value(t, s) == IF config.marks = Null THEN market[t][s] ELSE config.marks[t][s]

Marked(t) == {s \in Symbols : Value(t, s) # Null}

Complete(t, s) == <<t, s>> \notin config.incomplete

(* The dataset is read up to the end of the range, exclusive: a funding at *)
(* the last close is not in it.                                            *)
Fundings ==
  IF config.funding = Null THEN {}
  ELSE {e \in config.funding : e.time < 2 * Bars}

\* What lacks a record of some event of the run is not traded at all.
FundingExclusions ==
  IF config.funding = Null \/ config.policy # "exclude_symbol" THEN {}
  ELSE {s \in {row.symbol : row \in Targets} :
          Fundings = {} \/ \E e \in Fundings : s \notin DOMAIN e.rates}

\* Mutant: only the events of the chunk are asked for records.
ExcludedIn(targets, events) ==
  {s \in {row.symbol : row \in targets} : \E e \in events : s \notin DOMAIN e.rates}

WithoutExcluded(targets, excluded) ==
  {[row EXCEPT !.weight = IF row.symbol \in excluded THEN 0 ELSE @] : row \in targets}

EventsOf(t, events) == {e \in events : 2 * t < e.time /\ e.time <= 2 * t + 2}

-----------------------------------------------------------------------------
LedgerState ==
  [q |-> [s \in Symbols |-> 0], average |-> [s \in Symbols |-> Null],
   requested |-> [s \in Symbols |-> 0], marks |-> [s \in Symbols |-> Null],
   equity |-> Capital, peak |-> Capital, warnings |-> {},
   trades |-> <<>>, returns |-> <<>>, ok |-> TRUE]

Failed(l) == [l EXCEPT !.ok = FALSE]

Held(l) == {s \in Symbols : l.q[s] # 0}

\* From the previous close to this open.
GapPnl(l, t) ==
  SumFunction([s \in Held(l) |-> l.q[s] * (Value(t, s).open - l.marks[s])])

(* What is held and what is targeted moves to its weight; when the whole   *)
(* turnover is too much every move is scaled alike.                        *)
LimitTurnover(l, t, targets, equity) ==
  LET WeightOf(s) == LET rows == {row \in targets : row.symbol = s}
                     IN IF rows = {} THEN 0 ELSE (CHOOSE row \in rows : TRUE).weight
      active == Held(l) \union {row.symbol : row \in targets}
      old == [s \in active |-> l.q[s] * market[t][s].open]
      delta == [s \in active |-> Quarters(WeightOf(s), equity) - old[s]]
      turnover == SumFunction([s \in active |-> Abs(delta[s])])
      limit == Quarters(config.maxTurnover, equity)
  IN [s \in active |->
        IF config.maxTurnover = Null \/ turnover <= limit THEN old[s] + delta[s]
        ELSE old[s] + (delta[s] * limit) \div turnover]

AverageEntry(old, new, average, price) ==
  IF new = 0 THEN Null
  ELSE IF average = Null \/ old * new <= 0 THEN price
  ELSE IF Abs(new) <= Abs(old) THEN average
  ELSE (Abs(old) * average + Abs(new - old) * price) \div Abs(new)

Cost(notional, rate) == (notional * rate) \div 8

(* The fill of one bar: the ledger, its trades in the order of the symbols,*)
(* and what the difference between the traded and the valued open gains.   *)
Filled(l, t, targets, equity) ==
  LET active == Held(l) \union {row.symbol : row \in targets}
      limited == LimitTurnover(l, t, targets, equity)
      quantity == [s \in active |-> limited[s] \div market[t][s].open]
      change == [s \in active |-> quantity[s] - l.q[s]]
      traded == {s \in active : change[s] # 0}
      Trade(s) == [fill |-> t, symbol |-> s, change |-> change[s],
                   price |-> market[t][s].open,
                   fee |-> Cost(Abs(change[s] * market[t][s].open), config.fee),
                   slippage |-> Cost(Abs(change[s] * market[t][s].open), config.slip)]
      Basis(s) == change[s] * (Value(t, s).open - market[t][s].open)
  IN IF \/ active \ Trading(t) # {}
        \/ \E s \in active : ~Complete(t, s) \/ Value(t, s) = Null
     THEN [ledger |-> Failed(l), trades |-> {}, basis |-> 0]
     ELSE IF SumFunction([s \in active |-> Abs(limited[s])]) > Quarters(config.leverage, equity)
     THEN [ledger |-> Failed(l), trades |-> {}, basis |-> 0]
     ELSE [ledger |-> [l EXCEPT
             !.q = [s \in Symbols |-> IF s \in active THEN quantity[s] ELSE @[s]],
             !.requested = [s \in Symbols |-> IF s \in active THEN limited[s] ELSE @[s]],
             !.average = [s \in Symbols |->
               IF s \notin traded THEN @[s]
               ELSE AverageEntry(l.q[s], quantity[s], @[s], market[t][s].open)],
             !.trades = Append(@, {Trade(s) : s \in traded})],
           trades |-> {Trade(s) : s \in traded},
           basis |-> SumFunction([s \in active |-> Basis(s)])]

IntrabarPnl(l, t) ==
  SumFunction([s \in Held(l) |-> l.q[s] * (Value(t, s).close - Value(t, s).open)])

(* A held symbol without a record of an event: the pairs of event and symbol. *)
Missing(l, events) ==
  {pair \in events \X Held(l) : pair[2] \notin DOMAIN pair[1].rates}

FundingPrice(t, s, event) == IF event.mark = Null THEN Value(t, s).close ELSE event.mark

FundingCashflow(l, t, events) ==
  SumFunction([pair \in (events \X Held(l)) \ Missing(l, events) |->
                 -(l.q[pair[2]] * FundingPrice(t, pair[2], pair[1])
                     * pair[1].rates[pair[2]]) \div 8])

\* Mutant: what the fill gains over the valued open is forgotten.
GrossWithoutBasis(gap, basis, intrabar) == gap + intrabar

GrossPnl(gap, basis, intrabar) == gap + basis + intrabar

(* The marks of the bar replace those of the bar before, whoever is in it. *)
Booked(l, t, equity, costs, paid) ==
  [l EXCEPT
     !.equity = equity, !.peak = IF equity > @ THEN equity ELSE @,
     !.marks = [s \in Symbols |-> IF s \in Marked(t) THEN Value(t, s).close ELSE Null],
     !.returns = Append(@, [bar |-> t, net |-> equity - l.equity, costs |-> costs,
                            funding |-> paid])]

(* What a bar of the start ledger l closes with, given its fill.  An event *)
(* a held symbol has no record of ends the run, or is noted and costs      *)
(* nothing.                                                                *)
Accounted(l, t, filled, events) ==
  LET after == filled.ledger
      missing == Missing(after, events)
      paid == FundingCashflow(after, t, events)
      costs == SumFunction([trade \in filled.trades |-> trade.fee + trade.slippage])
      equity == l.equity + GrossPnl(GapPnl(l, t), filled.basis, IntrabarPnl(after, t))
                  - costs + paid
  IN IF \/ \E s \in Held(after) : s \notin Marked(t) \/ ~Complete(t, s)
        \/ config.policy = "error" /\ missing # {}
        \/ equity <= 0
     THEN Failed(l)
     ELSE Booked([after EXCEPT !.warnings =
                    @ \union {<<pair[1].time, pair[2]>> : pair \in missing}],
                 t, equity, costs, paid)

(* One bar: the gap, the fill that is due, and the account.                *)
Bar(l, t, targets, events) ==
  LET due == {row \in targets : row.fill = t}
      pretrade == l.equity + GapPnl(l, t)
      filled == IF due = {} THEN [ledger |-> l, trades |-> {}, basis |-> 0]
                ELSE Filled(l, t, due, pretrade)
  IN IF ~l.ok \/ Trading(t) = {} THEN l
     ELSE IF \E s \in Held(l) : s \notin Marked(t) \/ l.marks[s] = Null THEN Failed(l)
     ELSE IF pretrade <= 0 \/ ~filled.ledger.ok THEN Failed(l)
     ELSE Accounted(l, t, filled, EventsOf(t, events))

(* A ledger refuses inputs without a bar, and targets it cannot fill; then *)
(* it accounts the bars of the window in order.                            *)
Process(l, from, to, targets, events) ==
  LET window == from .. to - 1
      after[t \in from .. to] ==
        IF t = from THEN l ELSE Bar(after[t - 1], t - 1, targets, events)
  IN IF \/ \A t \in window : Trading(t) = {}
        \/ \A t \in window : Marked(t) = {}
        \/ \E row \in targets : Trading(row.fill) = {}
     THEN Failed(l)
     ELSE after[to]

NoFundingRows == config.funding # Null /\ config.policy = "error" /\ Fundings = {}

\* run_vectorized_backtest over the whole range.
OnePass ==
  IF Targets = {} \/ NoFundingRows THEN Failed(LedgerState)
  ELSE Process(LedgerState, 0, Bars, WithoutExcluded(Targets, FundingExclusions), Fundings)

-----------------------------------------------------------------------------
(* The chunks of the execution range.                                      *)
EndOf(start) == IF start + config.chunk < Bars THEN start + config.chunk ELSE Bars

\* Signals up to the delay before the end: what is filled in the chunk.
TargetsIn(start) == {row \in Targets : start <= row.fill /\ row.fill < EndOf(start)}

\* Mutant: a funding at the end of a chunk is left to the next one.
FundingsBefore(start) ==
  {e \in Fundings : 2 * start <= e.time /\ e.time < 2 * EndOf(start)}

\* An event on a boundary is read by both chunks, and is in a bar of one.
FundingsIn(start) ==
  {e \in Fundings : 2 * start <= e.time /\ e.time <= 2 * EndOf(start)}

\* Mutant: the exclusions of a chunk come from the chunk's own events.
ChunkTargetsByChunk(start) ==
  WithoutExcluded(TargetsIn(start), ExcludedIn(TargetsIn(start), FundingsIn(start)))

ChunkTargets(start) == WithoutExcluded(TargetsIn(start), FundingExclusions)

(* One execution chunk.                                                    *)
ProcessChunk ==
  /\ cursor < Bars /\ ledger.ok
  /\ ledger' = Process(ledger, cursor, EndOf(cursor), ChunkTargets(cursor), FundingsIn(cursor))
  /\ cursor' = EndOf(cursor)
  /\ UNCHANGED <<config, market>>

EveryChunkTrades ==
  \A start \in {t \in Times : t % config.chunk = 0} :
    LET window == start .. EndOf(start) - 1
    IN UNION {Trading(t) : t \in window} # {} /\ UNION {Marked(t) : t \in window} # {}

(* A run without targets, or without a funding row it must have, is        *)
(* refused before its first chunk.                                         *)
Init ==
  /\ config \in Configs
  /\ market \in [Times -> [Symbols -> Rows]]
  /\ UNION {Trading(t) : t \in Times} # {}
  /\ Gaps \/ EveryChunkTrades
  /\ cursor = 0
  /\ ledger = IF Targets = {} \/ NoFundingRows THEN Failed(LedgerState) ELSE LedgerState

Next == ProcessChunk

Spec == Init /\ [][Next]_vars

-----------------------------------------------------------------------------
(* Types: a position has an average entry, and the equity is positive and  *)
(* below its peak.                                                         *)
TypeOK ==
  /\ config \in Configs /\ market \in [Times -> [Symbols -> Rows]]
  /\ cursor \in 0 .. Bars
  /\ \A s \in Symbols :
       /\ ledger.q[s] \in Int /\ ledger.requested[s] \in Int
       /\ ledger.marks[s] \in Nat \union {Null}
       /\ IF ledger.q[s] = 0 THEN ledger.average[s] = Null ELSE ledger.average[s] \in Nat
  /\ ledger.equity \in 1 .. ledger.peak /\ ledger.peak \in Nat
  /\ ledger.ok \in BOOLEAN

(* StreamingLedger is equivalent to the one-pass ledger: chunk boundaries  *)
(* change no trade, return, position, mark or warning, and no failure.     *)
ChunksAreOnePass ==
  IF ledger.ok THEN cursor = Bars => ledger = OnePass ELSE ~OnePass.ok

(* Money comes only from trades, prices and fundings: the equity, summed   *)
(* from gaps, bases and moves inside bars, is the cash of all trades at    *)
(* their prices plus the worth of what is held at the last close.          *)
EquityReconciles ==
  LET trades == UNION {ledger.trades[n] : n \in DOMAIN ledger.trades}
      bars == DOMAIN ledger.returns
  IN ledger.equity =
       Capital
         - SumFunction([trade \in trades |->
                          trade.change * trade.price + trade.fee + trade.slippage])
         + SumFunction([n \in bars |-> ledger.returns[n].funding])
         + SumFunction([s \in Held(ledger) |-> ledger.q[s] * ledger.marks[s]])

(* With exclude_symbol no symbol is held over an event it has no record    *)
(* of, in whatever chunk the event is.                                     *)
ExclusionIsComplete ==
  config.policy = "exclude_symbol" => ledger.warnings = {}

=============================================================================
