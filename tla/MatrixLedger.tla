---------------------------- MODULE MatrixLedger ----------------------------
(***************************************************************************)
(* The fast matrix backend (bfbt/engine/fast_matrix): one accounting       *)
(* kernel, run over the whole market (run_fast_matrix), chunk by chunk     *)
(* with a checkpoint (run_fast_matrix_chunked), and for several candidates *)
(* at once over intervals between rebalances and fundings                  *)
(* (run_fast_matrix_batch).                                                *)
(*                                                                         *)
(* Money is counted in whole units; where the code divides, the model      *)
(* rounds, the same way in all three.  The average entry price only moves  *)
(* value between cash and unrealized profit, so the model keeps            *)
(* wallet = cash - sum of quantity * average instead.  Bar t opens at time *)
(* 2t and closes at 2t + 2: odd times lie inside bars.                     *)
(***************************************************************************)
EXTENDS Integers, Sequences, FiniteSets, FiniteSetsExt

CONSTANTS
  Symbols,
  Candidates,
  Bars,           \* bars of the market, 0 .. Bars - 1
  Rows,           \* what a symbol does in a bar: [open, close], or Null
  Configs,        \* schedules, funding, marks, chunk length, rates
  Capital,        \* initial equity
  Irregular,      \* whether symbols may list late and marks go on while nobody trades
  Null

Times == 0 .. Bars - 1

(* A schedule names its rebalance bars; its targets are full snapshots:    *)
(* each belongs to one of them, a symbol without a row has weight zero.    *)
LegalSchedule(schedule) ==
  /\ schedule.times \subseteq Times
  /\ \A row \in schedule.targets :
       /\ row.fill \in schedule.times /\ row.weight \in Int
       /\ \A other \in schedule.targets :
            other.fill = row.fill /\ other.symbol = row.symbol => other = row

ASSUME MatrixAssumption ==
  /\ Bars \in Nat /\ Capital \in Nat \ {0}
  /\ \A c \in Configs :
       /\ \A name \in Candidates : LegalSchedule(c.schedules[name])
       /\ c.chunk \in Nat \ {0}

VARIABLES
  config, market,
  phase,          \* "chunks", "batch", "done"
  chunked,        \* the chunked run of the first candidate: ledger and cursor
  batch           \* the joint run: candidate -> ledger, and cursor

vars == <<config, market, phase, chunked, batch>>

First == CHOOSE c \in Candidates : TRUE

Abs(n) == IF n < 0 THEN -n ELSE n

-----------------------------------------------------------------------------
(* The market.  A bar nobody trades in is no tick of the clock.            *)
Trading(t) == {s \in Symbols : market[t][s] # Null}

Clock == {t \in Times : Trading(t) # {}}

Open(t, s) == IF market[t][s] = Null THEN Null ELSE market[t][s].open

\* The close that values a position: of the trade bars or of the mark bars.
Close(t, s) ==
  IF config.marks # Null THEN config.marks[t][s]
  ELSE IF market[t][s] = Null THEN Null ELSE market[t][s].close

ClosesAt(t) == 2 * t + 2

\* Fundings of bar t: after its open, up to its close.
EventsOf(t, events) == {e \in events : 2 * t < e.time /\ e.time <= ClosesAt(t)}

Weight(schedule, t, s) ==
  LET rows == {row \in schedule.targets : row.fill = t /\ row.symbol = s}
  IN IF rows = {} THEN 0 ELSE (CHOOSE row \in rows : TRUE).weight

\* A part of an amount, in halves; fees are a fraction of the turnover.
Half(weight, amount) == (weight * amount) \div 2

Fee(turnover) == (turnover * config.fee) \div 8

-----------------------------------------------------------------------------
(* The kernel: a frame over its known symbols.  A missing number is Null,  *)
(* and what is computed from Null is Null; a sum skips it, a test of it    *)
(* is not passed.                                                          *)
Ledger(known) ==
  [q |-> [s \in known |-> 0], last |-> [s \in known |-> Null],
   wallet |-> Capital, previous |-> Capital, peak |-> Capital, trades |-> 0,
   returns |-> <<>>, ok |-> TRUE]

Failed(l) == [l EXCEPT !.ok = FALSE]

Known(l) == DOMAIN l.q

Held(l) == {s \in Known(l) : l.q[s] # Null /\ l.q[s] # 0}

OpenMark(l, t) ==
  [s \in Known(l) |-> IF Open(t, s) # Null THEN Open(t, s) ELSE l.last[s]]

Worth(l, marks) == l.wallet + MapThenSumSet(LAMBDA s : l.q[s] * marks[s], Held(l))

\* What a symbol is to be worth: a held one without a bar stays as it is.
TargetNotional(l, t, s, schedule, marks, equity) ==
  IF s \in Held(l) /\ Open(t, s) = Null THEN l.q[s] * marks[s]
  ELSE Half(Weight(schedule, t, s), equity)

OldNotional(l, s, marks) == IF s \in Held(l) THEN l.q[s] * marks[s] ELSE 0

NewQuantity(l, s, mark, delta) ==
  IF l.q[s] = Null \/ mark = Null THEN Null ELSE l.q[s] + delta \div mark

Rebalanced(l, t, schedule) ==
  LET marks == OpenMark(l, t)
      equity == Worth(l, marks)
      delta == [s \in Known(l) |->
        TargetNotional(l, t, s, schedule, marks, equity) - OldNotional(l, s, marks)]
      turnover == MapThenSumSet(LAMBDA s : Abs(delta[s]), Known(l))
      q == [s \in Known(l) |-> NewQuantity(l, s, marks[s], delta[s])]
      moved == {s \in Known(l) : q[s] # Null}
      unopened == {s \in Known(l) : /\ l.q[s] = 0 /\ Open(t, s) = Null
                                    /\ Weight(schedule, t, s) # 0}
  IN IF equity <= 0 \/ unopened # {}
     THEN [ledger |-> Failed(l), fee |-> 0, turnover |-> 0]
     ELSE [ledger |-> [l EXCEPT
             !.q = q,
             !.wallet = @ - MapThenSumSet(LAMBDA s : (q[s] - l.q[s]) * marks[s], moved)
                          - Fee(turnover),
             !.trades = @ + Cardinality({s \in Known(l) : delta[s] # 0})],
           fee |-> Fee(turnover), turnover |-> turnover]

Rate(event, s) == IF s \in DOMAIN event.rates THEN event.rates[s] ELSE Null

\* What the held symbols pay at an event, at its mark or at the bar's open.
Cashflow(l, marks, event) ==
  MapThenSumSet(
    LAMBDA s : IF Rate(event, s) = Null THEN 0
               ELSE -l.q[s] * Rate(event, s)
                      * (IF event.mark = Null THEN marks[s] ELSE event.mark),
    Held(l))

FundingMissing(l, events) ==
  config.policy = "error" /\ \E e \in events, s \in Held(l) : Rate(e, s) = Null

Carried(l, t) ==
  [s \in Known(l) |-> IF Close(t, s) # Null THEN Close(t, s) ELSE l.last[s]]

Booked(l, equity, t, fee, funding, turnover) ==
  [l EXCEPT
     !.returns = Append(@, [at |-> ClosesAt(t), net |-> equity - l.previous,
                            fee |-> fee, funding |-> funding, turnover |-> turnover]),
     !.previous = equity, !.peak = IF equity > @ THEN equity ELSE @]

(* One bar: mark the open, rebalance if due, pay the fundings, mark the    *)
(* close.                                                                  *)
Bar(l, t, schedule, events) ==
  LET marks == OpenMark(l, t)
      due == t \in schedule.times
      traded == IF due THEN Rebalanced(l, t, schedule)
                ELSE [ledger |-> l, fee |-> 0, turnover |-> 0]
      paid == MapThenSumSet(LAMBDA e : Cashflow(traded.ledger, marks, e),
                            EventsOf(t, events))
      funded == [traded.ledger EXCEPT !.wallet = @ + paid]
      closes == Carried(l, t)
      equity == Worth(funded, closes)
  IN IF ~l.ok \/ t \notin Clock THEN l
     ELSE IF \E s \in Held(l) : marks[s] = Null THEN Failed(l)
     ELSE IF ~traded.ledger.ok THEN Failed(l)
     ELSE IF FundingMissing(traded.ledger, EventsOf(t, events)) THEN Failed(l)
     ELSE IF \A s \in Symbols : Close(t, s) = Null THEN Failed(l)
     ELSE IF \E s \in Held(funded) : closes[s] = Null THEN Failed(l)
     ELSE IF equity <= 0 THEN Failed(l)
     ELSE [Booked(funded, equity, t, traded.fee, paid, traded.turnover)
             EXCEPT !.last = closes]

\* The bars of a window, one after another.
Through(l, from, to, schedule, events) ==
  LET after[t \in from .. to] ==
        IF t = from THEN l ELSE Bar(after[t - 1], t - 1, schedule, events)
  IN after[to]

SymbolsIn(window, schedule) ==
  UNION {Trading(t) : t \in window}
    \union {row.symbol : row \in {r \in schedule.targets : r.fill \in window}}

Uncovered(schedule) == schedule.times \ Clock

FundingAbsent == config.funding = Null /\ config.policy = "error"

Events == IF config.funding = Null THEN {} ELSE config.funding

\* run_fast_matrix over the whole market.
Continuous(name) ==
  LET schedule == config.schedules[name]
      fresh == Ledger(SymbolsIn(Times, schedule))
  IN IF Uncovered(schedule) # {} \/ FundingAbsent THEN Failed(fresh)
     ELSE Through(fresh, 0, Bars, schedule, Events)

-----------------------------------------------------------------------------
(* Chunks: the clock is cut from the first bar's open to the last close,   *)
(* bars and rebalances by their open, fundings after the start and up to   *)
(* the end; only the checkpoint crosses.                                   *)
Start == 2 * Min(Clock)
Terminal == ClosesAt(Max(Clock))

EndOf(cursor) ==
  IF cursor + config.chunk < Terminal THEN cursor + config.chunk ELSE Terminal

WindowOf(cursor) == {t \in Times : cursor <= 2 * t /\ 2 * t < EndOf(cursor)}

ScheduleOf(schedule, window) ==
  [times |-> schedule.times \cap window,
   targets |-> {row \in schedule.targets : row.fill \in window}]

\* Mutant: a funding at the end of a chunk is left to the next one.
EventsBefore(cursor) ==
  {e \in Events : cursor <= e.time /\ e.time < EndOf(cursor)}

EventsUpTo(cursor) ==
  {e \in Events : cursor < e.time /\ e.time <= EndOf(cursor)}

\* A symbol the checkpoint does not know starts without position and close.
RestoredOver(l, known) ==
  [l EXCEPT !.q = [s \in known |-> IF s \in Known(l) THEN l.q[s] ELSE 0],
            !.last = [s \in known |-> IF s \in Known(l) THEN l.last[s] ELSE Null]]

RunChunk ==
  /\ phase = "chunks"
  /\ LET window == WindowOf(chunked.cursor)
         schedule == ScheduleOf(config.schedules[First], window)
         restored == RestoredOver(chunked.ledger,
                       Known(chunked.ledger) \union SymbolsIn(window, schedule))
         from == IF window = {} THEN 0 ELSE Min(window)
         to == IF window = {} THEN 0 ELSE Max(window) + 1
     IN chunked' =
          [cursor |-> EndOf(chunked.cursor),
           ledger |-> IF FundingAbsent THEN Failed(restored)
                      ELSE Through(restored, from, to, schedule,
                                   EventsUpTo(chunked.cursor))]
  /\ phase' = IF chunked'.cursor = Terminal \/ ~chunked'.ledger.ok THEN "batch"
              ELSE "chunks"
  /\ UNCHANGED <<config, market, batch>>

-----------------------------------------------------------------------------
(* The batch keeps positions only, takes marks from the price histories,   *)
(* and stops at bar 0, at every candidate's rebalances and at fundings;    *)
(* whatever fails fails for all candidates.                                *)
CarriedClose(s, t) ==
  LET seen == {u \in 0 .. t : Close(u, s) # Null}
  IN IF seen = {} THEN Null ELSE Close(Max(seen), s)

OpenOrCarried(s, t) ==
  IF Open(t, s) # Null THEN Open(t, s)
  ELSE IF t = 0 THEN Null ELSE CarriedClose(s, t - 1)

Due(t) == {name \in Candidates : t \in config.schedules[name].times}

(* The batch assigns every funding once, to the first bar of the clock     *)
(* that closes at or after it, unless that bar opens after it.             *)
BatchEvents(t) ==
  {e \in Events :
     LET closing == {u \in Clock : e.time <= ClosesAt(u)}
     IN closing # {} /\ t = Min(closing) /\ 2 * t < e.time}

Boundaries ==
  {Min(Clock)} \union {t \in Clock : Due(t) # {} \/ BatchEvents(t) # {}}

NextBoundary(t) ==
  LET later == {u \in Boundaries : u > t} IN IF later = {} THEN Bars ELSE Min(later)

Dropping(q) == [s \in {u \in DOMAIN q : q[u] # 0} |-> q[s]]

(* A target of weight zero without any price is not a number, and so are   *)
(* then the cash and the equity.                                           *)
RebalancedSparse(l, t, schedule) ==
  LET targeted == {s \in Symbols : \E row \in schedule.targets :
                                     row.fill = t /\ row.symbol = s}
      touched == Known(l) \union targeted
      marks == [s \in touched |-> OpenOrCarried(s, t)]
      old == [s \in touched |-> IF s \in Known(l) THEN l.q[s] ELSE 0]
      equity == l.wallet + MapThenSumSet(LAMBDA s : l.q[s] * marks[s], Known(l))
      delta == [s \in touched |->
        IF s \in Known(l) /\ Open(t, s) = Null THEN 0
        ELSE Half(Weight(schedule, t, s), equity) - old[s] * marks[s]]
      turnover == MapThenSumSet(LAMBDA s : Abs(delta[s]), touched)
      q == [s \in touched |-> old[s] + delta[s] \div marks[s]]
  IN IF \/ \E s \in touched : marks[s] = Null
        \/ \E s \in targeted \ Known(l) :
             Weight(schedule, t, s) # 0 /\ Open(t, s) = Null
     THEN [ledger |-> Failed(l), fee |-> 0, turnover |-> 0]
     ELSE IF equity <= 0 THEN [ledger |-> Failed(l), fee |-> 0, turnover |-> 0]
     ELSE [ledger |-> [l EXCEPT
             !.q = Dropping(q),
             !.wallet = @ - MapThenSumSet(LAMBDA s : (q[s] - old[s]) * marks[s], touched)
                          - Fee(turnover),
             !.trades = @ + Cardinality({s \in touched : delta[s] # 0})],
           fee |-> Fee(turnover), turnover |-> turnover]

FundedSparse(l, t) ==
  LET marks == [s \in Known(l) |-> OpenOrCarried(s, t)]
      events == BatchEvents(t)
      paid == MapThenSumSet(LAMBDA e : Cashflow(l, marks, e), events)
      unmarked == \E e \in events, s \in Known(l) :
                    Rate(e, s) # Null /\ e.mark = Null /\ marks[s] = Null
  IN IF FundingMissing(l, events) \/ unmarked
     THEN [ledger |-> Failed(l), paid |-> 0]
     ELSE [ledger |-> [l EXCEPT !.wallet = @ + paid], paid |-> paid]

\* Mutant: the costs of the boundary are booked in every bar of the interval.
ValuedAlike(l, from, to, fee, funding, turnover) ==
  LET ticks == {t \in Clock : from <= t /\ t < to}
      marks(t) == [s \in Known(l) |-> CarriedClose(s, t)]
      after[t \in from .. to] ==
        IF t = from THEN l
        ELSE LET u == t - 1 IN
             IF u \notin ticks \/ ~after[u].ok THEN after[u]
             ELSE IF \E s \in Known(l) : marks(u)[s] = Null THEN Failed(after[u])
             ELSE IF Worth(l, marks(u)) <= 0 THEN Failed(after[u])
             ELSE Booked(after[u], Worth(l, marks(u)), u, fee, funding, turnover)
  IN after[to]

(* The bars up to the next boundary are valued together; the fees, the     *)
(* fundings and the turnover belong to the first.                          *)
Valued(l, from, to, fee, funding, turnover) ==
  LET ticks == {t \in Clock : from <= t /\ t < to}
      marks(t) == [s \in Known(l) |-> CarriedClose(s, t)]
      after[t \in from .. to] ==
        IF t = from THEN l
        ELSE LET u == t - 1 IN
             IF u \notin ticks \/ ~after[u].ok THEN after[u]
             ELSE IF \E s \in Known(l) : marks(u)[s] = Null THEN Failed(after[u])
             ELSE IF Worth(l, marks(u)) <= 0 THEN Failed(after[u])
             ELSE IF u = from
             THEN Booked(after[u], Worth(l, marks(u)), u, fee, funding, turnover)
             ELSE Booked(after[u], Worth(l, marks(u)), u, 0, 0, 0)
  IN after[to]

Interval(name, l, t) ==
  LET traded == IF name \in Due(t) THEN RebalancedSparse(l, t, config.schedules[name])
                ELSE [ledger |-> l, fee |-> 0, turnover |-> 0]
      funded == FundedSparse(traded.ledger, t)
  IN IF ~traded.ledger.ok \/ ~funded.ledger.ok THEN Failed(l)
     ELSE Valued(funded.ledger, t, NextBoundary(t), traded.fee, funded.paid,
                 traded.turnover)

(* What a candidate can be continued from: every symbol of the market and  *)
(* of all schedules, with its last close at the final tick.                *)
BatchCheckpoint(l) ==
  LET known == UNION {SymbolsIn(Times, config.schedules[name]) : name \in Candidates}
  IN [l EXCEPT !.q = [s \in known |-> IF s \in Known(l) THEN l.q[s] ELSE 0],
               !.last = [s \in known |-> CarriedClose(s, Max(Clock))]]

BatchRefused ==
  \/ \E name \in Candidates : Uncovered(config.schedules[name]) # {}
  \/ \E t \in Clock : \A s \in Symbols : Close(t, s) = Null
  \/ FundingAbsent

RunInterval ==
  /\ phase = "batch"
  /\ LET t == batch.cursor
         ledgers == [name \in Candidates |->
                       IF BatchRefused THEN Failed(batch.ledgers[name])
                       ELSE Interval(name, batch.ledgers[name], t)]
         ok == \A name \in Candidates : ledgers[name].ok
     IN /\ batch' = [cursor |-> NextBoundary(t), ledgers |-> ledgers]
        /\ phase' = IF ~ok \/ NextBoundary(t) = Bars THEN "done" ELSE "batch"
  /\ UNCHANGED <<config, market, chunked>>

-----------------------------------------------------------------------------
(* Every symbol has a bar and a price from the first tick, and the mark    *)
(* bars have no ticks of their own.                                        *)
Regular ==
  /\ \A s \in Symbols : Open(0, s) # Null /\ Close(0, s) # Null
  /\ \A t \in Times \ Clock, s \in Symbols : Close(t, s) = Null

(* The chunked run refuses a schedule outside the market before its first  *)
(* chunk.                                                                  *)
Init ==
  /\ config \in Configs
  /\ market \in [Times -> [Symbols -> Rows]]
  /\ Clock # {}
  /\ Irregular \/ Regular
  /\ chunked = [cursor |-> Start,
                ledger |-> IF Uncovered(config.schedules[First]) # {}
                           THEN Failed(Ledger({})) ELSE Ledger({})]
  /\ phase = IF chunked.ledger.ok THEN "chunks" ELSE "batch"
  /\ batch = [cursor |-> Min(Clock), ledgers |-> [name \in Candidates |-> Ledger({})]]

Next == RunChunk \/ RunInterval

Spec == Init /\ [][Next]_vars

-----------------------------------------------------------------------------
Positions(l) == {<<s, l.q[s]>> : s \in {u \in Known(l) : l.q[u] \notin {0, Null}}}

(* They can be continued alike: what the one knows, the other knows too,   *)
(* with the same position and last close.                                  *)
SameCheckpoint(l, other) ==
  \A s \in Known(other) :
    /\ s \in Known(l)
    /\ l.q[s] = other.q[s] /\ l.last[s] = other.last[s]

SameRun(l, other) ==
  /\ l.ok = other.ok
  /\ l.ok => /\ l.returns = other.returns /\ l.trades = other.trades
             /\ l.wallet = other.wallet /\ l.peak = other.peak
             /\ Positions(l) = Positions(other)

IsLedger(l) ==
  /\ \A s \in Known(l) : l.q[s] \in Int
  /\ \A s \in DOMAIN l.last : l.last[s] \in Nat \union {Null}
  /\ l.wallet \in Int /\ l.trades \in Nat /\ l.peak \in Nat
  /\ l.previous \in 1 .. l.peak

(* Types: the position of a known symbol is a number, and no return starts *)
(* above the highest equity.                                               *)
TypeOK ==
  /\ config \in Configs
  /\ phase \in {"chunks", "batch", "done"}
  /\ chunked.cursor \in 0 .. 2 * Bars /\ IsLedger(chunked.ledger)
  /\ batch.cursor \in 0 .. Bars
  /\ \A name \in Candidates : IsLedger(batch.ledgers[name])

(* The length of a chunk changes nothing: returns bar by bar, trades, cash *)
(* and positions are those of the continuous run, and so is a failure.     *)
ChunksAreWhole ==
  phase # "chunks" => SameRun(chunked.ledger, Continuous(First))

(* Every candidate of a batch ends as its standalone run does, with a      *)
(* checkpoint that continues as that run's would, and the batch fails      *)
(* exactly when one of them does.                                          *)
BatchIsStandalone ==
  phase = "done" =>
    IF \A name \in Candidates : Continuous(name).ok
    THEN \A name \in Candidates :
           /\ SameRun(batch.ledgers[name], Continuous(name))
           /\ SameCheckpoint(BatchCheckpoint(batch.ledgers[name]), Continuous(name))
    ELSE \E name \in Candidates : ~batch.ledgers[name].ok

=============================================================================
