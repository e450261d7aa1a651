--------------------------- MODULE PositionEngine ---------------------------
(***************************************************************************)
(* The incremental position ledger of V2 (IncrementalPositionEngine):      *)
(* decision snapshots become instructions and at once executions, limited  *)
(* by the portfolio's constraints; risk exits and funding reach the same   *)
(* state from outside; its checkpoint is all a later chunk begins with.    *)
(*                                                                         *)
(* A quantity is a number of lots (quantity_steps), a notional an integer. *)
(* Limits on exposure, weight and turnover are quarters of the equity,     *)
(* fractions too; the rate of fee and slippage together is in sixteenths.  *)
(* A position keeps its cost, which is its quantity times its average      *)
(* entry price, so that only a partial close divides it.                   *)
(***************************************************************************)
EXTENDS Integers, Sequences, FiniteSets, Functions

CONSTANTS
  Order,          \* the symbols, sorted
  Prices,         \* marks a symbol may have
  Snapshots,      \* decision snapshots: sets of [symbol, side, weight]
  Flows,          \* cashflows from outside (funding)
  Configs,
  MaxSteps,       \* calls made of the engine
  Null

Symbols == {Order[i] : i \in DOMAIN Order}

VARIABLES
  config,
  account,        \* _MutableState
  batch,          \* what the last decision asked for and what came of it
  cashBook,       \* every payment so far, bought and sold at full price
  roundStart,     \* the cash balance when the open rolling round began
  steps, ok

vars == <<config, account, batch, cashBook, roundStart, steps, ok>>

Abs(n) == IF n < 0 THEN -n ELSE n

Sign(n) == IF n < 0 THEN -1 ELSE 1

Least(m, n) == IF m < n THEN m ELSE n

Rolling == config.mode = "rolling_margin"

Single == config.holding = "single_position_replace"

-----------------------------------------------------------------------------
(* What the configuration may say.                                         *)
AmountModes == {"fixed_margin", "fixed_notional"}

FractionModes == {"equity_fraction", "equity_margin_fraction", "position_fraction"}

\* What the fields are: numbers that are not negative, where they are given.
LegalFields(c) ==
  /\ c.mode \in AmountModes \union FractionModes \union {"target_weight", "rolling_margin"}
  /\ c.zero \in {Null, "skip", "error", "bootstrap_fixed_notional"}
  /\ {c.amount, c.fraction, c.bootstrap, c.initial, c.reset, c.min, c.max,
      c.maxGross, c.maxNet, c.maxWeight, c.maxSymbol, c.maxTurnover, c.maxAdds}
       \subseteq Nat \union {Null}
  /\ {c.capital, c.buffer, c.rate} \subseteq Nat

LegalSizing(c) ==
  /\ c.mode = "target_weight" => c.amount = Null /\ c.fraction = Null /\ c.reverse = Null
  /\ c.mode = "rolling_margin" =>
       /\ c.amount = Null /\ c.fraction = Null /\ c.reverse # Null
       /\ {c.min, c.max} \subseteq Nat /\ 0 < c.min /\ c.min < c.max
       /\ c.initial \in c.min .. c.max /\ c.reset \in c.min .. c.max
  /\ c.mode # "rolling_margin" => {c.min, c.max, c.initial, c.reset} = {Null}
  /\ c.mode \in AmountModes => c.amount # Null /\ c.fraction = Null /\ c.reverse # Null
  /\ c.mode \in FractionModes => c.fraction # Null /\ c.amount = Null /\ c.reverse # Null
  /\ (c.mode = "position_fraction") = (c.zero # Null)
  /\ (c.zero = "bootstrap_fixed_notional") = (c.bootstrap # Null)

LegalHolding(c) ==
  c.mode = "rolling_margin" =>
    c.holding = "single_position_replace" /\ c.existing = "ignore"

LegalCapital(c) == 0 < c.capital /\ 0 <= c.buffer /\ c.buffer < c.capital

LegalBounds(c) ==
  /\ c.leverage \in Nat \ {0} /\ c.maxRows \in Nat \ {0}
  /\ c.maxAdds = Null \/ c.maxAdds \in Nat \ {0}

\* A snapshot says one thing of a contract.
LegalSnapshot(selections) ==
  /\ \A row \in selections : /\ row.symbol \in Symbols /\ row.weight \in Int
                             /\ row.side \in {"LONG", "SHORT", "FLAT"}
  /\ \A row, other \in selections : row.symbol = other.symbol => row = other

LegalMarks == Prices \subseteq Nat \ {0}

ASSUME PositionAssumption ==
  /\ \A c \in Configs :
       LegalFields(c) /\ LegalSizing(c) /\ LegalHolding(c) /\ LegalCapital(c) /\ LegalBounds(c)
  /\ \A selections \in Snapshots : LegalSnapshot(selections)
  /\ LegalMarks /\ MaxSteps \in Nat

\* Symbols are sorted, hence each is named once; flows are amounts.
ASSUME OrderAssumption ==
  /\ Len(Order) \in Nat /\ DOMAIN Order = 1 .. Len(Order)
  /\ \A i, j \in DOMAIN Order : Order[i] = Order[j] => i = j

ASSUME NumbersAssumption == Flows \subseteq Int /\ Null \notin Int

-----------------------------------------------------------------------------
(* The account.                                                            *)
Held(l) == {s \in Symbols : l.q[s] # 0}

Notional(l, s, marks) == l.q[s] * marks[s]

Gross(l, marks) == SumFunction([s \in Held(l) |-> Abs(Notional(l, s, marks))])

Net(l, marks) == SumFunction([s \in Held(l) |-> Notional(l, s, marks)])

Equity(l, marks) ==
  l.cash + SumFunction([s \in Held(l) |-> Notional(l, s, marks) - l.cost[s]])

\* A snapshot of an account whose equity is used up fails the run.
Solvent(l, marks) == Equity(l, marks) > 0

Cost(notional) == (notional * config.rate) \div 16

EmptyAccount ==
  [cash |-> config.capital, q |-> [s \in Symbols |-> 0],
   cost |-> [s \in Symbols |-> 0], adds |-> [s \in Symbols |-> 0],
   margin |-> config.initial, active |-> Null, pnl |-> 0, resets |-> 0,
   decided |-> 0]

-----------------------------------------------------------------------------
(* Rolling margin: a round's result is added to the margin of the next     *)
(* one, unless it leaves the configured band.                              *)

NextMargin(candidate) ==
  IF candidate \in config.min .. config.max THEN candidate ELSE config.reset

SettleRound(l) ==
  LET candidate == l.active + l.pnl
  IN [l EXCEPT !.margin = NextMargin(candidate), !.active = Null, !.pnl = 0,
               !.resets = @ + (IF NextMargin(candidate) = candidate THEN 0 ELSE 1)]

BookRound(l, old, new, price, result) ==
  IF old = 0
  THEN [l EXCEPT !.active = Abs(new * price) \div config.leverage, !.pnl = result]
  ELSE LET booked == [l EXCEPT !.pnl = @ + result]
       IN IF new = 0 THEN SettleRound(booked) ELSE booked

-----------------------------------------------------------------------------
(* One execution of `lots` at a price.                                     *)
Closed(old, lots) ==
  IF old * lots < 0 THEN Sign(old) * Least(Abs(old), Abs(lots)) ELSE 0

\* Mutant: what is opened by a reversal keeps the old average entry price.
CostKeptOnReversal(old, lots, cost, released, price) ==
  LET new == old + lots
  IN IF new = 0 THEN 0
     ELSE IF old = 0 THEN new * price
     ELSE IF Abs(new) <= Abs(old) \/ old * new < 0 THEN (cost * Abs(new)) \div Abs(old)
     ELSE cost + lots * price

CostAfter(old, lots, cost, released, price) ==
  LET new == old + lots
  IN IF new = 0 THEN 0
     ELSE IF old * new <= 0 THEN new * price
     ELSE IF Abs(new) <= Abs(old) THEN cost - released
     ELSE cost + lots * price

AddsAfter(old, lots, adds) ==
  LET new == old + lots
  IN IF new = 0 THEN 0
     ELSE IF old * new <= 0 THEN 1
     ELSE IF Abs(new) > Abs(old) THEN adds + 1 ELSE adds

Execute(l, s, lots, price) ==
  LET old == l.q[s]
      closed == Closed(old, lots)
      released == IF closed = 0 THEN 0 ELSE (l.cost[s] * Abs(closed)) \div Abs(old)
      result == closed * price - released - Cost(Abs(lots * price))
      traded ==
        [l EXCEPT !.cash = @ + result,
                  !.q[s] = old + lots,
                  !.cost[s] = CostAfter(old, lots, @, released, price),
                  !.adds[s] = AddsAfter(old, lots, @)]
  IN IF lots = 0 THEN l
     ELSE IF Rolling THEN BookRound(traded, old, old + lots, price, result)
     ELSE traded

\* What an execution pays and receives, the price in full.
Payment(lots, price) == -(lots * price) - Cost(Abs(lots * price))

-----------------------------------------------------------------------------
(* Sizing: the part of a signal that closes and the part that opens.       *)
BaseNotional(l, old, sizing) ==
  CASE config.mode = "fixed_margin" -> config.amount * config.leverage
    [] config.mode = "rolling_margin" -> l.margin * config.leverage
    [] config.mode = "fixed_notional" -> config.amount
    [] config.mode = "equity_margin_fraction" ->
         (config.fraction * sizing * config.leverage) \div 4
    [] config.mode = "equity_fraction" -> (config.fraction * sizing) \div 4
    [] OTHER -> IF old # 0 THEN (config.fraction * Abs(old)) \div 4 ELSE config.bootstrap

ReverseLegs(old, signed) ==
  IF old * signed >= 0 THEN [close |-> 0, open |-> signed]
  ELSE CASE config.reverse = "flatten_only" -> [close |-> -old, open |-> 0]
         [] config.reverse = "flatten_then_open" -> [close |-> -old, open |-> signed]
         [] OTHER -> IF Abs(signed) <= Abs(old) THEN [close |-> signed, open |-> 0]
                     ELSE [close |-> -old, open |-> signed + old]

TargetLegs(old, target) ==
  IF old * target < 0 THEN [close |-> -old, open |-> target]
  ELSE IF Abs(target) < Abs(old) THEN [close |-> target - old, open |-> 0]
  ELSE [close |-> 0, open |-> target - old]

Skipped(row, old) ==
  row.side # "FLAT" /\ config.mode = "position_fraction" /\ config.zero = "skip" /\ old = 0

Legs(l, row, old, sizing) ==
  CASE row.side = "FLAT" -> [close |-> -old, open |-> 0]
    [] Skipped(row, old) -> [close |-> 0, open |-> 0]
    [] config.mode = "target_weight" /\ row.side # "FLAT" ->
         TargetLegs(old, (row.weight * sizing) \div 4)
    [] OTHER ->
         LET base == BaseNotional(l, old, sizing)
         IN ReverseLegs(old, IF row.side = "LONG" THEN base ELSE -base)

-----------------------------------------------------------------------------
(* Limits.  `sizing` is the equity before the batch, `turnover` what the   *)
(* batch has traded and would trade, `closing` the turnover of the part    *)
(* that closes, which is not in the account yet.                           *)
After(l, s, post, marks) ==
  [r \in Symbols |-> IF r = s THEN post ELSE Notional(l, r, marks)]

Violations(l, s, post, marks, sizing, turnover, traded) ==
  LET notionals == After(l, s, post, marks)
      gross == SumFunction([r \in Symbols |-> Abs(notionals[r])])
      net == SumFunction(notionals)
      Beyond(limit, value) == limit # Null /\ 4 * value > limit * sizing
      Breach(code, broken) == IF broken THEN {code} ELSE {}
  IN UNION {
       Breach("gross", Beyond(config.maxGross, gross)),
       Breach("net", Beyond(config.maxNet, Abs(net))),
       Breach("weight", Beyond(config.maxWeight, Abs(post))),
       Breach("symbol", config.maxSymbol # Null /\ Abs(post) > config.maxSymbol),
       Breach("turnover", Beyond(config.maxTurnover, turnover)),
       Breach("margin", gross + config.leverage * config.buffer
                          > config.leverage * (Equity(l, marks) - Cost(traded)))}

\* A close is cut to the turnover that is left.
LimitClose(close, sizing, turnover) ==
  IF config.maxTurnover = Null THEN close
  ELSE LET limit == (config.maxTurnover * sizing) \div 4
           left == IF limit > turnover THEN limit - turnover ELSE 0
       IN Sign(close) * Least(Abs(close), left)

AddsExhausted(l, s, old, open) ==
  /\ l.q[s] # 0 /\ old * open > 0
  /\ config.maxAdds # Null /\ l.adds[s] >= config.maxAdds

\* Mutant: what closes in the same instruction is not counted.
LimitOpeningAlone(l, s, old, open, marks, sizing, turnover, closing) ==
  LET alone == Violations(l, s, old + open, marks, sizing, Abs(open), Abs(open))
  IN IF AddsExhausted(l, s, old, open) THEN [open |-> 0, flags |-> {"adds"}]
     ELSE IF alone = {} THEN [open |-> open, flags |-> {}]
     ELSE [open |-> 0, flags |-> alone]

(* An opening that breaks a limit is bisected down to one that breaks none *)
(* or to nothing.  The limits need not be monotone in the amount: the      *)
(* search tests only its midpoints.                                        *)
Halvings == 8

LimitOpening(l, s, old, open, marks, sizing, turnover, closing) ==
  LET Broken(amount) ==
        Violations(l, s, old + Sign(open) * amount, marks, sizing,
                   turnover + amount, closing + amount)
      search[i \in 0 .. Halvings] ==
        IF i = 0 THEN [low |-> 0, high |-> Abs(open)]
        ELSE LET last == search[i - 1]
                 middle == (last.low + last.high) \div 2
             IN IF Broken(middle) # {} THEN [last EXCEPT !.high = middle]
                ELSE [last EXCEPT !.low = middle]
  IN IF open = 0 THEN [open |-> 0, flags |-> {}]
     ELSE IF AddsExhausted(l, s, old, open) THEN [open |-> 0, flags |-> {"adds"}]
     ELSE IF Broken(Abs(open)) = {} THEN [open |-> open, flags |-> {}]
     ELSE [open |-> Sign(open) * search[Halvings].low, flags |-> Broken(Abs(open))]

\* Towards zero to whole lots, a full close exactly.
RoundDelta(l, s, price, close, open) ==
  (IF close = -(l.q[s] * price) THEN -l.q[s] ELSE Sign(close) * (Abs(close) \div price))
    + Sign(open) * (Abs(open) \div price)

-----------------------------------------------------------------------------
(* One selection: sized, limited, rounded and executed.                    *)
Progress(l, rows, turnover, paid) ==
  [account |-> l, rows |-> rows, turnover |-> turnover, paid |-> paid]

(* The row of an instruction, with the account it leaves behind.           *)
Instruction(l, row, marks, sizing, requested, lots, opening, turnover) ==
  [symbol |-> row.symbol, side |-> row.side, requested |-> requested,
   lots |-> lots, flags |-> opening.flags, opened |-> opening.open # 0 /\ lots # 0,
   sizing |-> sizing, turnover |-> turnover, price |-> marks[row.symbol],
   position |-> l.q[row.symbol], gross |-> Gross(l, marks),
   net |-> Abs(Net(l, marks)), equity |-> Equity(l, marks)]

ProcessOne(done, row, marks, sizing) ==
  LET l == done.account
      s == row.symbol
      old == Notional(l, s, marks)
      legs == Legs(l, row, old, sizing)
      close == LimitClose(legs.close, sizing, done.turnover)
      limited == LimitOpening(l, s, old + close, legs.open, marks, sizing,
                              done.turnover + Abs(close), Abs(close))
      opening == IF close # legs.close THEN [open |-> 0, flags |-> {"turnover"}]
                 ELSE limited
      lots == RoundDelta(l, s, marks[s], close, opening.open)
      traded == Execute(l, s, lots, marks[s])
  IN Progress(
       traded,
       Append(done.rows,
         Instruction(traded, row, marks, sizing, legs.close + legs.open,
                     lots, opening, done.turnover + Abs(lots * marks[s]))),
       done.turnover + Abs(lots * marks[s]),
       done.paid + Payment(lots, marks[s]))

\* The selections of a snapshot in the order of their symbols.
ProcessAll(start, selections, marks, sizing) ==
  LET RowsOf(s) == {row \in selections : row.symbol = s}
      upTo[i \in 0 .. Len(Order)] ==
        IF i = 0 THEN start
        ELSE IF RowsOf(Order[i]) = {} THEN upTo[i - 1]
        ELSE ProcessOne(upTo[i - 1], CHOOSE row \in RowsOf(Order[i]) : TRUE, marks, sizing)
  IN upTo[Len(Order)]

-----------------------------------------------------------------------------
(* A single position is replaced: what else is held is closed in full, at  *)
(* any turnover, before the new selection is sized.                        *)
Selected(selections) == (CHOOSE row \in selections : TRUE).symbol

AlreadyHeld(l, selections) ==
  /\ Single /\ selections # {} /\ config.existing = "ignore"
  /\ Selected(selections) \in Held(l)

CloseReplaced(l, s, marks) ==
  Progress(Execute(l, s, -l.q[s], marks[s]), <<>>, Abs(Notional(l, s, marks)),
           Payment(-l.q[s], marks[s]))

Replaced(l, selections, marks) ==
  LET others == IF Single /\ selections # {} THEN Held(l) \ {Selected(selections)} ELSE {}
  IN IF others = {} THEN Progress(l, <<>>, 0, 0)
     ELSE CloseReplaced(l, CHOOSE s \in others : TRUE, marks)

Possible(l, selections) ==
  IF Single /\ selections # {} THEN {Selected(selections)}
  ELSE Held(l) \union {row.symbol : row \in selections}

Refused(l, selections, marks) ==
  \/ Single /\ Cardinality(selections) > 1
  \/ Cardinality(Possible(l, selections)) > config.maxRows
  \/ config.zero = "error" /\ {row.symbol : row \in selections} \ Held(l) # {}
  \/ ~Solvent(l, marks)

-----------------------------------------------------------------------------
NoBatch == [rows |-> <<>>, selections |-> {}, before |-> [s \in Symbols |-> 0]]

Init ==
  /\ config \in Configs
  /\ account = EmptyAccount
  /\ batch = NoBatch
  /\ cashBook = config.capital
  /\ roundStart = config.capital
  /\ steps = 0 /\ ok = TRUE

Calling == ok /\ steps < MaxSteps /\ steps' = steps + 1 /\ UNCHANGED config

Fails == ok' = FALSE /\ UNCHANGED <<account, batch, cashBook, roundStart>>

(* A round begins with the execution that takes the account from flat; a   *)
(* replacement begins a new one once the old position is closed.           *)
StartsRound(before, l) == IF before.active = Null THEN before.cash ELSE l

(* process: one decision snapshot, at marks of every symbol held or        *)
(* selected.  An account that is not solvent afterwards fails the run.     *)
Process(selections, marks) ==
  /\ Calling
  /\ LET replaced == Replaced(account, selections, marks)
         sizing == Equity(replaced.account, marks)
         done == IF AlreadyHeld(account, selections) THEN Progress(account, <<>>, 0, 0)
                 ELSE ProcessAll(replaced, selections, marks, sizing)
     IN IF Refused(account, selections, marks) \/ ~Solvent(replaced.account, marks)
             \/ ~Solvent(done.account, marks)
        THEN Fails
        ELSE /\ account' = [done.account EXCEPT !.decided = steps + 1]
             /\ batch' = [rows |-> done.rows, selections |-> selections,
                          before |-> account.q]
             /\ cashBook' = cashBook + done.paid
             /\ roundStart' = IF AlreadyHeld(account, selections) THEN roundStart
                              ELSE StartsRound(replaced.account, roundStart)
             /\ UNCHANGED ok

(* apply_external_deltas: risk exits the arbiter has let through, each a   *)
(* full or a partial close of what is held.                                *)
ApplyExternalDelta(s, lots, marks) ==
  /\ Calling
  /\ s \in Held(account) /\ lots \in 1 .. Abs(account.q[s])
  /\ LET delta == -(Sign(account.q[s]) * lots)
         traded == Execute(account, s, delta, marks[s])
     IN IF ~Solvent(traded, marks) THEN Fails
        ELSE /\ account' = traded
             /\ batch' = NoBatch
             /\ cashBook' = cashBook + Payment(delta, marks[s])
             /\ UNCHANGED <<roundStart, ok>>

\* Mutant: a payment is booked to the round though nothing is held.
CreditedToAnyRound(l, amount) ==
  [l EXCEPT !.cash = @ + amount, !.pnl = IF Rolling THEN @ + amount ELSE @]

\* Mutant: a payment is never booked to the round.
CreditedToCash(l, amount) == [l EXCEPT !.cash = @ + amount]

Credited(l, amount) ==
  [l EXCEPT !.cash = @ + amount,
            !.pnl = IF Rolling /\ l.active # Null THEN @ + amount ELSE @]

\* apply_cashflow: the funding of a held symbol, or a payment while flat.
ApplyCashflow(amount) ==
  /\ Calling
  /\ account' = Credited(account, amount)
  /\ batch' = NoBatch
  /\ cashBook' = cashBook + amount
  /\ UNCHANGED <<roundStart, ok>>

(* A later chunk begins with the checkpoint: what _restore requires of it. *)
Restorable(l) ==
  /\ Cardinality(Held(l)) <= config.maxRows
  /\ \A s \in Held(l) : l.cost[s] * l.q[s] > 0 /\ l.adds[s] >= 1
  /\ Rolling =>
       /\ l.margin # Null /\ l.margin > 0 /\ l.resets >= 0
       /\ (Held(l) # {}) = (l.active # Null)
       /\ Held(l) = {} => l.pnl = 0
  /\ ~Rolling => l.margin = Null

Restored(l) ==
  [l EXCEPT !.cost = [s \in Symbols |-> IF s \in Held(l) THEN l.cost[s] ELSE 0],
            !.adds = [s \in Symbols |-> IF s \in Held(l) THEN l.adds[s] ELSE 0]]

Restart ==
  /\ Calling
  /\ IF Restorable(account) THEN account' = Restored(account) /\ UNCHANGED ok
     ELSE ok' = FALSE /\ UNCHANGED account
  /\ batch' = NoBatch
  /\ UNCHANGED <<cashBook, roundStart>>

Next ==
  \/ \E selections \in Snapshots, marks \in [Symbols -> Prices] : Process(selections, marks)
  \/ \E s \in Symbols, lots \in 1 .. config.capital, marks \in [Symbols -> Prices] :
       ApplyExternalDelta(s, lots, marks)
  \/ \E amount \in Flows : ApplyCashflow(amount)
  \/ Restart

Spec == Init /\ [][Next]_vars

-----------------------------------------------------------------------------
(* The state is what the configuration allows it to be; in particular the  *)
(* margin of the next rolling round stays within its band.                 *)
TypeOK ==
  /\ config \in Configs /\ ok \in BOOLEAN /\ steps \in 0 .. MaxSteps
  /\ account.cash \in Int /\ account.pnl \in Int /\ account.resets \in Nat
  /\ DOMAIN account.q = Symbols /\ account.decided \in 0 .. MaxSteps
  /\ \A s \in Symbols :
       account.q[s] \in Int /\ account.cost[s] \in Int /\ account.adds[s] \in Nat
  /\ IF Rolling THEN account.margin \in config.min .. config.max ELSE account.margin = Null
  /\ cashBook \in Int /\ roundStart \in Int

(* Every account the engine can be in is one whose checkpoint a later      *)
(* chunk accepts (_restore): a position has a positive average price, a    *)
(* rolling round is open exactly while something is held, and a flat       *)
(* account has settled its round.                                          *)
CheckpointRestores == Restorable(account)

(* The cash balance counts realised results; less the cost of what is held *)
(* it is every payment made so far, through adds, partial closes,          *)
(* reversals, replacements and funding (_execute, updated_average_entry).  *)
CashReconciles ==
  account.cash - SumFunction(account.cost) = cashBook

(* While a rolling round is open its net result is what the cash balance   *)
(* has gained since it began, with fees and funding                        *)
(* (_execute, apply_cashflow, _settle_rolling_round).                      *)
RoundPnlIsCash ==
  Rolling /\ account.active # Null => account.pnl = account.cash - roundStart

(* After every instruction that opened something the limits hold, counted  *)
(* over the whole account and the whole batch (_limit_opening).  An opening *)
(* is limited before it is rounded to lots; with positions on both sides   *)
(* what rounding leaves out can be missing from the smaller one, so the    *)
(* net exposure keeps its limit only to within one lot (_round_delta).     *)
LimitsHold ==
  /\ \A i \in DOMAIN batch.rows :
       LET row == batch.rows[i]
           Within(limit, value) == limit = Null \/ 4 * value <= limit * row.sizing
       IN row.opened =>
            /\ Within(config.maxGross, row.gross)
            /\ config.maxNet = Null \/ 4 * (row.net - row.price) < config.maxNet * row.sizing
            /\ Within(config.maxWeight, Abs(row.position * row.price))
            /\ config.maxSymbol = Null \/ Abs(row.position * row.price) <= config.maxSymbol
            /\ Within(config.maxTurnover, row.turnover)
            /\ row.gross + config.leverage * config.buffer <= config.leverage * row.equity
  /\ \A s \in Symbols : config.maxAdds = Null \/ account.adds[s] <= config.maxAdds

=============================================================================
