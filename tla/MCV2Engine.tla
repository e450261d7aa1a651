----------------------------- MODULE MCV2Engine -----------------------------
(***************************************************************************)
(* Small instances of V2Engine: price paths, risk rules and portfolio      *)
(* sections for the runs of the event loop.                                *)
(***************************************************************************)
EXTENDS V2Engine, TLC

Contracts == Permutations(Symbols)

-----------------------------------------------------------------------------
(* Bars.                                                                   *)

OHLC(o, h, l, c) == [open |-> o, high |-> h, low |-> l, close |-> c]

Flat == OHLC(1000, 1000, 1000, 1000)
Fall == OHLC(1000, 1000, 800, 800)
Rise == OHLC(1000, 1200, 1000, 1200)
Swing == OHLC(1000, 1200, 800, 1000)

FewBars == {Flat, Fall, Rise}

\* with a gap at the open and a bar that touches both sides
ManyBars == {Flat, Rise, Swing, OHLC(800, 800, 800, 800)}

-----------------------------------------------------------------------------
(* Risk sections.                                                          *)

Off == [enabled |-> FALSE, distance |-> [LONG |-> 10, SHORT |-> 10],
        reduce |-> 100, activation |-> 0]
Close(d) == [Off EXCEPT !.enabled = TRUE, !.distance = [LONG |-> d, SHORT |-> d]]
Reduce(d) == [Close(d) EXCEPT !.reduce = 50]

Exits(stop, trail, profit) ==
  [stop_loss |-> stop, trailing_stop |-> trail, take_profit |-> profit]

PortfolioExits(loss, drawdown, profit) ==
  [stop_loss |-> loss, max_drawdown |-> drawdown, take_profit |-> profit]

StopOnly ==
  [fill_model |-> "next_bar_open", intrabar_conflict |-> "worst_case",
   symbol_exits |-> Exits(Close(10), Off, Off),
   portfolio_exits |-> PortfolioExits(0, 0, 0), cooldown_bars |-> 0,
   reentry_policy |-> "next_scheduled_rebalance", max_triggers |-> 0]

WithCooldown ==
  [StopOnly EXCEPT !.cooldown_bars = 2, !.reentry_policy = "after_cooldown"]

ShortCooldown == [WithCooldown EXCEPT !.cooldown_bars = 1]

PortfolioRisk == [ShortCooldown EXCEPT !.portfolio_exits = PortfolioExits(10, 15, 30)]

ReducingStops ==
  [StopOnly EXCEPT !.symbol_exits = Exits(Reduce(10), Off, Close(10)),
                   !.max_triggers = 2]

AllRules ==
  [WithCooldown EXCEPT
     !.symbol_exits =
       Exits(Close(15), [Reduce(10) EXCEPT !.activation = 5],
             [Reduce(10) EXCEPT !.distance.LONG = 15])]

Strict == [AllRules EXCEPT !.intrabar_conflict = "error"]

SameBar(rules) == [rules EXCEPT !.fill_model = "same_bar_trigger"]

-----------------------------------------------------------------------------
(* Portfolio sections.                                                     *)

Independent ==
  [sizing |-> "incremental", holding |-> "independent",
   reverse_policy |-> "flatten_then_open", existing_signal |-> "add"]

NetDelta == [Independent EXCEPT !.reverse_policy = "net_delta"]

FlattenOnly == [Independent EXCEPT !.reverse_policy = "flatten_only"]

TargetWeights == [Independent EXCEPT !.sizing = "target_weight"]

Replace ==
  [Independent EXCEPT !.holding = "single_position_replace",
                      !.existing_signal = "ignore"]

ReplaceOrAdd == [Replace EXCEPT !.existing_signal = "add"]

ReplaceByWeight == [Replace EXCEPT !.sizing = "target_weight"]

-----------------------------------------------------------------------------
(* The sections of each run.                                               *)

BookRisk == {PortfolioRisk, SameBar(ShortCooldown), ReducingStops}
BookPortfolios == {Independent, TargetWeights, Replace, ReplaceOrAdd, ReplaceByWeight}

ExitRisk == {ReducingStops, AllRules, Strict}
ExitPortfolios == {NetDelta, FlattenOnly, TargetWeights}
=============================================================================
