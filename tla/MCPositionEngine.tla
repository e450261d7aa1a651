-------------------------- MODULE MCPositionEngine --------------------------
(* Two symbols, two prices, three calls.                                   *)
EXTENDS PositionEngine, TLC

CONSTANTS a, b

MCOrder == <<a, b>>

MCFlows == {-1, 2}

Row(symbol, side, weight) == [symbol |-> symbol, side |-> side, weight |-> weight]

\* One signal, two opposed ones, a reversal of both and a close.
MCSnapshots ==
  {{}, {Row(a, "LONG", 2)}, {Row(a, "SHORT", -4)}, {Row(b, "LONG", 3)},
   {Row(a, "LONG", 2), Row(b, "SHORT", -2)}, {Row(a, "FLAT", 0), Row(b, "LONG", 1)}}

Config(mode, amount, fraction, reverse) ==
  [mode |-> mode, amount |-> amount, fraction |-> fraction, reverse |-> reverse,
   zero |-> Null, bootstrap |-> Null,
   initial |-> Null, reset |-> Null, min |-> Null, max |-> Null,
   maxGross |-> Null, maxNet |-> Null, maxWeight |-> Null, maxSymbol |-> Null,
   maxAdds |-> Null, maxTurnover |-> Null,
   holding |-> "independent", existing |-> "add",
   leverage |-> 2, buffer |-> 0, rate |-> 1, capital |-> 16, maxRows |-> 2]

RollingConfig ==
  [Config("rolling_margin", Null, Null, "net_delta") EXCEPT
     !.initial = 4, !.reset = 4, !.min = 3, !.max = 6,
     !.holding = "single_position_replace", !.existing = "ignore"]

MCConfigs ==
  {RollingConfig,
   [Config("target_weight", Null, Null, Null) EXCEPT !.maxTurnover = 4, !.maxWeight = 3],
   [Config("target_weight", Null, Null, Null) EXCEPT
      !.holding = "single_position_replace", !.maxGross = 2],
   [Config("fixed_margin", 4, Null, "net_delta") EXCEPT !.maxNet = 4, !.maxAdds = 2],
   [Config("fixed_notional", 12, Null, "flatten_then_open") EXCEPT
      !.maxTurnover = 4, !.maxGross = 5, !.maxRows = 1],
   [Config("fixed_notional", 7, Null, "flatten_then_open") EXCEPT !.maxNet = 1],
   [Config("fixed_notional", 30, Null, "flatten_then_open") EXCEPT !.buffer = 3],
   [Config("equity_fraction", Null, 2, "flatten_only") EXCEPT !.maxGross = 3, !.rate = 2],
   [Config("equity_margin_fraction", Null, 2, "flatten_then_open") EXCEPT !.maxSymbol = 12],
   [Config("position_fraction", Null, 2, "net_delta") EXCEPT
      !.zero = "bootstrap_fixed_notional", !.bootstrap = 8],
   [Config("position_fraction", Null, 3, "net_delta") EXCEPT !.zero = "error"]}

=============================================================================
