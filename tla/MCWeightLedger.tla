--------------------------- MODULE MCWeightLedger ---------------------------
(* Two symbols over four bars, in chunks of one to four bars.              *)
EXTENDS WeightLedger, TLC

CONSTANTS a, b

MCRows == {Null, [open |-> 1, close |-> 2], [open |-> 2, close |-> 1]}

Row(signal, symbol, side, strength) ==
  [signal |-> signal, symbol |-> symbol, side |-> side, strength |-> strength]

\* Fills at the bars 1 and 3, or with a delay of two at 2 and 3.
Turning == {Row(0, a, "LONG", 3), Row(0, b, "SHORT", 1),
            Row(2, a, "SHORT", 1), Row(2, b, "LONG", 1)}
Sharing == {Row(0, a, "LONG", 1), Row(0, b, "LONG", 3), Row(1, a, "LONG", 0)}

EventAt(time, symbols, mark) ==
  [time |-> time, rates |-> [s \in symbols |-> 1], mark |-> mark]

\* On a boundary, inside a bar, and one that lacks b; the last is not read.
Full == {EventAt(2, {a, b}, Null), EventAt(4, {a, b}, Null), EventAt(7, {a, b}, 3), EventAt(8, {a}, 1)}
Lacking == {EventAt(4, {a, b}, Null), EventAt(6, {a}, 2)}

Marks == [t \in Times |-> [s \in Symbols |->
  IF s = b /\ t = 3 THEN Null ELSE [open |-> 1 + (t % 2), close |-> 2]]]

Config(selections, delay, chunk, funding, policy, marks) ==
  [selections |-> selections, delay |-> delay, chunk |-> chunk,
   funding |-> funding, policy |-> policy, marks |-> marks,
   longs |-> 4, shorts |-> 2, maxWeight |-> Null, maxTurnover |-> Null,
   leverage |-> 8, fee |-> 1, slip |-> 1, incomplete |-> {}]

MCConfigs ==
  {Config(Turning, 1, 1, Full, "error", Null),
   [Config(Turning, 1, 3, Lacking, "assume_zero", Null) EXCEPT !.maxTurnover = 3],
   Config(Turning, 1, 2, Lacking, "exclude_symbol", Null),
   [Config(Sharing, 2, 2, Full, "error", Marks) EXCEPT !.maxWeight = 2],
   [Config(Sharing, 1, 2, Null, "error", Null) EXCEPT !.incomplete = {<<2, b>>}, !.leverage = 3],
   Config(Turning, 1, 2, Lacking, "error", Marks)}

=============================================================================
