--------------------------- MODULE MCMatrixLedger ---------------------------
(* Two symbols over four bars; two candidates with schedules of their own. *)
EXTENDS MatrixLedger, TLC

CONSTANTS a, b, x, y

MCRows == {Null, [open |-> 1, close |-> 2], [open |-> 2, close |-> 1]}

Row(t, s, w) == [fill |-> t, symbol |-> s, weight |-> w]

LongShort == [times |-> {0, 2},
              targets |-> {Row(0, a, 1), Row(0, b, -1), Row(2, a, -1)}]
Rotating == [times |-> {1, 2, 3},
             targets |-> {Row(1, a, 2), Row(2, b, 1), Row(3, a, 1), Row(3, b, 0)}]
Idle == [times |-> {3}, targets |-> {}]

EventAt(time, symbols, mark) ==
  [time |-> time, rates |-> [s \in symbols |-> 1], mark |-> mark]

(* Fundings on a boundary of bars, and inside a bar; the last lacks b.     *)
Fundings == {EventAt(4, {a, b}, Null), EventAt(5, {a, b}, 1), EventAt(6, {a}, Null)}

Marks == [t \in Times |-> [s \in Symbols |-> IF s = b /\ t = 2 THEN Null ELSE 1 + (t % 2)]]

Config(one, other, chunk, funding, policy, marks) ==
  [schedules |-> (x :> one @@ y :> other), chunk |-> chunk, funding |-> funding,
   policy |-> policy, marks |-> marks, fee |-> 1]

MCConfigs ==
  {Config(LongShort, Rotating, 2, Fundings, "assume_zero", Null),
   Config(Rotating, LongShort, 4, Fundings, "error", Null),
   Config(Rotating, Idle, 2, Fundings, "assume_zero", Marks),
   Config(Idle, LongShort, 6, Null, "error", Null),
   Config(LongShort, LongShort, 6, Fundings, "error", Marks)}

=============================================================================
