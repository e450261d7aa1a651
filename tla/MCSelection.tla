---------------------------- MODULE MCSelection ----------------------------
(* Two or three contracts and a few ticks, one configuration of every kind.*)
EXTENDS Selection, TLC

Base == [mode |-> "rank_set", clock |-> "factor", rebalance |-> 1, lag |-> 0,
         long |-> {}, short |-> {}, start |-> 2, entry |-> 1, equal |-> "keep",
         enter |-> 1, leave |-> 1, rows |-> 6,
         longs |-> [num |-> None, count |-> 1], shorts |-> [num |-> None, count |-> 1]]

RankSetOf(lag, clock, rebalance, rows) ==
  [Base EXCEPT !.lag = lag, !.clock = clock, !.rebalance = rebalance,
               !.rows = rows, !.long = {1}, !.short = {2, 3}]

DescentOf(start, equal, rebalance) ==
  [Base EXCEPT !.mode = "rank_descent", !.start = start, !.equal = equal,
               !.rebalance = rebalance]

RankSets ==
  {RankSetOf(0, "rebalance", 1, 6), RankSetOf(1, "factor", 1, 3),
   RankSetOf(2, "factor", 2, 4), RankSetOf(1, "rebalance", 2, 2)}

Descents == {DescentOf(3, "keep", 1), DescentOf(2, "keep", 2), DescentOf(2, "reset", 1)}

Crossovers ==
  {[Base EXCEPT !.mode = "factor_crossover"],
   [Base EXCEPT !.mode = "factor_crossover", !.rebalance = 2, !.leave = 2]}

LongShorts ==
  {[Base EXCEPT !.mode = "long_short"],
   [Base EXCEPT !.mode = "long_short", !.longs.count = 2],
   [Base EXCEPT !.mode = "long_short", !.longs = [num |-> 1, den |-> 2],
                !.shorts = [num |-> 1, den |-> 3]]}

MCConfigs == RankSets \union Descents \union Crossovers \union LongShorts

=============================================================================
