---------------------------- MODULE MCChunkedRun ----------------------------
(* Two runs over four ticks with a rebalance at every tick.                *)
EXTENDS ChunkedRun, TLC

\* Ranks of one tick ago, over the clock of the factor.
Lagged == [lag |-> 1, clock |-> "factor"]

\* The current ranks, over the rebalance clock.
Current == [lag |-> 0, clock |-> "rebalance"]

MCSelections == {Lagged, Current}

Listed == [at |-> -3, trading |-> TRUE, onboard |-> NoBar, delivery |-> NoBar]

\* Bars from the start; a contract listed late, whose first bar is
\* incomplete; one with a gap, that is delivered.
MCHistories ==
  {[bars |-> [t \in -3 .. 3 |-> TRUE], snapshots |-> {Listed}],
   [bars |-> [t \in -1 .. 3 |-> t # -1],
    snapshots |-> {[Listed EXCEPT !.at = -1],
                   [Listed EXCEPT !.at = 3, !.trading = FALSE]}],
   [bars |-> [t \in {-3, -2, -1, 2} |-> TRUE],
    snapshots |-> {[Listed EXCEPT !.delivery = 3]}]}

\* The runs are alike: only invariants are checked.
Alike == Permutations(Runs)

MCFilters ==
  [useSnapshots |-> TRUE, useFirstBar |-> TRUE, minAge |-> 2, minHistory |-> 3,
   window |-> 2, maxMissing |-> 1, minVolume |-> 0]

=============================================================================
