---------------------------- MODULE PointInTime ----------------------------
(***************************************************************************)
(* Point-in-time universe membership of one contract:                      *)
(* build_point_in_time_universe (bfbt/universe/point_in_time.py), as       *)
(* operators over the contract's bars and its snapshots.                   *)
(*                                                                         *)
(* A bar opens at a tick and closes at the next; bars is a function from   *)
(* the ticks that have one to whether it is complete, and every complete   *)
(* bar has a quote volume of one.  A contract snapshot is a record [at,    *)
(* trading, onboard, delivery].                                            *)
(***************************************************************************)
EXTENDS Integers, FiniteSets

CONSTANTS NoBar     \* a time that is not known: null in a table

First(times) == CHOOSE t \in times : \A u \in times : t <= u

\* ParquetDataStore.scan_bars: the bars that open in the window.
Scan(bars, start, end) ==
  [t \in {u \in DOMAIN bars : start <= u /\ u < end} |-> bars[t]]

\* The last row that closes at or before t, by the open of its bar.
LastClosed(bars, t) ==
  LET closed == {u \in DOMAIN bars : u + 1 <= t} IN
  IF closed = {} THEN NoBar ELSE CHOOSE u \in closed : \A w \in closed : w <= u

\* The complete bars of the table that close at or before t: a cumulative
\* sum, zero before the first row.
CompleteUpTo(bars, t) == Cardinality({u \in DOMAIN bars : u + 1 <= t /\ bars[u]})

(* history_bars and first_bar_open at t: null without a row at or before   *)
(* t; else the table's own count plus the bars counted in earlier chunks.  *)
HistoryBars(bars, offset, t) ==
  IF LastClosed(bars, t) = NoBar THEN 0 ELSE CompleteUpTo(bars, t) + offset.bars

FirstBarOpen(bars, offset, t) ==
  IF LastClosed(bars, t) = NoBar THEN NoBar
  ELSE IF offset.first # NoBar THEN offset.first
  ELSE First(DOMAIN bars)

\* A rolling sum: the cumulative sum at t less the one a window before.
Rolling(bars, window, t) == CompleteUpTo(bars, t) - CompleteUpTo(bars, t - window)

\* Backward as-of join of the contract snapshots.
AsOf(snapshots, t) ==
  LET known == {s \in snapshots : s.at <= t} IN
  IF known = {} THEN NoBar ELSE CHOOSE s \in known : \A u \in known : u.at <= s.at

Listing(bars, offset, snapshot, filters, t) ==
  IF snapshot # NoBar /\ snapshot.onboard # NoBar THEN snapshot.onboard
  ELSE IF filters.useFirstBar THEN FirstBarOpen(bars, offset, t) ELSE NoBar

(* The first reason that applies, in the order of the expression.          *)
Reason(bars, offset, snapshots, filters, t) ==
  LET snapshot == AsOf(snapshots, t)
      listing == Listing(bars, offset, snapshot, filters, t)
      missing == filters.window - Rolling(bars, filters.window, t)
  IN CASE filters.useSnapshots /\ snapshot = NoBar -> "NO_CONTRACT_SNAPSHOT"
       [] listing = NoBar \/ listing > t -> "NOT_LISTED"
       [] snapshot # NoBar /\ snapshot.delivery # NoBar /\ snapshot.delivery <= t
            -> "DELISTED"
       [] filters.useSnapshots /\ ~snapshot.trading -> "NOT_TRADING"
       [] t - listing < filters.minAge -> "WARMUP"
       [] HistoryBars(bars, offset, t) < filters.minHistory -> "INSUFFICIENT_HISTORY"
       [] missing > filters.maxMissing -> "MISSING_DATA"
       [] Rolling(bars, filters.window, t) < filters.minVolume -> "ILLIQUID"
       [] OTHER -> "ELIGIBLE"

Eligible(bars, offset, snapshots, filters, t) ==
  Reason(bars, offset, snapshots, filters, t) = "ELIGIBLE"

\* Mutant: every bar of the chunk's input is counted, the overlap twice.
AdvancedOverlapping(offset, bars, start, end) ==
  IF DOMAIN bars = {} THEN offset
  ELSE [bars |-> offset.bars + Cardinality({t \in DOMAIN bars : bars[t]}),
        first |-> IF offset.first # NoBar THEN offset.first ELSE First(DOMAIN bars)]

(* _advance_history: the bars of the chunk's input that open before the    *)
(* next chunk's input are counted, and the earliest of them is kept.       *)
Advanced(offset, bars, start, end) ==
  LET passed == Scan(bars, start, end) IN
  IF DOMAIN passed = {} THEN offset
  ELSE [bars |-> offset.bars + Cardinality({t \in DOMAIN passed : passed[t]}),
        first |-> IF offset.first # NoBar /\ offset.first < First(DOMAIN passed)
                  THEN offset.first ELSE First(DOMAIN passed)]

NoHistory == [bars |-> 0, first |-> NoBar]

=============================================================================
